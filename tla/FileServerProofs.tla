--------------------------- MODULE FileServerProofs ---------------------------
(***************************************************************************)
(* Theorems about FileServer, for any number of clients, any files and any *)
(* capacity of the queues, whatever is killed and whichever calls fail.    *)
(***************************************************************************)
EXTENDS FileServer, SequenceTheorems, TLAPS

KidStates == Running \cup {"none", "zombie", "reaped"}
ClientStates == Answered \cup {"start", "request", "first", "more", "error", "killed"}

FileType == /\ srvq \in Seq(FileClients) /\ exists \subseteq FileClients \cup {"server"}
            /\ fspc \in {"rcv", "fork", "rmid", "exit"}
            /\ cur \in FileClients \cup {"none"}
            /\ kid \in [FileClients -> KidStates] /\ pos \in [FileClients -> Nat]
            /\ fcpc \in [FileClients -> ClientStates]
            /\ got \in [FileClients -> Seq(Int)] /\ respq \in [FileClients -> Seq(Int)]

\* The server has a request in its hands exactly while it is to fork a child.
CurRight == /\ fspc = "rcv" => cur = "none"
            /\ fspc = "fork" => cur \in FileClients

\* The server's loop has ended or is about to fail.
Stopped == fspc \in {"rmid", "exit"} \/ "server" \notin exists

Queued(c) == \E i \in 1 .. Len(srvq) : srvq[i] = c

\* No request is served twice, or before it is made; the queue of a client that
\* is to be answered is there.
Requested(c) ==
    /\ Queued(c) => kid[c] = "none" /\ cur # c /\ c \in exists
    /\ cur = c => kid[c] = "none" /\ c \in exists
    /\ fcpc[c] \in {"start", "request", "error"} => kid[c] = "none" /\ ~Queued(c) /\ cur # c
    /\ fcpc[c] \in {"request", "first", "more"} => c \in exists
    /\ kid[c] \in Running => c \in exists
    /\ fcpc[c] \in {"first", "more"} /\ kid[c] = "none" => Queued(c) \/ cur = c \/ Stopped

Once == \A i, j \in 1 .. Len(srvq) : srvq[i] = srvq[j] => i = j

\* The blocks up to n are received or in the queue of c, in order.
UpTo(c, n) == /\ Len(got[c]) <= n
              /\ \A k \in 1 .. n - Len(got[c]) : respq[c][k] = Len(got[c]) + k

\* What child c has read: the whole file, unless a read() failed.
ReadAll(c) == file[c] # -1 /\ (c \in cut \/ pos[c] = file[c])

\* What is in the queue of c when its child has ended.
Final(c) == \/ file[c] = -1 /\ got[c] = << >> /\ respq[c] = <<FAILURE>>
            \/ /\ ReadAll(c) /\ UpTo(c, pos[c])
               /\ Len(respq[c]) = pos[c] - Len(got[c]) + 1
               /\ respq[c][Len(respq[c])] = END

\* How far the answer to c has got, by the state of the child.
Answering(c) ==
    /\ \A k \in 1 .. Len(got[c]) : got[c][k] = k
    /\ kid[c] \in {"none", "open", "failure"} =>
          pos[c] = 0 /\ got[c] = << >> /\ respq[c] = << >> /\ fcpc[c] \notin Answered
    /\ kid[c] = "failure" => file[c] = -1
    /\ kid[c] \in {"read", "send", "end"} =>
          file[c] # -1 /\ pos[c] <= file[c] /\ fcpc[c] \notin Answered
    /\ kid[c] \in {"read", "end"} => UpTo(c, pos[c]) /\ Len(respq[c]) = pos[c] - Len(got[c])
    /\ kid[c] = "send" => /\ pos[c] > 0 /\ UpTo(c, pos[c] - 1)
                          /\ Len(respq[c]) = pos[c] - 1 - Len(got[c])
    /\ kid[c] = "end" => ReadAll(c)
    /\ kid[c] \in {"zombie", "reaped"} /\ fcpc[c] \notin Answered => Final(c)
    /\ fcpc[c] = "more" => got[c] # << >>
    /\ fcpc[c] = "failed" => file[c] = -1
    /\ fcpc[c] = "ok" => ReadAll(c) /\ Len(got[c]) = pos[c]

FileInv == /\ FileType /\ CurRight /\ Once
           /\ \A c \in FileClients : Requested(c) /\ Answering(c)

-----------------------------------------------------------------------------
\* The typing and what the server has in its hands are kept by every step.
LEMMA TypeStep == FileType /\ CurRight /\ [FileNext]_fileVars => (FileType /\ CurRight)'
<1> SUFFICES ASSUME FileType, CurRight, [FileNext]_fileVars PROVE (FileType /\ CurRight)'
  OBVIOUS
<1> USE EnvAssumption DEF FileType, CurRight, fileServer, child, fileClient, queues
<1>1. CASE ServerReceive
  BY <1>1 DEF ServerReceive, Main
<1>2. CASE ServerFork
  BY <1>2 DEF ServerFork, Main, KidStates, Running
<1>3. CASE ServerForkFails \/ ServerReceiveFails \/ FileServerKilled
  BY <1>3 DEF ServerForkFails, ServerReceiveFails, FileServerKilled, Main
<1>4. CASE ServerRemove \/ QueueRemoved
  <2>1. srvq' \in Seq(FileClients)
    <3>1. srvq' = << >>
      BY <1>4 DEF ServerRemove, QueueRemoved
    <3> QED
      BY <3>1, EmptySeq
  <2>2. CASE ServerRemove
    BY <2>1, <2>2 DEF ServerRemove, Main
  <2>3. CASE QueueRemoved
    BY <2>1, <2>3 DEF QueueRemoved
  <2> QED
    BY <1>4, <2>2, <2>3
<1>5. CASE HandlerEnter \/ HandlerReturn
  BY <1>5 DEF HandlerEnter, HandlerReturn
<1>6. ASSUME NEW c \in FileClients, HandlerReap(c) PROVE (FileType /\ CurRight)'
  BY <1>6 DEF HandlerReap, KidStates
<1>7. ASSUME NEW c \in FileClients, ChildOpen(c) \/ ChildReadFails(c)
      PROVE  (FileType /\ CurRight)'
  <2>1. kid' \in [FileClients -> KidStates]
    BY <1>7 DEF ChildOpen, ChildReadFails, Kid, KidStates, Running
  <2>2. UNCHANGED <<fspc, cur, pos, fcpc, got, srvq, exists, respq>>
    BY <1>7 DEF ChildOpen, ChildReadFails
  <2> QED
    BY <2>1, <2>2
<1>8. ASSUME NEW c \in FileClients, ChildRead(c) PROVE (FileType /\ CurRight)'
  <2>1. kid' \in [FileClients -> KidStates]
    BY <1>8 DEF ChildRead, Kid, KidStates, Running
  <2>2. pos' \in [FileClients -> Nat]
    BY <1>8 DEF ChildRead
  <2>3. UNCHANGED <<fspc, cur, fcpc, got, srvq, exists, respq>>
    BY <1>8 DEF ChildRead
  <2> QED
    BY <2>1, <2>2, <2>3
<1>9. ASSUME NEW c \in FileClients, NEW m \in Int, Send(c, m)
      PROVE  respq' \in [FileClients -> Seq(Int)]
  <2>1. Append(respq[c], m) \in Seq(Int)
    BY AppendProperties
  <2> QED
    BY <1>9, <2>1 DEF Send
<1>10. ASSUME NEW c \in FileClients, ChildFailure(c) PROVE (FileType /\ CurRight)'
  <2>1. respq' \in [FileClients -> Seq(Int)]
    BY <1>9, <1>10 DEF ChildFailure, FAILURE
  <2> QED
    BY <1>10, <2>1 DEF ChildFailure, Kid, KidStates
<1>11. ASSUME NEW c \in FileClients, ChildSend(c) PROVE (FileType /\ CurRight)'
  <2>1. respq' \in [FileClients -> Seq(Int)]
    BY <1>9, <1>11 DEF ChildSend
  <2> QED
    BY <1>11, <2>1 DEF ChildSend, Kid, KidStates, Running
<1>12. ASSUME NEW c \in FileClients, ChildEnd(c) PROVE (FileType /\ CurRight)'
  <2>1. respq' \in [FileClients -> Seq(Int)]
    BY <1>9, <1>12 DEF ChildEnd, END
  <2> QED
    BY <1>12, <2>1 DEF ChildEnd, Kid, KidStates
<1>13. ASSUME NEW c \in FileClients, ClientCreate(c) PROVE (FileType /\ CurRight)'
  BY <1>13 DEF ClientCreate, FileClientAt, ClientStates
<1>14. ASSUME NEW c \in FileClients, FileClientKilled(c) PROVE (FileType /\ CurRight)'
  BY <1>14 DEF FileClientKilled, ClientStates
<1>15. ASSUME NEW c \in FileClients, ClientRequest(c) PROVE (FileType /\ CurRight)'
  <2>1. fcpc' \in [FileClients -> ClientStates] /\ exists' \subseteq FileClients \cup {"server"}
    BY <1>15 DEF ClientRequest, FileClientAt, ClientStates
  <2>2. srvq' \in Seq(FileClients)
    <3>1. Append(srvq, c) \in Seq(FileClients)
      BY AppendProperties
    <3> QED
      BY <1>15, <3>1 DEF ClientRequest
  <2> QED
    BY <1>15, <2>1, <2>2 DEF ClientRequest
<1>16. ASSUME NEW c \in FileClients, ClientReceive(c) PROVE (FileType /\ CurRight)'
  BY <1>16 DEF ClientReceive, ClientStates, Answered
<1>17. CASE UNCHANGED fileVars
  BY <1>17 DEF fileVars
<1> QED
  BY <1>1, <1>2, <1>3, <1>4, <1>5, <1>6, <1>7, <1>8, <1>10, <1>11, <1>12, <1>13, <1>14,
     <1>15, <1>16, <1>17
     DEF FileNext, FileServerStep, Failure, Child, FileClientStep
-----------------------------------------------------------------------------
\* Whether a client's request is under way depends on these variables only.
LEMMA SameRequest ==
    ASSUME NEW c \in FileClients, Requested(c),
           kid'[c] = kid[c], fcpc'[c] = fcpc[c],
           Queued(c)' <=> Queued(c), cur' = c <=> cur = c, c \in exists => c \in exists',
           Stopped => Stopped'
    PROVE  Requested(c)'
BY DEF Requested

\* A step that does not touch the server's queue leaves its requests there.
LEMMA SameQueued == ASSUME NEW c, srvq' = srvq PROVE Queued(c)' <=> Queued(c)
BY DEF Queued

\* Once the server's loop has ended, or its queue has gone, it stays so.
LEMMA StoppedStep == FileType /\ [FileNext]_fileVars /\ Stopped => Stopped'
<1> SUFFICES ASSUME FileType, [FileNext]_fileVars, Stopped PROVE Stopped'
  OBVIOUS
<1> USE EnvAssumption DEF Stopped, fileServer, child, fileClient, queues
<1>1. CASE FileServerStep
  BY <1>1 DEF FileServerStep, ServerReceive, ServerReceiveFails, ServerFork, ServerRemove,
              HandlerEnter, HandlerReap, HandlerReturn, Main
<1>2. CASE Failure
  BY <1>2 DEF Failure, ServerForkFails, FileServerKilled, QueueRemoved, ChildReadFails,
              FileClientKilled, Main
<1>3. ASSUME NEW c \in FileClients, Child(c) PROVE Stopped'
  BY <1>3 DEF Child, ChildOpen, ChildFailure, ChildRead, ChildSend, ChildEnd
<1>4. ASSUME NEW c \in FileClients, ClientCreate(c) \/ FileClientStep(c) PROVE Stopped'
  BY <1>4 DEF ClientCreate, FileClientStep, ClientRequest, ClientReceive
<1>5. CASE UNCHANGED fileVars
  BY <1>5 DEF fileVars
<1> QED
  BY <1>1, <1>2, <1>3, <1>4, <1>5 DEF FileNext

\* The message a client takes next is the block it lacks, or the last one.
LEMMA WhatIsReceived ==
    ASSUME FileType, NEW c \in FileClients, Answering(c),
           fcpc[c] \in {"first", "more"}, respq[c] # << >>
    PROVE  /\ Len(respq[c]) \in Nat \ {0} /\ Len(got[c]) \in Nat
           /\ \/ respq[c][1] = Len(got[c]) + 1 /\ Len(got[c]) < pos[c]
              \/ /\ kid[c] \in {"zombie", "reaped"}
                 /\ \/ respq[c][1] = FAILURE /\ file[c] = -1 /\ fcpc[c] = "first"
                    \/ respq[c][1] = END /\ ReadAll(c) /\ Len(got[c]) = pos[c]
<1>1. /\ Len(respq[c]) \in Nat \ {0} /\ Len(got[c]) \in Nat /\ pos[c] \in Nat
      /\ kid[c] \in {"read", "send", "end", "zombie", "reaped"}
  BY EmptySeq, LenProperties DEF FileType, Answering, KidStates, Running
<1>2. CASE kid[c] \in {"read", "end"}
  BY <1>1, <1>2, SMTT(30) DEF Answering, UpTo
<1>3. CASE kid[c] = "send"
  BY <1>1, <1>3, SMTT(30) DEF Answering, UpTo
<1>4. CASE kid[c] \in {"zombie", "reaped"}
  <2>1. Final(c)
    BY <1>4 DEF Answering, Answered
  <2>2. CASE file[c] = -1 /\ got[c] = << >> /\ respq[c] = <<FAILURE>>
    BY <1>1, <1>4, <2>2 DEF Answering
  <2>3. CASE Len(got[c]) < pos[c] /\ UpTo(c, pos[c])
    BY <1>1, <2>3 DEF UpTo
  <2>4. CASE /\ ReadAll(c) /\ Len(got[c]) = pos[c] /\ Len(respq[c]) = 1
             /\ respq[c][Len(respq[c])] = END
    BY <1>1, <1>4, <2>4
  <2>5. UpTo(c, pos[c]) => Len(got[c]) <= pos[c]
    BY DEF UpTo
  <2>6. CASE /\ ReadAll(c) /\ UpTo(c, pos[c]) /\ Len(respq[c]) = pos[c] - Len(got[c]) + 1
             /\ respq[c][Len(respq[c])] = END
    <3>1. Len(got[c]) < pos[c] \/ (Len(got[c]) = pos[c] /\ Len(respq[c]) = 1)
      BY <1>1, <2>5, <2>6
    <3> QED
      BY <2>3, <2>4, <2>6, <3>1
  <2> QED
    BY <2>1, <2>2, <2>6 DEF Final
<1> QED
  BY <1>1, <1>2, <1>3, <1>4

\* No step serves a request twice or answers one that was not made.
LEMMA RequestStep ==
    FileInv /\ [FileNext]_fileVars => Once' /\ \A c \in FileClients : Requested(c)'
<1> SUFFICES ASSUME FileInv, [FileNext]_fileVars
             PROVE  Once' /\ \A c \in FileClients : Requested(c)'
  OBVIOUS
<1>1. FileType /\ CurRight /\ Once /\ (\A c \in FileClients : Requested(c) /\ Answering(c))
  BY DEF FileInv
<1>2. Stopped => Stopped'
  BY <1>1, StoppedStep
<1> USE EnvAssumption DEF fileServer, child, fileClient, queues
<1>3. ASSUME srvq' = srvq, cur' = cur, exists \subseteq exists', NEW c \in FileClients,
             \A d \in FileClients \ {c} : kid'[d] = kid[d] /\ fcpc'[d] = fcpc[d],
             Requested(c)'
      PROVE  Once' /\ \A d \in FileClients : Requested(d)'
  <2>1. Once'
    BY <1>1, <1>3 DEF Once
  <2>2. ASSUME NEW d \in FileClients \ {c} PROVE Requested(d)'
    BY <1>1, <1>2, <1>3, SameQueued, SameRequest
  <2> QED
    BY <1>3, <2>1, <2>2
<1>4. ASSUME srvq' = srvq, cur' = cur, exists' = exists, kid' = kid, fcpc' = fcpc
      PROVE  Once' /\ \A d \in FileClients : Requested(d)'
  <2>1. Once'
    BY <1>1, <1>4 DEF Once
  <2>2. ASSUME NEW d \in FileClients PROVE Requested(d)'
    BY <1>1, <1>2, <1>4, SameQueued, SameRequest
  <2> QED
    BY <2>1, <2>2
<1>5. CASE ServerReceive
  <2>1. /\ Len(srvq') = Len(srvq) - 1 /\ Len(srvq) \in Nat \ {0}
        /\ \A i \in 1 .. Len(srvq') : srvq'[i] = srvq[i + 1]
        /\ cur' = srvq[1] /\ cur' \in FileClients
    BY <1>1, <1>5, HeadTailProperties, EmptySeq DEF ServerReceive, FileType
  <2>2. Once'
    BY <1>1, <2>1 DEF Once
  <2>3. ASSUME NEW d \in FileClients PROVE Requested(d)'
    <3>1. Queued(d) <=> (Queued(d)' \/ cur' = d)
      <4>1. ASSUME NEW i \in 1 .. Len(srvq), srvq[i] = d PROVE Queued(d)' \/ cur' = d
        <5>1. CASE i = 1
          BY <2>1, <4>1, <5>1
        <5>2. CASE i # 1
          <6>1. i - 1 \in 1 .. Len(srvq') /\ srvq'[i - 1] = d
            BY <2>1, <4>1, <5>2
          <6> QED
            BY <6>1 DEF Queued
        <5> QED
          BY <5>1, <5>2
      <4>2. Queued(d)' => Queued(d)
        BY <2>1 DEF Queued
      <4>3. cur' = d => Queued(d)
        <5>1. 1 \in 1 .. Len(srvq) /\ srvq[1] = cur'
          BY <2>1
        <5> QED
          BY <5>1 DEF Queued
      <4> QED
        BY <4>1, <4>2, <4>3 DEF Queued
    <3>2. ~(Queued(d)' /\ cur' = d)
      BY <1>1, <2>1 DEF Queued, Once
    <3>3. cur # d
      BY <1>1, <1>5 DEF CurRight, ServerReceive, Main
    <3>4. /\ kid' = kid /\ fcpc' = fcpc /\ exists' = exists
      BY <1>5 DEF ServerReceive
    <3> QED
      BY <1>1, <1>2, <3>1, <3>2, <3>3, <3>4 DEF Requested
  <2> QED
    BY <2>2, <2>3
<1>6. CASE ServerFork
  <2>1. /\ srvq' = srvq /\ exists' = exists /\ fcpc' = fcpc /\ cur' = "none"
        /\ cur \in FileClients /\ kid' = [kid EXCEPT ![cur] = "open"]
    BY <1>1, <1>6 DEF ServerFork, Main, CurRight
  <2>2. Once'
    BY <1>1, <2>1 DEF Once
  <2>3. ASSUME NEW d \in FileClients PROVE Requested(d)'
    <3>1. Queued(d)' <=> Queued(d)
      BY <2>1, SameQueued
    <3>2. CASE d = cur
      BY <1>1, <2>1, <3>1, <3>2 DEF Requested, FileType, KidStates, Running
    <3>3. CASE d # cur
      BY <1>1, <1>2, <2>1, <3>1, <3>3, SameRequest DEF FileType
    <3> QED
      BY <3>2, <3>3
  <2> QED
    BY <2>2, <2>3
<1>7. CASE ServerForkFails \/ ServerReceiveFails \/ FileServerKilled \/ HandlerEnter
           \/ HandlerReturn \/ UNCHANGED fileVars
  BY <1>4, <1>7 DEF ServerForkFails, ServerReceiveFails, FileServerKilled, HandlerEnter,
                    HandlerReturn, fileVars
<1>8. CASE ServerRemove \/ QueueRemoved
  <2>1. /\ srvq' = << >> /\ exists' = exists \ {"server"} /\ kid' = kid /\ fcpc' = fcpc
        /\ cur' = cur
    BY <1>8 DEF ServerRemove, QueueRemoved
  <2>2. Once' /\ \A d : ~Queued(d)'
    BY <2>1 DEF Once, Queued
  <2>3. Stopped'
    BY <2>1 DEF Stopped
  <2>4. ASSUME NEW d \in FileClients PROVE Requested(d)'
    BY <1>1, <2>1, <2>2, <2>3 DEF Requested
  <2> QED
    BY <2>2, <2>4
<1>9. ASSUME NEW c \in FileClients, HandlerReap(c) \/ Child(c) \/ ChildReadFails(c)
      PROVE  Once' /\ \A d \in FileClients : Requested(d)'
  <2>1. /\ srvq' = srvq /\ cur' = cur /\ exists' = exists /\ fcpc' = fcpc
        /\ kid[c] \in Running \cup {"zombie"}
        /\ \E k \in Running \cup {"zombie", "reaped"} : kid' = [kid EXCEPT ![c] = k]
        /\ kid'[c] \in Running => kid[c] \in Running
    BY <1>1, <1>9 DEF HandlerReap, Child, ChildOpen, ChildFailure, ChildRead, ChildSend,
                      ChildEnd, ChildReadFails, Kid, Running, FileType
  <2>2. kid'[c] # "none" /\ \A d \in FileClients \ {c} : kid'[d] = kid[d]
    BY <1>1, <2>1 DEF FileType, Running
  <2>3. Requested(c)'
    BY <1>1, <2>1, <2>2, SameQueued DEF Requested, Running
  <2> QED
    BY <1>3, <2>1, <2>2, <2>3
<1>10. ASSUME NEW c \in FileClients, ClientCreate(c)
       PROVE  Once' /\ \A d \in FileClients : Requested(d)'
  <2>1. /\ srvq' = srvq /\ cur' = cur /\ kid' = kid /\ exists \subseteq exists'
        /\ fcpc[c] = "start" /\ \A d \in FileClients \ {c} : fcpc'[d] = fcpc[d]
        /\ fcpc'[c] = "error" \/ (fcpc'[c] = "request" /\ c \in exists')
    BY <1>1, <1>10 DEF ClientCreate, FileClientAt, FileType
  <2>2. Requested(c)'
    BY <1>1, <2>1, SameQueued DEF Requested
  <2> QED
    BY <1>3, <2>1, <2>2
<1>11. ASSUME NEW c \in FileClients, FileClientKilled(c)
       PROVE  Once' /\ \A d \in FileClients : Requested(d)'
  <2>1. /\ srvq' = srvq /\ cur' = cur /\ kid' = kid /\ exists = exists'
        /\ \A d \in FileClients \ {c} : fcpc'[d] = fcpc[d]
        /\ fcpc'[c] = "killed"
    BY <1>1, <1>11 DEF FileClientKilled, FileType
  <2>2. Requested(c)'
    BY <1>1, <2>1, SameQueued DEF Requested
  <2> QED
    BY <1>3, <2>1, <2>2
<1>12. ASSUME NEW c \in FileClients, ClientRequest(c)
       PROVE  Once' /\ \A d \in FileClients : Requested(d)'
  <2>1. fcpc[c] = "request" /\ kid[c] = "none" /\ ~Queued(c) /\ cur # c /\ c \in exists
    BY <1>1, <1>12 DEF ClientRequest, FileClientAt, Requested
  <2>2. CASE fcpc'[c] = "first" /\ srvq' = Append(srvq, c) /\ exists' = exists
    <3>1. /\ Len(srvq') = Len(srvq) + 1 /\ Len(srvq) \in Nat
          /\ \A i \in 1 .. Len(srvq) : srvq'[i] = srvq[i]
          /\ srvq'[Len(srvq) + 1] = c
      BY <1>1, <2>2, AppendProperties, LenProperties DEF FileType
    <3>2. kid' = kid /\ cur' = cur /\ \A d \in FileClients \ {c} : fcpc'[d] = fcpc[d]
      BY <1>1, <1>12 DEF ClientRequest, FileClientAt, FileType
    <3>3. Once'
      BY <1>1, <2>1, <3>1 DEF Once, Queued
    <3>4. ASSUME NEW d \in FileClients \ {c} PROVE Requested(d)'
      <4>1. Queued(d)' <=> Queued(d)
        BY <3>1 DEF Queued
      <4> QED
        BY <1>1, <1>2, <2>2, <3>2, <4>1, SameRequest
    <3>5. Requested(c)'
      <4>1. Queued(c)'
        BY <3>1 DEF Queued
      <4> QED
        BY <2>1, <2>2, <3>2, <4>1 DEF Requested, Running
    <3> QED
      BY <3>3, <3>4, <3>5
  <2>3. CASE fcpc'[c] = "error" /\ srvq' = srvq /\ exists' = exists \ {c}
    <3>1. kid' = kid /\ cur' = cur /\ \A d \in FileClients \ {c} : fcpc'[d] = fcpc[d]
      BY <1>1, <1>12 DEF ClientRequest, FileClientAt, FileType
    <3>2. Once'
      BY <1>1, <2>3 DEF Once
    <3>3. ASSUME NEW d \in FileClients \ {c} PROVE Requested(d)'
      BY <1>1, <1>2, <2>3, <3>1, SameQueued, SameRequest
    <3>4. Requested(c)'
      BY <2>1, <2>3, <3>1, SameQueued DEF Requested, Running
    <3> QED
      BY <3>2, <3>3, <3>4
  <2> QED
    BY <1>1, <1>12, <2>2, <2>3 DEF ClientRequest, FileClientAt, FileType
<1>13. ASSUME NEW c \in FileClients, ClientReceive(c)
       PROVE  Once' /\ \A d \in FileClients : Requested(d)'
  <2>1. /\ srvq' = srvq /\ cur' = cur /\ kid' = kid
        /\ fcpc[c] \in {"first", "more"} /\ respq[c] # << >>
        /\ \A d \in FileClients \ {c} : fcpc'[d] = fcpc[d] /\ (d \in exists => d \in exists')
        /\ fcpc'[c] \in {"more"} \cup Answered
        /\ fcpc'[c] = "more" => exists' = exists
    BY <1>1, <1>13 DEF ClientReceive, Answered, FileType
  <2>2. kid[c] \notin {"none", "open", "failure"}
    BY <1>1, <2>1 DEF Answering
  <2>3. CASE fcpc'[c] = "more"
    BY <1>1, <1>3, <2>1, <2>2, <2>3, SameQueued DEF Requested
  <2>4. CASE fcpc'[c] \in Answered
    <3>1. kid[c] \in {"zombie", "reaped"}
      BY <1>1, <1>13, <2>1, <2>4, WhatIsReceived
         DEF ClientReceive, Answered, FileType, END, FAILURE
    <3>2. Once'
      BY <1>1, <2>1 DEF Once
    <3>3. ASSUME NEW d \in FileClients \ {c} PROVE Requested(d)'
      BY <1>1, <1>2, <2>1, SameQueued, SameRequest
    <3>4. Requested(c)'
      BY <1>1, <2>1, <2>4, <3>1, SameQueued DEF Requested, Running, Answered
    <3> QED
      BY <3>2, <3>3, <3>4
  <2> QED
    BY <2>1, <2>3, <2>4
<1> QED
  BY <1>5, <1>6, <1>7, <1>8, <1>9, <1>10, <1>11, <1>12, <1>13
     DEF FileNext, FileServerStep, Failure, FileClientStep

\* A queue that holds one message.
LEMMA OneMessage ==
    ASSUME NEW q, NEW m, q = <<m>>
    PROVE  q # << >> /\ Len(q) = 1 /\ q[1] = m
OBVIOUS

\* How far an answer has got depends on these variables only.
LEMMA SameAnswer ==
    ASSUME NEW c \in FileClients, Answering(c), kid'[c] = kid[c], pos'[c] = pos[c],
           fcpc'[c] = fcpc[c], got'[c] = got[c], respq'[c] = respq[c],
           c \in cut' <=> c \in cut
    PROVE  Answering(c)'
BY SMTT(30) DEF Answering, UpTo, ReadAll, Final

\* Every step takes an answer on as it should.
LEMMA AnswerStep == FileInv /\ [FileNext]_fileVars => \A c \in FileClients : Answering(c)'
<1> SUFFICES ASSUME FileInv, [FileNext]_fileVars PROVE \A c \in FileClients : Answering(c)'
  OBVIOUS
<1>1. FileType /\ CurRight /\ (\A c \in FileClients : Requested(c) /\ Answering(c))
  BY DEF FileInv
<1> USE DEF fileServer, child, fileClient, queues
<1>2. ASSUME NEW c \in FileClients, Answering(c)',
             \A d \in FileClients \ {c} :
                /\ kid'[d] = kid[d] /\ pos'[d] = pos[d] /\ fcpc'[d] = fcpc[d]
                /\ got'[d] = got[d] /\ respq'[d] = respq[d] /\ (d \in cut' <=> d \in cut)
      PROVE  \A d \in FileClients : Answering(d)'
  BY <1>1, <1>2, SameAnswer
<1>3. CASE UNCHANGED <<kid, pos, cut, fcpc, got, respq>>
  BY <1>1, <1>3, SameAnswer
<1>4. ASSUME NEW c \in FileClients, cur = c, ServerFork PROVE \A d \in FileClients : Answering(d)'
  <2>1. kid' = [kid EXCEPT ![c] = "open"] /\ UNCHANGED <<pos, cut, fcpc, got, respq>>
    BY <1>4 DEF ServerFork
  <2>2. kid[c] = "none" /\ kid'[c] = "open"
    BY <1>1, <1>4, <2>1 DEF Requested, FileType
  <2>3. Answering(c)'
    BY <1>1, <2>1, <2>2 DEF Answering, Answered
  <2> QED
    BY <1>1, <1>2, <2>1, <2>3 DEF FileType
<1>5. ASSUME NEW c \in FileClients, HandlerReap(c) PROVE \A d \in FileClients : Answering(d)'
  <2>1. /\ kid[c] = "zombie" /\ kid' = [kid EXCEPT ![c] = "reaped"]
        /\ UNCHANGED <<pos, cut, fcpc, got, respq>>
    BY <1>5 DEF HandlerReap
  <2>2. Answering(c)'
    BY <1>1, <2>1 DEF Answering, UpTo, ReadAll, Final, FileType
  <2> QED
    BY <1>1, <1>2, <2>1, <2>2 DEF FileType
<1>6. ASSUME NEW c \in FileClients, ChildOpen(c) PROVE \A d \in FileClients : Answering(d)'
  <2>1. /\ kid[c] = "open" /\ kid' = [kid EXCEPT ![c] = IF file[c] = -1 THEN "failure" ELSE "read"]
        /\ UNCHANGED <<pos, cut, fcpc, got, respq>>
    BY <1>6 DEF ChildOpen, Kid
  <2>2. pos[c] = 0 /\ got[c] = << >> /\ respq[c] = << >> /\ fcpc[c] \notin Answered
    BY <1>1, <2>1 DEF Answering
  <2>3. ASSUME file[c] = -1 /\ kid'[c] = "failure"
       PROVE  Answering(c)'
    BY <1>1, <2>1, <2>2, <2>3 DEF Answering, Answered
  <2>4. ASSUME file[c] \in Nat /\ kid'[c] = "read"
       PROVE  Answering(c)'
    <3>1. Len(got[c]) = 0 /\ Len(respq[c]) = 0
      BY <2>2
    <3>2. UpTo(c, pos[c])'
      BY <2>1, <2>2, <3>1 DEF UpTo
    <3>3. pos'[c] = 0 /\ Len(respq'[c]) = 0 /\ Len(got'[c]) = 0
      BY <2>1, <2>2, <3>1
    <3>4. file[c] # -1 /\ pos'[c] <= file[c] /\ Len(respq'[c]) = pos'[c] - Len(got'[c])
      BY <2>4, <3>3
    <3> QED
      BY <1>1, <2>1, <2>2, <2>4, <3>2, <3>4 DEF Answering, Answered
  <2>5. Answering(c)'
    BY <1>1, <2>1, <2>3, <2>4, FileAssumption DEF FileType
  <2> QED
    BY <1>1, <1>2, <2>1, <2>5 DEF FileType
<1>7. ASSUME NEW c \in FileClients, ChildRead(c) PROVE \A d \in FileClients : Answering(d)'
  <2>1. /\ kid[c] = "read" /\ kid' = [kid EXCEPT ![c] = IF pos[c] < file[c] THEN "send" ELSE "end"]
        /\ pos' = [pos EXCEPT ![c] = IF pos[c] < file[c] THEN pos[c] + 1 ELSE pos[c]]
        /\ UNCHANGED <<cut, fcpc, got, respq>>
    BY <1>7 DEF ChildRead, Kid
  <2>2. /\ UpTo(c, pos[c]) /\ Len(respq[c]) = pos[c] - Len(got[c]) /\ pos[c] <= file[c]
        /\ file[c] \in Nat /\ pos[c] \in Nat /\ fcpc[c] \notin Answered
    BY <1>1, <2>1, FileAssumption DEF Answering, FileType
  <2>3. ASSUME pos[c] < file[c] /\ kid'[c] = "send" /\ pos'[c] = pos[c] + 1
       PROVE  Answering(c)'
    <3>1. pos'[c] - 1 = pos[c] /\ pos'[c] > 0 /\ pos'[c] <= file[c] /\ file[c] # -1
          /\ respq'[c] = respq[c] /\ got'[c] = got[c] /\ fcpc'[c] = fcpc[c]
      <4>1. respq'[c] = respq[c] /\ got'[c] = got[c] /\ fcpc'[c] = fcpc[c]
        BY <2>1
      <4>2. pos[c] \in Nat /\ file[c] \in Nat
        BY ONLY <2>2
      <4>3. pos[c] < file[c] /\ pos'[c] = pos[c] + 1
        BY ONLY <2>3
      <4>4. pos'[c] - 1 = pos[c] /\ pos'[c] > 0 /\ pos'[c] <= file[c] /\ file[c] # -1
        BY ONLY <4>2, <4>3, SMTT(30)
      <4> QED
        BY ONLY <4>1, <4>4
    <3>2. UpTo(c, pos[c] - 1)'
      BY <2>2, <3>1 DEF UpTo
    <3>3. Len(respq'[c]) = pos'[c] - 1 - Len(got'[c])
      BY <2>2, <3>1
    <3>4. Answering(c)
      BY <1>1
    <3> QED
      BY <2>1, <2>2, <2>3, <3>1, <3>2, <3>3, <3>4 DEF Answering, Answered
  <2>4. ASSUME pos[c] = file[c] /\ kid'[c] = "end" /\ pos'[c] = pos[c]
       PROVE  Answering(c)'
    <3>1. UpTo(c, pos[c])'
      BY <2>1, <2>2, <2>4 DEF UpTo
    <3>2. ReadAll(c)'
      BY <2>1, <2>2, <2>4 DEF ReadAll
    <3> QED
      BY <1>1, <2>1, <2>2, <2>4, <3>1, <3>2 DEF Answering, Answered
  <2>5. Answering(c)'
    BY <1>1, <2>1, <2>2, <2>3, <2>4 DEF FileType
  <2> QED
    BY <1>1, <1>2, <2>1, <2>5 DEF FileType
<1>8. ASSUME NEW c \in FileClients, ChildReadFails(c) PROVE \A d \in FileClients : Answering(d)'
  <2>1. /\ kid[c] = "read" /\ kid' = [kid EXCEPT ![c] = "end"] /\ cut' = cut \cup {c}
        /\ UNCHANGED <<pos, fcpc, got, respq>>
    BY <1>8 DEF ChildReadFails, Kid
  <2>2. Answering(c)'
    BY <1>1, <2>1 DEF Answering, UpTo, ReadAll, FileType
  <2> QED
    BY <1>1, <1>2, <2>1, <2>2 DEF FileType
<1>9. ASSUME NEW c \in FileClients, NEW m \in Int, Send(c, m), kid[c] \in Running
      PROVE  /\ respq' = [respq EXCEPT ![c] = Append(respq[c], m)]
             /\ Len(respq'[c]) = Len(respq[c]) + 1 /\ Len(respq[c]) \in Nat
             /\ \A k \in 1 .. Len(respq[c]) : respq'[c][k] = respq[c][k]
             /\ respq'[c][Len(respq[c]) + 1] = m
             /\ respq[c] = << >> => respq'[c] = <<m>>
  <2>1. respq' = [respq EXCEPT ![c] = Append(respq[c], m)]
    BY <1>1, <1>9 DEF Send, Requested
  <2>2. respq[c] \in Seq(Int) /\ respq'[c] = Append(respq[c], m)
    BY <1>1, <2>1 DEF FileType
  <2>3. respq[c] = << >> => Append(respq[c], m) = <<m>>
    OBVIOUS
  <2> QED
    BY <2>1, <2>2, <2>3, AppendProperties, LenProperties
<1>10. ASSUME NEW c \in FileClients, ChildFailure(c) PROVE \A d \in FileClients : Answering(d)'
  <2>1. /\ kid[c] = "failure" /\ kid' = [kid EXCEPT ![c] = "zombie"] /\ Send(c, FAILURE)
        /\ UNCHANGED <<pos, cut, fcpc, got>>
    BY <1>10 DEF ChildFailure, Kid
  <2>2. respq' = [respq EXCEPT ![c] = Append(respq[c], FAILURE)]
        /\ (respq[c] = << >> => respq'[c] = <<FAILURE>>)
    BY <1>9, <2>1 DEF FAILURE, Running
  <2>3. Answering(c)'
    <3>1. kid'[c] = "zombie" /\ file[c] = -1 /\ got[c] = << >> /\ respq[c] = << >>
      BY <1>1, <2>1 DEF Answering, FileType
    <3>2. Final(c)'
      BY <2>1, <2>2, <3>1 DEF Final
    <3> QED
      BY <1>1, <2>1, <3>1, <3>2 DEF Answering, Answered
  <2> QED
    BY <1>1, <1>2, <2>1, <2>2, <2>3 DEF FileType
<1>11. ASSUME NEW c \in FileClients, ChildSend(c) PROVE \A d \in FileClients : Answering(d)'
  <2>1. /\ kid[c] = "send" /\ kid' = [kid EXCEPT ![c] = "read"] /\ Send(c, pos[c])
        /\ UNCHANGED <<pos, cut, fcpc, got>>
    BY <1>1, <1>11 DEF ChildSend, Kid, Requested, Running
  <2>2. /\ respq' = [respq EXCEPT ![c] = Append(respq[c], pos[c])]
        /\ Len(respq'[c]) = Len(respq[c]) + 1
        /\ \A k \in 1 .. Len(respq[c]) : respq'[c][k] = respq[c][k]
        /\ respq'[c][Len(respq[c]) + 1] = pos[c]
    BY <1>1, <1>9, <2>1 DEF FileType, Running
  <2>3. UpTo(c, pos[c])'
    <3>1. /\ UpTo(c, pos[c] - 1) /\ Len(respq[c]) = pos[c] - 1 - Len(got[c])
          /\ Len(got[c]) \in Nat /\ pos[c] \in Nat
      BY <1>1, <2>1, LenProperties DEF Answering, FileType
    <3>2. Len(got[c]) <= pos[c]
      BY <3>1 DEF UpTo
    <3>3. ASSUME NEW k \in 1 .. pos[c] - Len(got[c]) PROVE respq'[c][k] = Len(got[c]) + k
      <4>1. CASE k = pos[c] - Len(got[c])
        BY <2>2, <3>1, <4>1
      <4>2. CASE k \in 1 .. pos[c] - 1 - Len(got[c])
        BY <2>2, <3>1, <4>2 DEF UpTo
      <4> QED
        BY <3>1, <4>1, <4>2
    <3> QED
      BY <2>1, <3>2, <3>3 DEF UpTo
  <2>4. Answering(c)'
    BY <1>1, <2>1, <2>2, <2>3, LenProperties, SMTT(30) DEF Answering, FileType
  <2> QED
    BY <1>1, <1>2, <2>1, <2>2, <2>4 DEF FileType
<1>12. ASSUME NEW c \in FileClients, ChildEnd(c) PROVE \A d \in FileClients : Answering(d)'
  <2>1. /\ kid[c] = "end" /\ kid' = [kid EXCEPT ![c] = "zombie"] /\ Send(c, END)
        /\ UNCHANGED <<pos, cut, fcpc, got>>
    BY <1>12 DEF ChildEnd, Kid
  <2>2. /\ respq' = [respq EXCEPT ![c] = Append(respq[c], END)]
        /\ Len(respq'[c]) = Len(respq[c]) + 1 /\ Len(respq[c]) \in Nat
        /\ \A k \in 1 .. Len(respq[c]) : respq'[c][k] = respq[c][k]
        /\ respq'[c][Len(respq[c]) + 1] = END
    BY <1>9, <2>1 DEF END, Running
  <2>3. Final(c)'
    <3>1. ReadAll(c)' /\ UpTo(c, pos[c])' /\ Len(respq'[c]) = pos'[c] - Len(got'[c]) + 1
      BY <1>1, <2>1, <2>2, LenProperties DEF Answering, ReadAll, UpTo, FileType
    <3>2. respq'[c][Len(respq'[c])] = END
      BY <2>2
    <3> QED
      BY <3>1, <3>2 DEF Final
  <2>4. Answering(c)'
    <3>1. kid'[c] = "zombie"
      BY <1>1, <2>1 DEF FileType
    <3> QED
      BY <1>1, <2>1, <2>3, <3>1 DEF Answering, Answered
  <2> QED
    BY <1>1, <1>2, <2>1, <2>2, <2>4 DEF FileType
<1>13. ASSUME NEW c \in FileClients, ClientReceive(c) PROVE \A d \in FileClients : Answering(d)'
  <2> DEFINE m == respq[c][1]
             n == Len(got[c])
  <2>1. /\ fcpc[c] \in {"first", "more"} /\ respq[c] # << >> /\ UNCHANGED <<kid, pos, cut>>
        /\ \A d \in FileClients \ {c} : UNCHANGED <<fcpc[d], got[d], respq[d]>>
        /\ respq'[c] = Tail(respq[c]) /\ Head(respq[c]) = m
    BY <1>1, <1>13 DEF ClientReceive, FileType
  <2>2. /\ Len(respq'[c]) = Len(respq[c]) - 1 /\ Len(respq[c]) \in Nat \ {0} /\ n \in Nat
        /\ \A k \in 1 .. Len(respq'[c]) : respq'[c][k] = respq[c][k + 1]
    BY <1>1, <2>1, HeadTailProperties, EmptySeq, LenProperties DEF FileType
  <2>a. Answering(c) /\ pos[c] \in Nat /\ kid[c] \in KidStates /\ fcpc[c] \notin Answered
    BY <1>1, <2>1 DEF FileType, Answered
  <2>3. CASE m = n + 1 /\ n < pos[c]
    <3>1. fcpc'[c] = "more" /\ got'[c] = Append(got[c], m) /\ m \in Int
      BY <1>1, <1>13, <2>1, <2>2, <2>3 DEF ClientReceive, FileType, END, FAILURE
    <3>2. /\ Len(got'[c]) = n + 1 /\ got'[c] # << >>
          /\ \A k \in 1 .. n : got'[c][k] = got[c][k]
          /\ got'[c][n + 1] = n + 1
      BY <1>1, <2>3, <3>1, AppendProperties DEF FileType
    <3>a. /\ Len(respq'[c]) = Len(respq[c]) - 1 /\ Len(got'[c]) = n + 1 /\ n \in Nat
          /\ Len(respq[c]) \in Nat /\ pos'[c] = pos[c]
      BY <2>1, <2>2, <3>2
    <3>3. \A k \in 1 .. Len(got'[c]) : got'[c][k] = k
      <4>1. \A k \in 1 .. n : got[c][k] = k
        BY <2>a DEF Answering
      <4> QED
        BY <2>2, <3>2, <4>1, SMTT(30)
    <3>4. ASSUME NEW p \in Nat, UpTo(c, p), n < p, Len(respq[c]) >= p - n
          PROVE  UpTo(c, p)'
      <4>1. ASSUME NEW k \in 1 .. p - (n + 1) PROVE respq'[c][k] = n + 1 + k
        <5> HIDE DEF m, n
        <5>1. k + 1 \in 1 .. p - n /\ k \in 1 .. Len(respq'[c])
          BY <2>2, <3>4
        <5>2. respq[c][k + 1] = n + (k + 1)
          BY <3>4, <5>1 DEF UpTo, n
        <5> QED
          <6>1. respq'[c][k] = respq[c][k + 1]
            BY <2>2, <5>1
          <6>2. n \in Nat
            BY <2>2
          <6> QED
            BY <5>2, <6>1, <6>2
      <4>2. n + 1 <= p
        BY <2>2, <3>4
      <4> QED
        BY <3>2, <4>1, <4>2 DEF UpTo
    <3>5. ASSUME kid[c] \in {"none", "open", "failure"}
         PROVE  Answering(c)'
      BY <1>1, <2>1, <3>5 DEF Answering
    <3>6. ASSUME kid[c] \in {"read", "end"}
         PROVE  Answering(c)'
      <4>1. UpTo(c, pos[c])'
        <5>1. UpTo(c, pos[c]) /\ Len(respq[c]) = pos[c] - n
          BY <2>a, <3>6 DEF Answering
        <5>2. Len(respq[c]) >= pos[c] - n
          BY <2>2, <2>a, <5>1
        <5>3. UpTo(c, pos[c]) => UpTo(c, pos[c])'
          BY <2>1, <2>3, <2>a, <3>4, <5>2
        <5> QED
          BY <5>1, <5>3
      <4>2. kid[c] = "end" => ReadAll(c)'
        BY <1>1, <2>1 DEF Answering, ReadAll
      <4>3. Len(respq'[c]) = pos'[c] - Len(got'[c])
        <5>1. Len(respq[c]) = pos[c] - n
          BY <2>a, <3>6 DEF Answering
        <5> QED
          BY <2>a, <3>a, <5>1
      <4> QED
        BY <1>1, <2>1, <2>2, <2>3, <3>1, <3>2, <3>3, <3>6, <4>1, <4>2, <4>3 DEF Answering, Answered
    <3>7. ASSUME kid[c] = "send"
         PROVE  Answering(c)'
      <4>0. pos[c] > 0 /\ UpTo(c, pos[c] - 1) /\ Len(respq[c]) = pos[c] - 1 - n
        BY <2>a, <3>7 DEF Answering
      <4>1. n < pos[c] - 1 /\ pos[c] - 1 \in Nat /\ Len(respq[c]) >= (pos[c] - 1) - n
        <5>1. Len(respq[c]) \in Nat \ {0} /\ n \in Nat
          BY <2>2
        <5> HIDE DEF n
        <5> QED
          BY ONLY <2>a, <4>0, <5>1, SMTT(30)
      <4>2. UpTo(c, pos[c] - 1)'
        <5>1. pos'[c] = pos[c]
          BY <2>1
        <5>2. UpTo(c, pos[c] - 1) => UpTo(c, pos[c] - 1)'
          BY <3>4, <4>1, <5>1
        <5> QED
          BY <4>0, <5>2
      <4>3. Len(respq'[c]) = pos'[c] - 1 - Len(got'[c])
        <5>1. Len(respq[c]) = pos[c] - 1 - n
          BY <4>0
        <5> HIDE DEF n
        <5> QED
          BY <2>a, <3>a, <5>1, SMTT(30)
      <4> QED
        BY <1>1, <2>1, <3>1, <3>2, <3>3, <3>7, <4>2, <4>3 DEF Answering, Answered
    <3>8. ASSUME kid[c] \in {"zombie", "reaped"}
         PROVE  Answering(c)'
      <4>1. /\ ReadAll(c) /\ UpTo(c, pos[c]) /\ Len(respq[c]) = pos[c] - n + 1
            /\ respq[c][Len(respq[c])] = END
        <5>1. Final(c)
          BY <2>a, <3>8 DEF Answering
        <5>2. respq[c] # <<FAILURE>>
          BY <2>2, <2>3 DEF FAILURE
        <5> QED
          BY <5>1, <5>2 DEF Final
      <4>2. UpTo(c, pos[c])'
        BY <1>1, <2>1, <2>2, <2>3, <3>4, <4>1 DEF FileType
      <4>3. Final(c)'
        <5>1. ReadAll(c)'
          BY <2>1, <4>1 DEF ReadAll
        <5>2. Len(respq'[c]) = pos'[c] - Len(got'[c]) + 1
          <6>1. Len(respq[c]) = pos[c] - n + 1
            BY ONLY <4>1
          <6> HIDE DEF n
          <6> QED
            BY ONLY <2>a, <3>a, <6>1, SMTT(30)
        <5>3. respq'[c][Len(respq'[c])] = END
          <6>1. Len(respq'[c]) \in Nat \ {0} /\ Len(respq'[c]) + 1 = Len(respq[c])
            <7>1. n < pos[c] /\ Len(respq[c]) = pos[c] - n + 1 /\ pos[c] \in Nat
              BY ONLY <2>3, <2>a, <4>1
            <7> HIDE DEF n
            <7> QED
              BY ONLY <3>a, <7>1, SMTT(30)
          <6>2. respq'[c][Len(respq'[c])] = respq[c][Len(respq'[c]) + 1]
            <7>1. \A k \in 1 .. Len(respq'[c]) : respq'[c][k] = respq[c][k + 1]
              BY ONLY <2>2
            <7>2. Len(respq'[c]) \in 1 .. Len(respq'[c])
              BY ONLY <6>1, SMTT(30)
            <7> QED
              BY ONLY <7>1, <7>2
          <6> QED
            BY ONLY <4>1, <6>1, <6>2
        <5> QED
          BY <4>2, <5>1, <5>2, <5>3 DEF Final
      <4> QED
        BY <1>1, <2>1, <3>1, <3>2, <3>3, <3>8, <4>3 DEF Answering, Answered
    <3>9. Answering(c)'
      BY <1>1, <3>5, <3>6, <3>7, <3>8 DEF FileType, KidStates, Running
    <3> QED
      BY <1>2, <2>1, <3>9
  <2>4. CASE /\ kid[c] \in {"zombie", "reaped"} /\ m = FAILURE /\ file[c] = -1
             /\ fcpc[c] = "first"
    <3>1. fcpc'[c] = "failed" /\ got'[c] = got[c]
      BY <1>1, <1>13, <2>1, <2>4 DEF ClientReceive, FileType, Answered, END, FAILURE
    <3>2. Answering(c)'
      BY <1>1, <2>1, <2>4, <3>1 DEF Answering, Answered
    <3> QED
      BY <1>2, <2>1, <3>2
  <2>5. CASE kid[c] \in {"zombie", "reaped"} /\ m = END /\ ReadAll(c) /\ n = pos[c]
    <3>1. fcpc'[c] = "ok" /\ got'[c] = got[c]
      BY <1>1, <1>13, <2>1, <2>5 DEF ClientReceive, FileType, Answered, END, FAILURE
    <3>2. Answering(c)'
      BY <1>1, <2>1, <2>5, <3>1 DEF Answering, Answered, ReadAll
    <3> QED
      BY <1>2, <2>1, <3>2
  <2> QED
    BY <1>1, <2>1, <2>3, <2>4, <2>5, WhatIsReceived
<1>14. ASSUME NEW c \in FileClients, ClientCreate(c) \/ ClientRequest(c) \/ FileClientKilled(c)
       PROVE  \A d \in FileClients : Answering(d)'
  <2>1. /\ fcpc'[c] \notin Answered \cup {"more"}
        /\ fcpc[c] \notin Answered
        /\ \A d \in FileClients \ {c} : fcpc'[d] = fcpc[d]
        /\ UNCHANGED <<kid, pos, cut, got, respq>>
    BY <1>1, <1>14 DEF ClientCreate, ClientRequest, FileClientKilled, FileClientAt, Answered, FileType
  <2>2. Answering(c)'
    BY <1>1, <2>1 DEF Answering, UpTo, ReadAll, Final, Answered
  <2> QED
    BY <1>2, <2>1, <2>2
<1>15. CASE \/ ServerReceive \/ ServerReceiveFails \/ ServerRemove \/ HandlerEnter
            \/ HandlerReturn \/ ServerForkFails \/ FileServerKilled \/ QueueRemoved
            \/ UNCHANGED fileVars
  BY <1>3, <1>15 DEF ServerReceive, ServerReceiveFails, ServerRemove, HandlerEnter, HandlerReturn,
       ServerForkFails, FileServerKilled, QueueRemoved, fileVars
<1>16. ServerFork => cur \in FileClients
  BY <1>1 DEF ServerFork, Main, CurRight
<1> QED
  BY <1>4, <1>5, <1>6, <1>7, <1>8, <1>10, <1>11, <1>12, <1>13, <1>14, <1>15, <1>16
     DEF FileNext, FileServerStep, Failure, Child, FileClientStep
-----------------------------------------------------------------------------
\* FileInv holds at the start.
LEMMA InvInit == FileInit => FileInv
<1> SUFFICES ASSUME FileInit PROVE FileInv
  OBVIOUS
<1>1. FileType
  BY EmptySeq DEF FileInit, FileType, KidStates, ClientStates
<1>2. CurRight /\ Once
  BY DEF FileInit, CurRight, Once
<1>3. ASSUME NEW c \in FileClients PROVE Requested(c) /\ Answering(c)
  <2>1. ~Queued(c)
    BY DEF FileInit, Queued
  <2>2. Requested(c)
    BY EnvAssumption, <2>1 DEF FileInit, Requested, Running
  <2>3. Answering(c)
    BY DEF FileInit, Answering, Answered
  <2> QED
    BY <2>2, <2>3
<1> QED
  BY <1>1, <1>2, <1>3 DEF FileInv

\* FileInv is an invariant of the server, its children and its clients.
LEMMA Inductive == FileSpec => []FileInv
<1>1. FileInv /\ [FileNext]_fileVars => FileInv'
  BY TypeStep, RequestStep, AnswerStep DEF FileInv
<1> QED
  BY <1>1, InvInit, PTL DEF FileSpec

\* What a client reports is true (serveRequest() and the client's loop), however
\* the children, the clients, the signals and the failures interleave.
THEOREM Honest == FileSpec => []HonestAnswer
<1>1. FileInv => HonestAnswer
  <2> SUFFICES ASSUME FileInv, NEW c \in FileClients
               PROVE  /\ fcpc[c] = "failed" => file[c] = -1
                      /\ fcpc[c] = "ok" => /\ file[c] # -1
                                           /\ got[c] = [k \in 1 .. pos[c] |-> k]
                                           /\ c \notin cut => pos[c] = file[c]
    BY DEF HonestAnswer
  <2>1. Answering(c) /\ got[c] \in Seq(Int)
    BY DEF FileInv, FileType
  <2>2. Len(got[c]) = pos[c] => got[c] = [k \in 1 .. pos[c] |-> k]
    BY <2>1, LenProperties DEF Answering
  <2> QED
    BY <2>1, <2>2 DEF Answering, ReadAll
<1> QED
  BY <1>1, Inductive, PTL

\* A waiting client has a request on its way, a child at work or the final message
\* in its queue, unless the server has ended before it forked a child for it.
THEOREM Answers == FileSpec => []SomeoneAnswers
<1>1. FileInv => SomeoneAnswers
  <2> SUFFICES ASSUME FileInv, NEW c \in FileClients, fcpc[c] \in {"first", "more"}
               PROVE  \/ Queued(c) \/ cur = c \/ kid[c] \in Running
                      \/ respq[c] # << >> /\ respq[c][Len(respq[c])] \in {END, FAILURE}
                      \/ kid[c] = "none" /\ Stopped
    BY DEF SomeoneAnswers, Queued, Stopped
  <2>1. Requested(c) /\ Answering(c) /\ kid[c] \in KidStates
    BY DEF FileInv, FileType
  <2>2. CASE kid[c] = "none"
    BY <2>1, <2>2 DEF Requested
  <2>3. CASE kid[c] \in {"zombie", "reaped"}
    <3>1. Final(c) /\ Len(got[c]) \in Nat /\ pos[c] \in Nat
      BY <2>1, <2>3, LenProperties DEF FileInv, FileType, Answering, Answered
    <3>2. CASE respq[c] = <<FAILURE>>
      <4>1. /\ respq[c] # << >> /\ Len(respq[c]) = 1 /\ respq[c][1] = FAILURE
        BY ONLY <3>2, OneMessage
      <4>2. respq[c][Len(respq[c])] \in {END, FAILURE}
        BY ONLY <4>1
      <4> QED
        BY ONLY <4>1, <4>2
    <3>3. CASE /\ UpTo(c, pos[c]) /\ Len(respq[c]) = pos[c] - Len(got[c]) + 1
               /\ respq[c][Len(respq[c])] = END
      <4>1. Len(respq[c]) > 0
        BY <3>1, <3>3 DEF UpTo
      <4> QED
        BY <3>3, <4>1
    <3> QED
      BY <3>1, <3>2, <3>3 DEF Final
  <2> QED
    BY <2>1, <2>2, <2>3 DEF KidStates
<1> QED
  BY <1>1, Inductive, PTL

\* A child that has ended is announced to the server by a pending SIGCHLD or is
\* about to be collected by grimReaper(), while the server runs.
THEOREM ZombiesNoticed == FileSpec => []ZombieNoticed
<1>1. FileInit => ZombieNoticed
  BY DEF FileInit, ZombieNoticed
<1>2. FileInv /\ ZombieNoticed /\ [FileNext]_fileVars => ZombieNoticed'
  <2> SUFFICES ASSUME FileInv, ZombieNoticed, [FileNext]_fileVars PROVE ZombieNoticed'
    OBVIOUS
  <2>1. kid \in [FileClients -> KidStates]
    BY DEF FileInv, FileType
  <2> USE <2>1 DEF ZombieNoticed, fileServer, child, fileClient, queues
  <2>2. CASE ServerFork
    <3>1. cur \in FileClients
      BY <2>2 DEF FileInv, CurRight, ServerFork, Main
    <3> QED
      BY <2>2, <3>1 DEF ServerFork, Main
  <2>3. CASE \/ ServerReceive \/ ServerReceiveFails \/ ServerRemove \/ HandlerEnter
             \/ HandlerReturn \/ ServerForkFails \/ FileServerKilled \/ QueueRemoved
             \/ UNCHANGED fileVars
    BY <2>3 DEF ServerReceive, ServerReceiveFails, ServerRemove, HandlerEnter, HandlerReturn,
                ServerForkFails, FileServerKilled, QueueRemoved, Main, fileVars
  <2>4. ASSUME NEW c \in FileClients, HandlerReap(c) PROVE ZombieNoticed'
    BY <2>4 DEF HandlerReap
  <2>5. ASSUME NEW c \in FileClients, Child(c) \/ ChildReadFails(c) PROVE ZombieNoticed'
    BY <2>5 DEF Child, ChildOpen, ChildFailure, ChildRead, ChildSend, ChildEnd,
                ChildReadFails, Kid
  <2>6. ASSUME NEW c \in FileClients,
               ClientCreate(c) \/ FileClientStep(c) \/ FileClientKilled(c)
        PROVE  ZombieNoticed'
    BY <2>6 DEF ClientCreate, FileClientStep, ClientRequest, ClientReceive, FileClientKilled
  <2> QED
    BY <2>2, <2>3, <2>4, <2>5, <2>6 DEF FileNext, FileServerStep, Failure
<1> QED
  BY <1>1, <1>2, Inductive, PTL DEF FileSpec
=============================================================================
