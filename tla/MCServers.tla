------------------------------ MODULE MCServers ------------------------------
(***************************************************************************)
(* The servers for TLC.  Each behaviour is a run of one of them and its    *)
(* clients, fifo_seqnum (SeqFifo), is_seqnum (SeqSocket) or svmsg_file     *)
(* (FileServer); the variables of the others keep their initial values.    *)
(*                                                                         *)
(* MaxInt and INT_MAX are so small that the counters overflow.  One client *)
(* of is_seqnum asks for no numbers at all.  The files of svmsg_file are   *)
(* one that is longer than a queue, an empty one, and one that cannot be   *)
(* opened.                                                                 *)
(***************************************************************************)
EXTENDS SeqFifo, SeqSocket, FileServer, TLC

CONSTANTS c1, c2, c3, Systems

VARIABLE system

Lengths  == [c \in Clients |-> CASE c = c1 -> 1 [] c = c2 -> 3 [] OTHER -> 2]
ReqLens  == [c \in SocketClients |-> CASE c = c1 -> 1 [] c = c2 -> 3 [] OTHER -> 0]
Numbers  == {-2, 0, 3}
Files    == [c \in FileClients |-> CASE c = c1 -> 2 [] c = c2 -> -1 [] OTHER -> 0]

AnyInit == /\ system \in Systems
           /\ Init /\ SocketInit /\ FileInit
           /\ system # "is_seqnum" => svSeqNum = 0

allVars == <<system, vars, socketVars, fileVars>>

Run(fifo, socket, msg) == \/ system = "fifo_seqnum" /\ fifo /\ UNCHANGED <<system, socketVars, fileVars>>
                          \/ system = "is_seqnum" /\ socket /\ UNCHANGED <<system, vars, fileVars>>
                          \/ system = "svmsg_file" /\ msg /\ UNCHANGED <<system, vars, socketVars>>

AnyNext == Run(Next, SocketNext, FileNext)

\* The scheduler runs the server, each client once it has started, and each child
\* of the server.
Fairness == /\ WF_vars(system = "fifo_seqnum" /\ Server)
            /\ WF_socketVars(system = "is_seqnum" /\ Sv)
            /\ WF_fileVars(system = "svmsg_file" /\ FileServerStep)
            /\ \A c \in Clients : WF_vars(system = "fifo_seqnum" /\ Client(c))
            /\ \A c \in SocketClients : WF_socketVars(system = "is_seqnum" /\ ClStep(c))
            /\ \A c \in FileClients : /\ WF_fileVars(system = "svmsg_file" /\ FileClientStep(c))
                                      /\ WF_fileVars(system = "svmsg_file" /\ Child(c))

AnySpec == AnyInit /\ [][AnyNext]_allVars /\ Fairness

\* Time and again nobody is left waiting: every proper request to one of the
\* servers is answered, whatever other clients do, unless the server goes away,
\* and every child of svmsg_file_server.c that ends is reaped.  The exception is
\* fifo_seqnum_server.c:74, where a client that is killed between its request and
\* its open() makes the server wait, and with it everybody else, for ever
\* (WaitsForTheDead).
EverybodyServed == []<>(CASE system = "fifo_seqnum" -> AllServed
                          [] system = "is_seqnum" -> AllAnswered
                          [] system = "svmsg_file" -> AllFilesServed)
==============================================================================
