------------------------------ MODULE FileServer ------------------------------
(***************************************************************************)
(* svmsg_file_server.c and svmsg_file_client.c: a concurrent file server   *)
(* on System V message queues.  Requests come in on one queue; for each    *)
(* the server forks a child, which sends the file in blocks to the         *)
(* client's private queue.  SIGCHLD interrupts the server at any point and *)
(* its handler collects the children that have ended.                      *)
(*                                                                         *)
(* A client is identified with its request, its private queue and the      *)
(* child that serves it.                                                   *)
(***************************************************************************)
EXTENDS Integers, Sequences

CONSTANTS
    FileClients,
    file,        \* blocks in the file each client asks for; -1: open() fails
    QueueMax,    \* messages a queue holds (msg_qbytes)
    FileMortal,  \* clients that may be killed
    MayFail      \* may fork() and read() fail, the server be killed, its queue go?

ASSUME FileAssumption == file \in [FileClients -> {-1} \cup Nat]
ASSUME EnvAssumption == /\ QueueMax \in Nat \ {0} /\ MayFail \in BOOLEAN
                        /\ FileMortal \subseteq FileClients
                        /\ {"server", "none"} \cap FileClients = {}

VARIABLES
    srvq,        \* requests in the server's queue
    exists,      \* the queues that exist: "server" and clients
    fspc, cur,   \* the server: where it is, and 'req'
    handler,     \* is grimReaper() running?
    sigchld,     \* is SIGCHLD pending?
    kid, pos,    \* each child: where it is, and its offset in the file
    cut,         \* history: the children whose read() has failed
    fcpc, got,   \* each client: where it is, and the blocks received
    respq        \* responses in each client's queue

fileServer == <<fspc, cur, handler, sigchld>>
child      == <<kid, pos, cut>>
fileClient == <<fcpc, got>>
queues     == <<srvq, exists, respq>>
fileVars == <<fileServer, child, fileClient, queues>>

\* Response messages: block k of the data is the number k.
END == 0
FAILURE == -1

Running == {"open", "failure", "read", "send", "end"}
Answered == {"ok", "failed"}

FileInit == /\ srvq = << >> /\ exists = {"server"}
            /\ fspc = "rcv" /\ cur = "none" /\ handler = FALSE /\ sigchld = FALSE
            /\ kid = [c \in FileClients |-> "none"] /\ pos = [c \in FileClients |-> 0] /\ cut = {}
            /\ fcpc = [c \in FileClients |-> "start"] /\ got = [c \in FileClients |-> << >>]
            /\ respq = [c \in FileClients |-> << >>]

-----------------------------------------------------------------------------
(* The server.                                                             *)

Main(from, to) == fspc = from /\ ~handler /\ fspc' = to

\* MUTANT: the server waits for its child before it takes the next request.
ServerReceive_Waits == /\ Main("rcv", "fork")
                       /\ srvq # << >> /\ \A c \in FileClients : kid[c] \notin Running
                       /\ cur' = Head(srvq)
                       /\ srvq' = Tail(srvq)
                       /\ UNCHANGED <<handler, sigchld, child, fileClient, exists, respq>>

ServerReceive == /\ Main("rcv", "fork")
                 /\ srvq # << >>
                 /\ cur' = Head(srvq)
                 /\ srvq' = Tail(srvq)
                 /\ UNCHANGED <<handler, sigchld, child, fileClient, exists, respq>>

ServerFork == /\ Main("fork", "rcv")
              /\ kid' = [kid EXCEPT ![cur] = "open"]
              /\ cur' = "none"
              /\ UNCHANGED <<handler, sigchld, pos, cut, fileClient, queues>>

\* fork() fails: the loop ends, and with it the request just received.
ServerForkFails == /\ MayFail
                   /\ Main("fork", "rmid")
                   /\ UNCHANGED <<cur, handler, sigchld, child, fileClient, queues>>

\* msgrcv() fails with anything but EINTR: the queue has been removed.
ServerReceiveFails == /\ Main("rcv", "rmid")
                      /\ "server" \notin exists
                      /\ UNCHANGED <<cur, handler, sigchld, child, fileClient, queues>>

ServerRemove == /\ Main("rmid", "exit")
                /\ exists' = exists \ {"server"}
                /\ srvq' = << >>
                /\ UNCHANGED <<cur, handler, sigchld, child, fileClient, respq>>

\* Somebody else removes the server's queue (ipcrm, svmsg_rm).
QueueRemoved == /\ MayFail
                /\ "server" \in exists
                /\ exists' = exists \ {"server"}
                /\ srvq' = << >>
                /\ UNCHANGED <<fileServer, child, fileClient, respq>>

FileServerKilled == /\ MayFail
                    /\ fspc # "exit"
                    /\ fspc' = "exit"
                    /\ UNCHANGED <<cur, handler, sigchld, child, fileClient, queues>>

\* MUTANT: SIGCHLD is let through only while a request is being handled.
HandlerEnter_Blocked == /\ fspc = "fork" /\ sigchld /\ ~handler
                        /\ handler' = TRUE /\ sigchld' = FALSE
                        /\ UNCHANGED <<fspc, cur, child, fileClient, queues>>

\* SIGCHLD is blocked while its handler runs; one that arrives meanwhile
\* stays pending, once.
HandlerEnter == /\ fspc # "exit" /\ sigchld /\ ~handler
                /\ handler' = TRUE /\ sigchld' = FALSE
                /\ UNCHANGED <<fspc, cur, child, fileClient, queues>>

\* MUTANT: one waitpid() for each signal.
HandlerReap_Once(c) == /\ fspc # "exit" /\ handler /\ kid[c] = "zombie"
                       /\ kid' = [kid EXCEPT ![c] = "reaped"]
                       /\ handler' = FALSE
                       /\ UNCHANGED <<fspc, cur, sigchld, pos, cut, fileClient, queues>>

HandlerReap(c) == /\ fspc # "exit" /\ handler /\ kid[c] = "zombie"
                  /\ kid' = [kid EXCEPT ![c] = "reaped"]
                  /\ UNCHANGED <<fileServer, pos, cut, fileClient, queues>>

HandlerReturn == /\ fspc # "exit" /\ handler
                 /\ \A c \in FileClients : kid[c] # "zombie"
                 /\ handler' = FALSE
                 /\ UNCHANGED <<fspc, cur, sigchld, child, fileClient, queues>>

-----------------------------------------------------------------------------
(* serveRequest(), in the child.                                           *)

Kid(c, from, to) == kid[c] = from /\ kid' = [kid EXCEPT ![c] = to]

\* msgsnd() to the client's queue: it waits for room, and fails when the queue
\* has been removed.
Send(c, msg) == \/ c \in exists /\ Len(respq[c]) < QueueMax
                                /\ respq' = [respq EXCEPT ![c] = Append(@, msg)]
                \/ c \notin exists /\ UNCHANGED respq

ChildOpen(c) == /\ Kid(c, "open", IF file[c] = -1 THEN "failure" ELSE "read")
                /\ UNCHANGED <<fileServer, pos, cut, fileClient, queues>>

ChildFailure(c) == /\ Kid(c, "failure", "zombie")
                   /\ Send(c, FAILURE)
                   /\ sigchld' = TRUE
                   /\ UNCHANGED <<fspc, cur, handler, pos, cut, fileClient, srvq, exists>>

ChildRead(c) == /\ Kid(c, "read", IF pos[c] < file[c] THEN "send" ELSE "end")
                /\ pos' = [pos EXCEPT ![c] = IF @ < file[c] THEN @ + 1 ELSE @]
                /\ UNCHANGED <<fileServer, cut, fileClient, queues>>

\* A failing read() ends the loop like the end of the file.
ChildReadFails(c) == /\ MayFail
                     /\ Kid(c, "read", "end")
                     /\ cut' = cut \cup {c}
                     /\ UNCHANGED <<fileServer, pos, fileClient, queues>>

\* MUTANT: the loop ends before the last block is sent.
ChildSend_Short(c) == /\ Kid(c, "send", IF pos[c] = file[c] THEN "end" ELSE "read")
                      /\ IF pos[c] = file[c] THEN UNCHANGED respq ELSE Send(c, pos[c])
                      /\ UNCHANGED <<fileServer, pos, cut, fileClient, srvq, exists>>

ChildSend(c) == /\ Kid(c, "send", IF c \in exists THEN "read" ELSE "end")
                /\ Send(c, pos[c])
                /\ UNCHANGED <<fileServer, pos, cut, fileClient, srvq, exists>>

\* MUTANT: no message marks the end of the file.
ChildEnd_Silent(c) == /\ Kid(c, "end", "zombie")
                      /\ sigchld' = TRUE
                      /\ UNCHANGED <<fspc, cur, handler, pos, cut, fileClient, queues>>

ChildEnd(c) == /\ Kid(c, "end", "zombie")
               /\ Send(c, END)
               /\ sigchld' = TRUE
               /\ UNCHANGED <<fspc, cur, handler, pos, cut, fileClient, srvq, exists>>

-----------------------------------------------------------------------------
(* The client.  Every way out but a kill removes its queue (atexit).       *)

FileClientAt(c, from, to) == fcpc[c] = from /\ fcpc' = [fcpc EXCEPT ![c] = to]

ClientCreate(c) == /\ FileClientAt(c, "start", IF "server" \in exists THEN "request" ELSE "error")
                   /\ exists' = IF "server" \in exists THEN exists \cup {c} ELSE exists
                   /\ UNCHANGED <<fileServer, child, got, srvq, respq>>

\* msgsnd() of the request, which waits for room or fails with the queue.
ClientRequest(c) == \/ /\ FileClientAt(c, "request", "first")
                       /\ "server" \in exists /\ Len(srvq) < QueueMax
                       /\ srvq' = Append(srvq, c)
                       /\ UNCHANGED <<fileServer, child, got, exists, respq>>
                    \/ /\ FileClientAt(c, "request", "error")
                       /\ "server" \notin exists
                       /\ exists' = exists \ {c}
                       /\ UNCHANGED <<fileServer, child, got, srvq, respq>>

\* The first response, and each further one: a block of data, the end of the
\* file, or the failure notice, which the code looks for in the first only.
ClientReceive(c) ==
    LET m    == Head(respq[c])
        next == IF m = FAILURE /\ fcpc[c] = "first" THEN "failed"
                ELSE IF m \in {FAILURE, END} THEN "ok" ELSE "more"
    IN  /\ fcpc[c] \in {"first", "more"} /\ respq[c] # << >>
        /\ fcpc' = [fcpc EXCEPT ![c] = next]
        /\ got' = [got EXCEPT ![c] = IF next = "more" THEN Append(@, m) ELSE @]
        /\ respq' = [respq EXCEPT ![c] = Tail(@)]
        /\ exists' = IF next \in Answered THEN exists \ {c} ELSE exists
        /\ UNCHANGED <<fileServer, child, srvq>>

\* A killed client leaves its queue behind.
FileClientKilled(c) == /\ c \in FileMortal
                       /\ fcpc[c] \notin Answered \cup {"error", "killed"}
                       /\ fcpc' = [fcpc EXCEPT ![c] = "killed"]
                       /\ UNCHANGED <<fileServer, child, got, queues>>

-----------------------------------------------------------------------------
FileServerStep == \/ ServerReceive \/ ServerReceiveFails \/ ServerFork \/ ServerRemove
                  \/ HandlerEnter \/ (\E c \in FileClients : HandlerReap(c)) \/ HandlerReturn
Child(c) == \/ ChildOpen(c) \/ ChildFailure(c) \/ ChildRead(c) \/ ChildSend(c) \/ ChildEnd(c)
FileClientStep(c) == ClientRequest(c) \/ ClientReceive(c)
Failure == \/ ServerForkFails \/ FileServerKilled \/ QueueRemoved
           \/ \E c \in FileClients : ChildReadFails(c) \/ FileClientKilled(c)

FileNext == FileServerStep \/ Failure \/ \E c \in FileClients : Child(c) \/ ClientCreate(c) \/ FileClientStep(c)

FileSpec == FileInit /\ [][FileNext]_fileVars
-----------------------------------------------------------------------------
(* Properties.                                                             *)

\* What a client reports is true: "Couldn't open" only for a file that cannot
\* be opened, success only with every block its child has read, in order, and,
\* when no read() fails, the whole file (serveRequest() and the client's loop).
HonestAnswer ==
    \A c \in FileClients :
        /\ fcpc[c] = "failed" => file[c] = -1
        /\ fcpc[c] = "ok" => /\ file[c] # -1
                             /\ got[c] = [k \in 1 .. pos[c] |-> k]
                             /\ c \notin cut => pos[c] = file[c]

\* A client that waits for a response will get one: its request is on its way
\* to a child, its child is at work, or the final message is in its queue.
\* Only the end of the server's loop strands it (the break on line 111), and
\* then only if no child has been forked for it.
SomeoneAnswers ==
    \A c \in FileClients : fcpc[c] \in {"first", "more"} =>
        \/ \E i \in 1 .. Len(srvq) : srvq[i] = c
        \/ cur = c
        \/ kid[c] \in Running
        \/ respq[c] # << >> /\ respq[c][Len(respq[c])] \in {END, FAILURE}
        \/ kid[c] = "none" /\ (fspc \in {"rmid", "exit"} \/ "server" \notin exists)

\* A child that has ended is being collected or is announced by a pending
\* SIGCHLD, although any number of children share one pending signal
\* (the loop in grimReaper()).
ZombieNoticed ==
    fspc # "exit" /\ (\E c \in FileClients : kid[c] = "zombie") => sigchld \/ handler

\* Every client that asks is answered while the server and its queue are there,
\* and every child that ends is reaped while the server runs: clients that were
\* killed, with children stuck on their full queues, do not hold up the others.
AllFilesServed == \/ fspc = "exit"
                  \/ /\ \A c \in FileClients : kid[c] # "zombie"
                     /\ \/ "server" \notin exists
                        \/ \A c \in FileClients \ FileMortal : fcpc[c] \in Answered \cup {"start"}
=============================================================================
