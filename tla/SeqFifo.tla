------------------------------- MODULE SeqFifo -------------------------------
(***************************************************************************)
(* fifo_seqnum_server.c and fifo_seqnum_client.c: a server that hands out  *)
(* sequence numbers.  Clients send their PID and the length they want over *)
(* a well-known FIFO; the server answers on a FIFO named after the PID.    *)
(*                                                                         *)
(* A FIFO is opened in pairs: an open() for writing waits for a reader and *)
(* the other way round.  What has been written to one is lost when nobody  *)
(* has it open any more.                                                   *)
(***************************************************************************)
EXTENDS Integers, Sequences

CONSTANTS
    Clients, seqLen,   \* client processes and the lengths they ask for
    MaxInt,            \* INT_MAX
    PipeMax,           \* requests the server's FIFO holds (pipe capacity)
    Mortal,            \* clients that may be killed
    MaxEpoch           \* bound: how often the server is started

ASSUME FifoAssumption == /\ MaxInt \in Nat \ {0} /\ PipeMax \in Nat \ {0}
                         /\ seqLen \in [Clients -> 1 .. MaxInt]
                         /\ Mortal \subseteq Clients /\ MaxEpoch \in Nat \ {0}

VARIABLES
    spc, epoch,        \* the server: where it is, and which one it is
    seqNum, req,       \* its counter, and the request being served
    peer,              \* the client that has req's FIFO open with the server
    requests,          \* the contents of SERVER_FIFO
    fifos,             \* the PIDs whose client FIFO exists
    cpc, resp,         \* each client: where it is, and what it has been sent
    pid                \* the PID of each client: its own name stands for a new
                       \* PID, another's for one that is used again

server == <<spc, epoch, seqNum, req, peer>>
client == <<cpc, resp, pid>>
vars == <<server, requests, fifos, client>>

None == "none"
NoReq == [pid |-> None, seqLen |-> 0]
NoGrant == [start |-> 0, epoch |-> 0]
\* What an int holds after a positive int is added to one.
Wrap(x) == IF x > MaxInt THEN x - 2 * (MaxInt + 1) ELSE x

\* Clients with SERVER_FIFO open; they close it only by ending.
Holders == {c \in Clients : cpc[c] \in {"write", "open", "read"}}
Ended == {"none", "done", "refused", "failed", "killed"}
Reading == spc \notin {"never", "down", "openr"}

Init == /\ spc = "never" /\ epoch = 1 /\ seqNum = 0 /\ req = NoReq /\ peer = None
        /\ requests = << >> /\ fifos = {}
        /\ cpc = [c \in Clients |-> "none"]
        /\ resp = [c \in Clients |-> NoGrant]
        /\ pid = [c \in Clients |-> c]

-----------------------------------------------------------------------------
(* The server.                                                             *)

ServerStart == /\ spc \in {"never", "down"}
               /\ spc' = "openr"
               /\ UNCHANGED <<epoch, seqNum, req, peer, requests, fifos, client>>

\* open(O_RDONLY), which waits for a writer.
ServerOpenRead == /\ spc = "openr"
                  /\ Holders # {} \/ \E c \in Clients : cpc[c] = "opens"
                  /\ spc' = "openw"
                  /\ UNCHANGED <<epoch, seqNum, req, peer, requests, fifos, client>>

\* open(O_WRONLY): from now on read() waits for requests, never sees EOF.
ServerOpenWrite == /\ spc = "openw"
                   /\ spc' = "loop"
                   /\ UNCHANGED <<epoch, seqNum, req, peer, requests, fifos, client>>

ServerRead == /\ spc = "loop" /\ requests # << >>
              /\ req' = Head(requests)
              /\ requests' = Tail(requests)
              /\ spc' = "open"
              /\ UNCHANGED <<epoch, seqNum, peer, fifos, client>>

\* open() of the client's FIFO, which waits until a client has it open, or is
\* waiting to open it, for reading.
ServerOpenClient == /\ spc = "open"
                    /\ \E c \in Clients :
                          /\ cpc[c] \in {"open", "read"} /\ pid[c] = req.pid
                          /\ peer' = c
                          /\ cpc' = [cpc EXCEPT ![c] = "read"]
                    /\ spc' = "write"
                    /\ UNCHANGED <<epoch, seqNum, req, requests, fifos, resp, pid>>

\* The FIFO does not exist: give up on the client.
ServerGiveUp == /\ spc = "open" /\ req.pid \notin fifos
                /\ spc' = "loop" /\ req' = NoReq
                /\ UNCHANGED <<epoch, seqNum, peer, requests, fifos, client>>

\* write() and close(); the write fails when the client has gone.  A client
\* reads the first response only.
ServerWrite == /\ spc = "write"
               /\ resp' = IF cpc[peer] = "read" /\ resp[peer] = NoGrant
                          THEN [resp EXCEPT ![peer] = [start |-> seqNum, epoch |-> epoch]]
                          ELSE resp
               /\ spc' = "update" /\ peer' = None
               /\ UNCHANGED <<epoch, seqNum, req, requests, fifos, cpc, pid>>

\* MUTANT: the counter moves on by one, whatever was asked for.
ServerUpdate_One == /\ spc = "update"
                    /\ seqNum' = Wrap(seqNum + 1)
                    /\ spc' = "loop" /\ req' = NoReq
                    /\ UNCHANGED <<epoch, peer, requests, fifos, client>>

ServerUpdate == /\ spc = "update"
                /\ seqNum' = Wrap(seqNum + req.seqLen)
                /\ spc' = "loop" /\ req' = NoReq
                /\ UNCHANGED <<epoch, peer, requests, fifos, client>>

\* The server is killed, and its counter lost.  Requests survive it while some client has
\* SERVER_FIFO open; a client it was about to answer reads an EOF.
ServerKilled == /\ spc \notin {"never", "down"} /\ epoch < MaxEpoch
                /\ spc' = "down" /\ epoch' = epoch + 1
                /\ seqNum' = 0 /\ req' = NoReq /\ peer' = None
                /\ requests' = IF Holders = {} THEN << >> ELSE requests
                /\ UNCHANGED <<fifos, client>>

-----------------------------------------------------------------------------
(* The client.                                                             *)

\* What becomes of the pending requests when c closes SERVER_FIFO.
Close(c) == requests' = IF ~Reading /\ Holders = {c} THEN << >> ELSE requests

\* The kernel gives the new process a PID that no running process has.
NewPid(c) == \/ UNCHANGED pid
             \/ \E d \in Clients :
                   /\ cpc[d] \in Ended \ {"none"}
                   /\ \A e \in Clients : pid[e] = pid[d] => cpc[e] \in Ended
                   /\ pid' = [pid EXCEPT ![c] = pid[d]]

\* mkfifo(), which accepts a FIFO left behind by an earlier process.
ClientStart(c) == /\ cpc[c] = "none"
                  /\ NewPid(c)
                  /\ cpc' = [cpc EXCEPT ![c] = "opens"]
                  /\ fifos' = fifos \cup {pid'[c]}
                  /\ UNCHANGED <<server, requests, resp>>

\* open() of SERVER_FIFO waits for the server; it fails if there never was one.
ClientOpenServer(c) == /\ cpc[c] = "opens"
                       /\ \/ Reading /\ cpc' = [cpc EXCEPT ![c] = "write"] /\ UNCHANGED fifos
                          \/ spc = "never" /\ cpc' = [cpc EXCEPT ![c] = "refused"]
                                           /\ fifos' = fifos \ {pid[c]}
                       /\ UNCHANGED <<server, requests, resp, pid>>

\* MUTANT: the client opens its own FIFO, and waits for the server to do the
\* same, before it sends the request.
ClientWrite_Swapped(c) == /\ cpc[c] = "write" /\ spc = "write" /\ req.pid = pid[c]
                          /\ requests' = Append(requests, [pid |-> pid[c], seqLen |-> seqLen[c]])
                          /\ cpc' = [cpc EXCEPT ![c] = "read"]
                          /\ UNCHANGED <<server, fifos, resp, pid>>

\* write() of the request; without a reader SIGPIPE kills the client.
ClientWrite(c) == /\ cpc[c] = "write"
                  /\ \/ /\ Reading /\ Len(requests) < PipeMax
                        /\ requests' = Append(requests, [pid |-> pid[c], seqLen |-> seqLen[c]])
                        /\ cpc' = [cpc EXCEPT ![c] = "open"]
                     \/ /\ ~Reading /\ Close(c)
                        /\ cpc' = [cpc EXCEPT ![c] = "killed"]
                  /\ UNCHANGED <<server, fifos, resp, pid>>

\* open() of the client's FIFO, where the server has it open already for an
\* earlier process with this PID.
ClientOpen(c) == /\ cpc[c] = "open" /\ spc = "write" /\ req.pid = pid[c]
                 /\ cpc' = [cpc EXCEPT ![c] = "read"]
                 /\ peer' = c
                 /\ UNCHANGED <<spc, epoch, seqNum, req, requests, fifos, resp, pid>>

\* read() of the response, or of an EOF when the server has died; then exit(),
\* which removes the FIFO.
ClientRead(c) == /\ cpc[c] = "read" /\ (resp[c] # NoGrant \/ peer # c)
                 /\ cpc' = [cpc EXCEPT ![c] = IF resp[c] # NoGrant THEN "done" ELSE "failed"]
                 /\ fifos' = fifos \ {pid[c]}
                 /\ Close(c)
                 /\ UNCHANGED <<server, resp, pid>>

\* A killed client leaves its FIFO and its request behind.
ClientKilled(c) == /\ c \in Mortal /\ cpc[c] \in {"opens", "write", "open", "read"}
                   /\ cpc' = [cpc EXCEPT ![c] = "killed"]
                   /\ Close(c)
                   /\ UNCHANGED <<server, fifos, resp, pid>>

-----------------------------------------------------------------------------
Server == \/ ServerStart \/ ServerOpenRead \/ ServerOpenWrite \/ ServerRead
          \/ ServerOpenClient \/ ServerGiveUp \/ ServerWrite \/ ServerUpdate
Client(c) == ClientOpenServer(c) \/ ClientWrite(c) \/ ClientOpen(c) \/ ClientRead(c)

Next == Server \/ ServerKilled \/ \E c \in Clients : ClientStart(c) \/ Client(c) \/ ClientKilled(c)

Spec == Init /\ [][Next]_vars
-----------------------------------------------------------------------------
(* Properties.                                                             *)

TypeOK == /\ spc \in {"never", "down", "openr", "openw", "loop", "open", "write", "update"}
          /\ epoch \in 1 .. MaxEpoch /\ seqNum \in -MaxInt - 1 .. MaxInt
          /\ req \in [pid : Clients \cup {None}, seqLen : Nat] /\ peer \in Clients \cup {None}
          /\ requests \in Seq([pid : Clients, seqLen : Nat]) /\ Len(requests) <= PipeMax
          /\ fifos \subseteq Clients
          /\ cpc \in [Clients -> Ended \cup {"opens", "write", "open", "read"}]
          /\ \A c \in Clients : cpc[c] \notin Ended => pid[c] \in fifos

\* The server counts as SeqNumService does; a write() that reaches the client
\* is the allocation, although the counter is moved on only afterwards.
Service == INSTANCE SeqNumService WITH
    next   <- IF spc = "update" THEN Wrap(seqNum + req.seqLen) ELSE seqNum,
    grant  <- resp, Starts <- {0}

\* No number is handed out twice by one server process: the "allocation of
\* unique sequential numbers" (lines 16 and 17).
Unique == Service!Disjoint

NoReuse == \A c \in Clients : pid[c] = c

\* While no PID is used again, every step allocates, wastes or resets the way
\* SeqNumService allows, past INT_MAX too: in particular the client that is
\* answered is the one whose length is added (lines 80 to 89).
CountsLikeService == Service!SvcInit /\ [][NoReuse' => Service!SvcNext]_(Service!svcVars)

\* The server waits in open() for a reader of a FIFO whose client was killed
\* after its request (line 74; line 75 expects the open() to fail instead).
WaitsForTheDead == /\ spc = "open" /\ req.pid \in fifos
                   /\ \A c \in Clients : pid[c] = req.pid => cpc[c] \in Ended

\* Every client is answered, refused because no server was ever there, or was
\* killed, unless the server was killed or waits for a client that was: the FIFO
\* is there when the server looks for it, and it is left waiting for nobody else.
AllServed == \/ epoch > 1 \/ WaitsForTheDead
             \/ \A c \in Clients : cpc[c] \in {"none", "refused", "done", "killed"}
=============================================================================
