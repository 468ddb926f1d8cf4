------------------------------ MODULE SeqSocket ------------------------------
(***************************************************************************)
(* is_seqnum_sv.c and is_seqnum_cl.c: the sequence number service over     *)
(* stream sockets.  The server takes one connection after the other; the   *)
(* request is a line of text, read with readLine().                        *)
(*                                                                         *)
(* The counter is a uint32_t, printed with "%d".                           *)
(***************************************************************************)
EXTENDS Integers, Sequences

CONSTANTS
    SocketClients,     \* client processes
    reqLen,            \* what atoi() makes of argv[2] of each
    INT_MAX,           \* 2 * INT_MAX + 1 is UINT32_MAX
    InitNums,          \* values of init-seq-num
    BACKLOG,
    SocketMortal,      \* clients that may be killed
    MaxStarts          \* bound: how often the server is started

ASSUME SocketAssumption == /\ INT_MAX \in Nat \ {0} /\ BACKLOG \in Nat \ {0}
                           /\ reqLen \in [SocketClients -> -INT_MAX - 1 .. INT_MAX]
                           /\ InitNums \subseteq -INT_MAX - 1 .. INT_MAX
                           /\ SocketMortal \subseteq SocketClients /\ MaxStarts \in Nat \ {0}

VARIABLES
    svpc, svEpoch,     \* the server: where it is, and which one it is
    svSeqNum, cfd,     \* its counter, and the client it is connected to
    pending,           \* connections not yet accepted
    clpc, open,        \* each client: where it is; connections with both ends open
    sent, clResp       \* what has been sent on each connection, by either end

sv == <<svpc, svEpoch, svSeqNum, cfd>>
socketVars == <<sv, pending, clpc, open, sent, clResp>>

NoClient == "none"
NoAnswer == [start |-> 0, epoch |-> 0]
Word == 2 * (INT_MAX + 1)

\* Conversion of an int to uint32_t, and of a uint32_t to what "%d" shows.
Unsigned(x) == x % Word
Shown(x) == IF x > INT_MAX THEN x - Word ELSE x

Valid == {c \in SocketClients : reqLen[c] > 0}

SocketInit == /\ svpc = "accept" /\ svEpoch = 1 /\ cfd = NoClient
              /\ svSeqNum \in {Unsigned(x) : x \in InitNums}
              /\ pending = << >> /\ open = {}
              /\ clpc = [c \in SocketClients |-> "none"]
              /\ sent = [c \in SocketClients |-> "nothing"]
              /\ clResp = [c \in SocketClients |-> NoAnswer]

-----------------------------------------------------------------------------
(* The server.                                                             *)

SvAccept == /\ svpc = "accept" /\ pending # << >>
            /\ cfd' = Head(pending) /\ pending' = Tail(pending)
            /\ svpc' = "read"
            /\ UNCHANGED <<svEpoch, svSeqNum, clpc, open, sent, clResp>>

SvDrop == svpc' = "accept" /\ cfd' = NoClient /\ open' = open \ {cfd}

\* MUTANT: readLine() waits for the newline even at the end of the stream.
SvRead_Stuck == /\ svpc = "read"
                /\ sent[cfd] = "line"
                /\ IF reqLen[cfd] <= 0 THEN SvDrop ELSE svpc' = "write" /\ UNCHANGED <<cfd, open>>
                /\ UNCHANGED <<svEpoch, svSeqNum, pending, clpc, sent, clResp>>

\* readLine() returns at the newline or at the end of the stream; what it has
\* got by then is the request.  Nothing at all, and a length that is not
\* positive, close the connection.
SvRead == /\ svpc = "read"
          /\ sent[cfd] = "line" \/ cfd \notin open
          /\ IF sent[cfd] = "nothing" \/ reqLen[cfd] <= 0
             THEN SvDrop
             ELSE svpc' = "write" /\ UNCHANGED <<cfd, open>>
          /\ UNCHANGED <<svEpoch, svSeqNum, pending, clpc, sent, clResp>>

\* The number is on its way, although nobody may be there to read it.
SvWrite == /\ svpc = "write"
           /\ clResp' = IF cfd \in open
                        THEN [clResp EXCEPT ![cfd] = [start |-> Shown(svSeqNum), epoch |-> svEpoch]]
                        ELSE clResp
           /\ svpc' = "update"
           /\ UNCHANGED <<svEpoch, svSeqNum, cfd, pending, clpc, open, sent>>

\* MUTANT: the counter is one bit too narrow.
SvUpdate_Short == /\ svpc = "update"
                  /\ svSeqNum' = (svSeqNum + reqLen[cfd]) % (INT_MAX + 1)
                  /\ SvDrop
                  /\ UNCHANGED <<svEpoch, pending, clpc, sent, clResp>>

SvUpdate == /\ svpc = "update"
            /\ svSeqNum' = (svSeqNum + reqLen[cfd]) % Word
            /\ SvDrop
            /\ UNCHANGED <<svEpoch, pending, clpc, sent, clResp>>

\* The server is killed and started again: every connection is reset.
SvRestart == /\ svEpoch < MaxStarts
             /\ svEpoch' = svEpoch + 1 /\ svpc' = "accept" /\ cfd' = NoClient
             /\ svSeqNum' \in {Unsigned(x) : x \in InitNums}
             /\ pending' = << >> /\ open' = {}
             /\ UNCHANGED <<clpc, sent, clResp>>

-----------------------------------------------------------------------------
(* The client.                                                             *)

ClAt(c, from, to) == clpc[c] = from /\ clpc' = [clpc EXCEPT ![c] = to]

ClConnect(c) == /\ ClAt(c, "none", "length")
                /\ Len(pending) < BACKLOG
                /\ pending' = Append(pending, c) /\ open' = open \cup {c}
                /\ UNCHANGED <<sv, sent, clResp>>

\* The two write() calls; after a reset the client is killed by SIGPIPE.
ClWrite(c) == \/ /\ c \in open
                 /\ ClAt(c, "length", "newline") /\ sent' = [sent EXCEPT ![c] = "digits"]
                 /\ UNCHANGED <<sv, pending, open, clResp>>
              \/ /\ c \in open
                 /\ ClAt(c, "newline", "read") /\ sent' = [sent EXCEPT ![c] = "line"]
                 /\ UNCHANGED <<sv, pending, open, clResp>>
              \/ /\ c \notin open
                 /\ ClAt(c, "length", "killed") \/ ClAt(c, "newline", "killed")
                 /\ UNCHANGED <<sv, pending, open, sent, clResp>>

\* readLine() of the answer, or of the end of the stream.
ClRead(c) == /\ clpc[c] = "read" /\ (clResp[c] # NoAnswer \/ c \notin open)
             /\ clpc' = [clpc EXCEPT ![c] = IF clResp[c] # NoAnswer THEN "done" ELSE "failed"]
             /\ UNCHANGED <<sv, pending, open, sent, clResp>>

\* The connection of a killed client is closed by the kernel.
ClKilled(c) == /\ c \in SocketMortal /\ clpc[c] \in {"length", "newline", "read"}
               /\ clpc' = [clpc EXCEPT ![c] = "killed"]
               /\ open' = open \ {c}
               /\ UNCHANGED <<sv, pending, sent, clResp>>

-----------------------------------------------------------------------------
Sv == SvAccept \/ SvRead \/ SvWrite \/ SvUpdate
ClStep(c) == ClWrite(c) \/ ClRead(c)

SocketNext == Sv \/ SvRestart
              \/ \E c \in SocketClients : ClConnect(c) \/ ClStep(c) \/ ClKilled(c)

SocketSpec == SocketInit /\ [][SocketNext]_socketVars

-----------------------------------------------------------------------------
(* Properties.                                                             *)

SocketService == INSTANCE SeqNumService WITH
    Clients <- Valid, seqLen <- [c \in Valid |-> reqLen[c]], MaxInt <- INT_MAX,
    Starts <- InitNums, MaxEpoch <- MaxStarts, epoch <- svEpoch,
    next  <- IF svpc = "update" THEN Shown((svSeqNum + reqLen[cfd]) % Word) ELSE Shown(svSeqNum),
    grant <- [c \in Valid |-> clResp[c]]

\* "Our service is to provide unique sequence numbers to clients": the server
\* counts as SeqNumService does, in unsigned arithmetic shown as signed numbers,
\* whether clients ask for nonsense, stop in the middle of a request or die.
SocketCountsLikeService == SocketService!SvcSpec

\* Every proper request is answered unless the server is killed: a client that
\* dies in the middle of its request, or asks for nonsense, does not hold up the
\* others.
AllAnswered == \A c \in Valid \ SocketMortal :
                   \/ clpc[c] \in {"none", "done"}
                   \/ svEpoch > 1 /\ clpc[c] \in {"failed", "killed"}
=============================================================================
