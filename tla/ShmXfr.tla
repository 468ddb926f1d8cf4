------------------------------- MODULE ShmXfr -------------------------------
(***************************************************************************)
(* svshm_xfr_writer and svshm_xfr_reader: a byte stream carried through    *)
(* one System V shared memory segment, with two binary semaphores handing  *)
(* the segment back and forth.  One writer process and a set of reader     *)
(* processes that may be started at any time, before, while or after the   *)
(* writer has created the IPC objects, and that share one standard output. *)
(* Byte k of standard input has the value k, so a byte that is lost,       *)
(* repeated or reordered is visible in the output.                         *)
(***************************************************************************)
EXTENDS Integers, Sequences

CONSTANTS
    Readers,     \* reader processes
    BUF_SIZE,    \* bytes in shmseg.buf
    InputLen,    \* bytes on the writer's standard input
    MayFail      \* may processes be killed, may read() and write() fail?

ASSUME BufAssumption   == BUF_SIZE \in Nat \ {0}
ASSUME InputAssumption == InputLen \in Nat
ASSUME FailAssumption  == MayFail \in BOOLEAN

VARIABLES
    semset,   \* the semaphore set: absent, in use, or removed (IPC_RMID)
    sem,      \* the values of WRITE_SEM and READ_SEM
    seg,      \* the shared memory segment, as an IPC object
    cnt,      \* shmseg.cnt
    buf,      \* shmseg.buf
    wpc,      \* where the writer is
    got,      \* value returned by the writer's last read()
    inPos,    \* bytes of standard input consumed
    sent,     \* the writer's 'bytes'
    rpc,      \* where each reader is
    recvd,    \* each reader's 'bytes'
    stdout    \* what the readers have written, in order

ipc  == <<semset, sem, seg>>
shm  == <<cnt, buf>>
wvars == <<wpc, got, inPos, sent>>
rvars == <<rpc, recvd, stdout>>
vars == <<ipc, shm, wvars, rvars>>

WriterPC == {"semget", "initWrite", "initRead", "shmget", "reserve", "read",
             "store", "release", "test", "count", "lastReserve", "rmSem",
             "rmShm", "done", "failed"}
ReaderPC == {"semget", "shmget", "shmat", "reserve", "test", "write",
             "release", "detach", "lastRelease", "done", "failed", "broken"}

Min2(a, b) == IF a < b THEN a ELSE b

Init == /\ semset = "none"
        /\ sem = [s \in {"WRITE", "READ"} |-> 0]
        /\ seg = "none"
        /\ cnt = 0
        /\ buf = [i \in 1..BUF_SIZE |-> 0]
        /\ wpc = "semget"
        /\ got = 0
        /\ inPos = 0
        /\ sent = 0
        /\ rpc = [r \in Readers |-> "semget"]
        /\ recvd = [r \in Readers |-> 0]
        /\ stdout = << >>

-----------------------------------------------------------------------------
(* binary_sems.c.  A blocked semop() that is interrupted is restarted      *)
(* (bsRetryOnEintr), so an interruption changes nothing here.              *)

initSemAvailable(s) == sem' = [sem EXCEPT ![s] = 1]

\* MUTANT: both semaphores start out available.
initSemInUse_Available(s) == sem' = [sem EXCEPT ![s] = 1]

initSemInUse(s) == sem' = [sem EXCEPT ![s] = 0]

reserveSem(s) == /\ semset = "live"
                 /\ sem[s] > 0
                 /\ sem' = [sem EXCEPT ![s] = @ - 1]

releaseSem(s) == /\ semset = "live"
                 /\ sem' = [sem EXCEPT ![s] = @ + 1]

-----------------------------------------------------------------------------
(* The writer.                                                             *)

WStep(from, to) == wpc = from /\ wpc' = to

WriterSemget == /\ WStep("semget", "initWrite")
                /\ semset' = "live"
                /\ UNCHANGED <<sem, seg, shm, got, inPos, sent, rvars>>

WriterInitWrite == /\ WStep("initWrite", "initRead")
                   /\ initSemAvailable("WRITE")
                   /\ UNCHANGED <<semset, seg, shm, got, inPos, sent, rvars>>

WriterInitRead == /\ WStep("initRead", "shmget")
                  /\ initSemInUse("READ")
                  /\ UNCHANGED <<semset, seg, shm, got, inPos, sent, rvars>>

\* shmget() and shmat(): a new segment is filled with zeros.
WriterShmget == /\ WStep("shmget", "reserve")
                /\ seg' = "live"
                /\ UNCHANGED <<semset, sem, shm, got, inPos, sent, rvars>>

WriterReserve == /\ WStep("reserve", "read")
                 /\ reserveSem("WRITE")
                 /\ UNCHANGED <<semset, seg, shm, got, inPos, sent, rvars>>

\* read() into the segment: a short count is allowed, 0 means end of file.
\* The count is stored in shmp->cnt by a later assignment.
WriterRead ==
    /\ WStep("read", "store")
    /\ \E n \in 0..Min2(BUF_SIZE, InputLen - inPos) :
          /\ n = 0 => inPos = InputLen
          /\ got' = n
          /\ inPos' = inPos + n
          /\ buf' = [i \in 1..BUF_SIZE |-> IF i <= n THEN inPos + i ELSE buf[i]]
    /\ UNCHANGED <<ipc, cnt, sent, rvars>>

\* read() fails: -1 is stored in the segment and the writer exits, leaving
\* the IPC objects behind and the readers waiting.
WriterReadError == /\ MayFail
                   /\ WStep("read", "failed")
                   /\ cnt' = -1
                   /\ UNCHANGED <<ipc, buf, got, inPos, sent, rvars>>

\* MUTANT: the size of the buffer is stored, not the count of bytes read.
WriterStore_Full == /\ WStep("store", "release")
                    /\ cnt' = IF got = 0 THEN 0 ELSE BUF_SIZE
                    /\ UNCHANGED <<ipc, buf, got, inPos, sent, rvars>>

WriterStore == /\ WStep("store", "release")
               /\ cnt' = got
               /\ UNCHANGED <<ipc, buf, got, inPos, sent, rvars>>

WriterRelease == /\ WStep("release", "test")
                 /\ releaseSem("READ")
                 /\ UNCHANGED <<semset, seg, shm, got, inPos, sent, rvars>>

\* MUTANT: a short read is taken for the end of the file.
WriterTest_Short == /\ wpc = "test"
                    /\ wpc' = IF cnt < BUF_SIZE THEN "lastReserve" ELSE "count"
                    /\ UNCHANGED <<ipc, shm, got, inPos, sent, rvars>>

\* The end-of-file test and the byte count both read shmp->cnt after the
\* segment has been handed to the readers.
WriterTest == /\ wpc = "test"
              /\ wpc' = IF cnt = 0 THEN "lastReserve" ELSE "count"
              /\ UNCHANGED <<ipc, shm, got, inPos, sent, rvars>>

WriterCount == /\ WStep("count", "reserve")
               /\ sent' = sent + cnt
               /\ UNCHANGED <<ipc, shm, got, inPos, rvars>>

\* MUTANT: the writer cleans up without waiting for one more turn.
WriterLastReserve_NoWait == /\ WStep("lastReserve", "rmSem")
                            /\ UNCHANGED <<ipc, shm, got, inPos, sent, rvars>>

WriterLastReserve == /\ WStep("lastReserve", "rmSem")
                     /\ reserveSem("WRITE")
                     /\ UNCHANGED <<semset, seg, shm, got, inPos, sent, rvars>>

WriterRmSem == /\ WStep("rmSem", "rmShm")
               /\ semset' = "removed"
               /\ UNCHANGED <<sem, seg, shm, got, inPos, sent, rvars>>

\* shmdt(), shmctl(IPC_RMID), exit().  A reader that is still attached keeps
\* the removed segment alive.
WriterRmShm == /\ WStep("rmShm", "done")
               /\ seg' = "removed"
               /\ UNCHANGED <<semset, sem, shm, got, inPos, sent, rvars>>

WriterKilled == /\ MayFail
                /\ wpc \notin {"done", "failed"}
                /\ wpc' = "failed"
                /\ UNCHANGED <<ipc, shm, got, inPos, sent, rvars>>

Writer == \/ WriterSemget \/ WriterInitWrite \/ WriterInitRead
          \/ WriterShmget \/ WriterReserve \/ WriterRead \/ WriterStore
          \/ WriterRelease \/ WriterTest \/ WriterCount
          \/ WriterLastReserve \/ WriterRmSem \/ WriterRmShm

-----------------------------------------------------------------------------
(* The readers.                                                            *)

RStep(r, from, to) == rpc[r] = from /\ rpc' = [rpc EXCEPT ![r] = to]

ReaderSemget(r) == /\ RStep(r, "semget", IF semset = "live" THEN "shmget"
                                                            ELSE "failed")
                   /\ UNCHANGED <<ipc, shm, wvars, recvd, stdout>>

ReaderShmget(r) == /\ RStep(r, "shmget", IF seg = "live" THEN "shmat"
                                                         ELSE "failed")
                   /\ UNCHANGED <<ipc, shm, wvars, recvd, stdout>>

ReaderShmat(r) == /\ RStep(r, "shmat", IF seg = "live" THEN "reserve"
                                                       ELSE "failed")
                  /\ UNCHANGED <<ipc, shm, wvars, recvd, stdout>>

ReaderReserve(r) == /\ RStep(r, "reserve", "test")
                    /\ reserveSem("READ")
                    /\ UNCHANGED <<semset, seg, shm, wvars, recvd, stdout>>

\* A semop() on a removed set fails with EIDRM or EINVAL: errExit().
ReaderSemGone(r) == /\ \E from \in {"reserve", "release", "lastRelease"} :
                          RStep(r, from, "failed")
                    /\ semset = "removed"
                    /\ UNCHANGED <<ipc, shm, wvars, recvd, stdout>>

ReaderTest(r) == /\ RStep(r, "test", IF cnt = 0 THEN "detach" ELSE "write")
                 /\ recvd' = [recvd EXCEPT ![r] = @ + cnt]
                 /\ UNCHANGED <<ipc, shm, wvars, stdout>>

ReaderWrite(r) == /\ RStep(r, "write", "release")
                  /\ stdout' = stdout \o [i \in 1..cnt |-> buf[i]]
                  /\ UNCHANGED <<ipc, shm, wvars, recvd>>

\* MUTANT: a partial write() passes unnoticed.
ReaderWriteError_Ignored(r) == /\ MayFail
                               /\ RStep(r, "write", "release")
                               /\ \E n \in 0..(cnt - 1) :
                                     stdout' = stdout \o [i \in 1..n |-> buf[i]]
                               /\ UNCHANGED <<ipc, shm, wvars, recvd>>

\* A partial or failed write() is fatal: some of the bytes are out, and
\* WRITE_SEM is never released.
ReaderWriteError(r) == /\ MayFail
                       /\ RStep(r, "write", "broken")
                       /\ \E n \in 0..(cnt - 1) :
                             stdout' = stdout \o [i \in 1..n |-> buf[i]]
                       /\ UNCHANGED <<ipc, shm, wvars, recvd>>

ReaderRelease(r) == /\ RStep(r, "release", "reserve")
                    /\ releaseSem("WRITE")
                    /\ UNCHANGED <<semset, seg, shm, wvars, recvd, stdout>>

ReaderDetach(r) == /\ RStep(r, "detach", "lastRelease")
                   /\ UNCHANGED <<ipc, shm, wvars, recvd, stdout>>

\* MUTANT: the reader leaves without giving the writer its last turn.
ReaderLastRelease_None(r) == /\ RStep(r, "lastRelease", "done")
                             /\ UNCHANGED <<ipc, shm, wvars, recvd, stdout>>

ReaderLastRelease(r) == /\ RStep(r, "lastRelease", "done")
                        /\ releaseSem("WRITE")
                        /\ UNCHANGED <<semset, seg, shm, wvars, recvd, stdout>>

ReaderKilled(r) == /\ MayFail
                   /\ rpc[r] \notin {"done", "failed", "broken"}
                   /\ rpc' = [rpc EXCEPT ![r] = "broken"]
                   /\ UNCHANGED <<ipc, shm, wvars, recvd, stdout>>

Reader(r) == \/ ReaderSemget(r) \/ ReaderShmget(r) \/ ReaderShmat(r)
             \/ ReaderReserve(r) \/ ReaderSemGone(r) \/ ReaderTest(r)
             \/ ReaderWrite(r) \/ ReaderRelease(r) \/ ReaderDetach(r)
             \/ ReaderLastRelease(r)

Next == \/ Writer
        \/ WriterReadError
        \/ WriterKilled
        \/ \E r \in Readers : \/ Reader(r)
                              \/ ReaderWriteError(r)
                              \/ ReaderKilled(r)

Spec == Init /\ [][Next]_vars

\* Each process keeps running while it is not blocked in a semop().
FairSpec == Spec /\ WF_vars(Writer) /\ \A r \in Readers : WF_vars(Reader(r))
-----------------------------------------------------------------------------
(* Properties.                                                             *)

\* Every variable has its type.
TypeOK == /\ semset \in {"none", "live", "removed"}
          /\ sem \in [{"WRITE", "READ"} -> Nat]
          /\ seg \in {"none", "live", "removed"}
          /\ cnt \in Int
          /\ buf \in [1..BUF_SIZE -> Nat]
          /\ wpc \in WriterPC
          /\ got \in 0..BUF_SIZE
          /\ inPos \in 0..InputLen
          /\ sent \in Int
          /\ rpc \in [Readers -> ReaderPC]
          /\ recvd \in [Readers -> Int]
          /\ stdout \in Seq(Nat)

WriterInside == wpc \in {"read", "store", "release"}
ReaderInside(r) == rpc[r] \in {"test", "write", "release", "detach", "lastRelease"}

\* "The writer and reader have exclusive, alternating access to the shared
\* memory": no two processes are between reserving the segment and releasing
\* it, whatever the number of readers and whoever is killed.
ExclusiveAccess ==
    /\ \A r \in Readers : ReaderInside(r) => ~WriterInside
    /\ \A r, q \in Readers : ReaderInside(r) /\ ReaderInside(q) => r = q

\* What the readers have written is a prefix of standard input: no byte is
\* lost, repeated or reordered, even after a partial write or a kill.
PrefixDelivered == stdout = [i \in 1..Len(stdout) |-> i]

\* A writer that has removed the IPC objects and exits normally has delivered
\* all of its input, and its 'bytes' statistic, accumulated from shmp->cnt
\* after the segment was given away, is the number of bytes delivered.
DoneMeansDelivered == wpc = "done" => Len(stdout) = InputLen /\ sent = InputLen

\* "We then know reader has finished, and so we can delete the IPC objects":
\* no reader is still using the segment when the semaphores are removed.
RemovedAfterUse == semset = "removed" => \A r \in Readers : ~ReaderInside(r)

Channel == INSTANCE ByteChannel WITH taken <- inPos, delivered <- stdout

\* The programs implement the byte channel: a block is read from standard input
\* only when the previous one has been written out completely.
ImplementsChannel == Channel!Spec

\* Once a reader is attached the whole input is delivered, the writer cleans up
\* and exits, and every reader stops as well, unless a process breaks down.
AttachedReaderDrains ==
    (\E r \in Readers : rpc[r] = "reserve") ~>
        \/ wpc = "failed" \/ \E r \in Readers : rpc[r] = "broken"
        \/ /\ wpc = "done" /\ Len(stdout) = InputLen
           /\ \A r \in Readers : rpc[r] \in {"done", "failed"}
=============================================================================
