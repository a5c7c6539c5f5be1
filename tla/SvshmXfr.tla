------------------------------ MODULE SvshmXfr ------------------------------
(***************************************************************************)
(* svshm/svshm_xfr_writer.c and svshm/svshm_xfr_reader.c: the writer reads *)
(* blocks of its standard input into a shared memory segment, the reader   *)
(* copies them to its standard output, and a pair of binary semaphores     *)
(* makes them take turns.                                                  *)
(*                                                                         *)
(* The two processes interleave between system calls and between accesses  *)
(* to the segment.  Byte k of the input is represented by k, so that a     *)
(* lost, repeated, stale or reordered byte shows in the output.            *)
(***************************************************************************)
EXTENDS Integers, Sequences

CONSTANTS BufSize,      \* BUF_SIZE, the size of the transfer buffer
          InputLen      \* number of bytes on the writer's standard input

ASSUME BufSizeAssumption == BufSize \in Nat \ {0}
ASSUME InputLenAssumption == InputLen \in Nat

WRITE_SEM == 0
READ_SEM  == 1

VARIABLES semExists, semval,    \* the set exists; the value of each semaphore
          shmExists,            \* the segment exists
          cnt, buf,             \* struct shmseg
          wpc, pos, sentBytes,  \* writer: next step, bytes read, 'bytes'
          rpc, out, rcvdBytes   \* reader: next step, stdout, 'bytes'

semVars    == <<semExists, semval>>
shmVars    == <<shmExists, cnt, buf>>
writerVars == <<wpc, pos, sentBytes>>
readerVars == <<rpc, out, rcvdBytes>>
vars       == <<semVars, shmVars, writerVars, readerVars>>

WriterPc == {"semget", "initW", "initR", "shmget", "reserve", "read",
             "release", "test", "lastReserve", "rmSem", "rmShm", "done",
             "readErr", "killed"}
ReaderPc == {"unstarted", "semget", "shmget", "reserve", "test", "write",
             "release", "detach", "lastRelease", "done",
             "noIpc", "writeErr", "killed"}

Byte == 1..InputLen

Init ==
    /\ semExists = FALSE
    /\ semval = [s \in {WRITE_SEM, READ_SEM} |-> 0]
    /\ shmExists = FALSE
    /\ cnt = 0
    /\ buf = [i \in 1..BufSize |-> 0]
    /\ wpc = "semget" /\ pos = 0 /\ sentBytes = 0
    /\ rpc = "semget" /\ out = <<>> /\ rcvdBytes = 0

-----------------------------------------------------------------------------
(* svsem/binary_sems.c on a System V semaphore set.  semop() and semctl()  *)
(* are the kernel's: each one is atomic.  A semop() that a signal handler  *)
(* interrupts (EINTR) is retried by reserveSem(), since bsRetryOnEintr is  *)
(* TRUE, so an interruption is a stuttering step.                          *)

\* semget(key, n, IPC_CREAT): a new set has the value 0 in every semaphore on
\* Linux; an existing set, left by an earlier run, is returned as it is.
semgetCreate ==
    /\ semExists' = TRUE
    /\ semval' = IF semExists THEN semval ELSE [s \in {WRITE_SEM, READ_SEM} |-> 0]

initSemAvailable(s) ==
    /\ semExists
    /\ semval' = [semval EXCEPT ![s] = 1]
    /\ UNCHANGED semExists

initSemInUse(s) ==
    /\ semExists
    /\ semval' = [semval EXCEPT ![s] = 0]
    /\ UNCHANGED semExists

\* reserveSem() blocks until the semaphore is positive and decrements it.
reserveSem(s) ==
    /\ semExists
    /\ semval[s] > 0
    /\ semval' = [semval EXCEPT ![s] = @ - 1]
    /\ UNCHANGED semExists

releaseSem(s) ==
    /\ semExists
    /\ semval' = [semval EXCEPT ![s] = @ + 1]
    /\ UNCHANGED semExists

\* semctl(semid, 0, IPC_RMID)
semRemove ==
    /\ semExists' = FALSE
    /\ UNCHANGED semval

-----------------------------------------------------------------------------
(* The writer.                                                             *)

WSemget ==
    /\ wpc = "semget"
    /\ semgetCreate
    /\ wpc' = "initW"
    /\ UNCHANGED <<shmVars, pos, sentBytes, readerVars>>

WInitWriteSem ==
    /\ wpc = "initW"
    /\ initSemAvailable(WRITE_SEM)
    /\ wpc' = "initR"
    /\ UNCHANGED <<shmVars, pos, sentBytes, readerVars>>

WInitReadSem ==
    /\ wpc = "initR"
    /\ initSemInUse(READ_SEM)
    /\ wpc' = "shmget"
    /\ UNCHANGED <<shmVars, pos, sentBytes, readerVars>>

\* shmget(IPC_CREAT) and shmat(): a new segment is zeroed, one left by an
\* earlier run keeps its contents.
WShmget ==
    /\ wpc = "shmget"
    /\ shmExists' = TRUE
    /\ cnt' = IF shmExists THEN cnt ELSE 0
    /\ buf' = IF shmExists THEN buf ELSE [i \in 1..BufSize |-> 0]
    /\ wpc' = "reserve"
    /\ UNCHANGED <<semVars, pos, sentBytes, readerVars>>

WReserve ==
    /\ wpc = "reserve"
    /\ reserveSem(WRITE_SEM)
    /\ wpc' = "read"
    /\ UNCHANGED <<shmVars, pos, sentBytes, readerVars>>

\* read(STDIN_FILENO, shmp->buf, BUF_SIZE) takes between 1 and BUF_SIZE of the
\* remaining bytes, or 0 at the end of the input; the rest of buf is left as
\* it was.
WRead ==
    /\ wpc = "read"
    /\ \E n \in 0..BufSize :
          /\ pos + n <= InputLen
          /\ (n = 0) <=> (pos = InputLen)
          /\ cnt' = n
          /\ buf' = [i \in 1..BufSize |-> IF i <= n THEN pos + i ELSE buf[i]]
          /\ pos' = pos + n
    /\ wpc' = "release"
    /\ UNCHANGED <<semVars, shmExists, sentBytes, readerVars>>

\* A failed read(): the -1 is already in shmp->cnt when the writer exits, and
\* neither the semaphores nor the segment are removed.
WReadError ==
    /\ wpc = "read"
    /\ cnt' = -1
    /\ wpc' = "readErr"
    /\ UNCHANGED <<semVars, shmExists, buf, pos, sentBytes, readerVars>>

WRelease ==
    /\ wpc = "release"
    /\ releaseSem(READ_SEM)
    /\ wpc' = "test"
    /\ UNCHANGED <<shmVars, pos, sentBytes, readerVars>>

WTestEof_M ==
    /\ wpc = "test"
    /\ wpc' = IF cnt = 0 THEN "lastReserve" ELSE "reserve"
    /\ sentBytes' = sentBytes + BufSize
    /\ UNCHANGED <<semVars, shmVars, pos, readerVars>>

\* The test of shmp->cnt and 'bytes += shmp->cnt' come after the reader has
\* been given its turn.
WTestEof ==
    /\ wpc = "test"
    /\ wpc' = IF cnt = 0 THEN "lastReserve" ELSE "reserve"
    /\ sentBytes' = sentBytes + cnt
    /\ UNCHANGED <<semVars, shmVars, pos, readerVars>>

WLastReserve_M ==
    /\ wpc = "lastReserve"
    /\ wpc' = "rmSem"
    /\ UNCHANGED <<semVars, shmVars, pos, sentBytes, readerVars>>

WLastReserve ==
    /\ wpc = "lastReserve"
    /\ reserveSem(WRITE_SEM)
    /\ wpc' = "rmSem"
    /\ UNCHANGED <<shmVars, pos, sentBytes, readerVars>>

WRemoveSem ==
    /\ wpc = "rmSem"
    /\ semRemove
    /\ wpc' = "rmShm"
    /\ UNCHANGED <<shmVars, pos, sentBytes, readerVars>>

WRemoveShm ==
    /\ wpc = "rmShm"
    /\ shmExists' = FALSE
    /\ wpc' = "done"
    /\ UNCHANGED <<semVars, cnt, buf, pos, sentBytes, readerVars>>

Writer == \/ WSemget \/ WInitWriteSem \/ WInitReadSem \/ WShmget
          \/ WReserve \/ WRead \/ WReadError \/ WRelease \/ WTestEof
          \/ WLastReserve \/ WRemoveSem \/ WRemoveShm

-----------------------------------------------------------------------------
(* The reader.                                                             *)

RSemget ==
    /\ rpc = "semget"
    /\ rpc' = IF semExists THEN "shmget" ELSE "noIpc"
    /\ UNCHANGED <<semVars, shmVars, writerVars, out, rcvdBytes>>

RShmget ==
    /\ rpc = "shmget"
    /\ rpc' = IF shmExists THEN "reserve" ELSE "noIpc"
    /\ UNCHANGED <<semVars, shmVars, writerVars, out, rcvdBytes>>

RReserve_M ==
    /\ rpc = "reserve" /\ rpc' = "test"
    /\ UNCHANGED <<semVars, shmVars, writerVars, out, rcvdBytes>>

RReserve ==
    /\ rpc = "reserve"
    /\ reserveSem(READ_SEM)
    /\ rpc' = "test"
    /\ UNCHANGED <<shmVars, writerVars, out, rcvdBytes>>

RTestEof ==
    /\ rpc = "test"
    /\ rpc' = IF cnt = 0 THEN "detach" ELSE "write"
    /\ rcvdBytes' = rcvdBytes + cnt
    /\ UNCHANGED <<semVars, shmVars, writerVars, out>>

RWrite_M ==
    /\ rpc = "write"
    /\ out' = out \o buf
    /\ rpc' = "release"
    /\ UNCHANGED <<semVars, shmVars, writerVars, rcvdBytes>>

RWrite ==
    /\ rpc = "write"
    /\ out' = out \o [i \in 1..cnt |-> buf[i]]
    /\ rpc' = "release"
    /\ UNCHANGED <<semVars, shmVars, writerVars, rcvdBytes>>

\* A partial or failed write() ends the reader while it holds the turn.
RWriteError ==
    /\ rpc = "write"
    /\ \E k \in 0..cnt - 1 : out' = out \o [i \in 1..k |-> buf[i]]
    /\ rpc' = "writeErr"
    /\ UNCHANGED <<semVars, shmVars, writerVars, rcvdBytes>>

RRelease_M ==
    /\ rpc = "release"
    /\ rpc' = "reserve"
    /\ UNCHANGED <<semVars, shmVars, writerVars, out, rcvdBytes>>

RRelease ==
    /\ rpc = "release"
    /\ releaseSem(WRITE_SEM)
    /\ rpc' = "reserve"
    /\ UNCHANGED <<shmVars, writerVars, out, rcvdBytes>>

RDetach ==
    /\ rpc = "detach"
    /\ rpc' = "lastRelease"
    /\ UNCHANGED <<semVars, shmVars, writerVars, out, rcvdBytes>>

RLastRelease_M ==
    /\ rpc = "lastRelease"
    /\ rpc' = "done"
    /\ UNCHANGED <<semVars, shmVars, writerVars, out, rcvdBytes>>

RLastRelease ==
    /\ rpc = "lastRelease"
    /\ releaseSem(WRITE_SEM)
    /\ rpc' = "done"
    /\ UNCHANGED <<shmVars, writerVars, out, rcvdBytes>>

Reader == \/ RSemget \/ RShmget \/ RReserve \/ RTestEof \/ RWrite
          \/ RWriteError \/ RRelease \/ RDetach \/ RLastRelease

-----------------------------------------------------------------------------
Next == Writer \/ Reader

Spec == Init /\ [][Next]_vars

-----------------------------------------------------------------------------
(* Properties.                                                             *)

\* Every variable keeps its type; in particular cnt never exceeds the buffer,
\* and the semaphores stay binary.
TypeOK ==
    /\ semExists \in BOOLEAN
    /\ semval \in [{WRITE_SEM, READ_SEM} -> 0..1]
    /\ shmExists \in BOOLEAN
    /\ cnt \in -1..BufSize
    /\ buf \in [1..BufSize -> 0..InputLen]
    /\ wpc \in WriterPc
    /\ pos \in 0..InputLen
    /\ sentBytes \in Int
    /\ rpc \in ReaderPc
    /\ out \in Seq(0..InputLen)
    /\ rcvdBytes \in Int

WriterInSegment == wpc \in {"read", "release"}
ReaderInSegment == rpc \in {"test", "write", "release"}

\* svshm_xfr.h: the semaphores give writer and reader exclusive access to the
\* segment: the reader never looks at cnt or buf while the writer fills them.
ExclusiveAccess == ~(WriterInSegment /\ ReaderInSegment)

\* The two processes never both wait for a turn that nobody will give: one
\* blocked in reserveSem(WRITE_SEM), the other in reserveSem(READ_SEM).
NoMutualWait ==
    ~ /\ wpc \in {"reserve", "lastReserve"} /\ semval[WRITE_SEM] = 0
      /\ rpc = "reserve" /\ semval[READ_SEM] = 0

\* The writer removes the semaphores and the segment only after the reader has
\* used them for the last time ("Wait until reader has let us have one more
\* turn"), so no reader that attached ever meets a removed IPC object.
ReaderKeepsIpc ==
    /\ rpc \in {"reserve", "test", "write", "release", "detach", "lastRelease"}
          => semExists
    /\ rpc \in {"test", "write"} => shmExists

\* Both programs report the number of bytes really transferred, although the
\* writer adds shmp->cnt up after it has handed the segment to the reader.
CountsAgree ==
    rpc = "done" /\ wpc = "done" =>
        /\ sentBytes = InputLen
        /\ rcvdBytes = InputLen
        /\ Len(out) = InputLen

readerSawEof == rpc \in {"detach", "lastRelease", "done"}

\* What the pair implements: an in-order, loss-free byte stream.
Stream == INSTANCE ByteStream WITH sent <- pos, eof <- readerSawEof

StreamSpec == Stream!Spec

-----------------------------------------------------------------------------
(* The writer/reader pair killed and started again.  A killed              *)
(* process leaves the semaphore set and the segment behind, and semget()   *)
(* without IPC_EXCL in the next writer adopts them.                        *)
(*                                                                         *)
(* The writer's comment asks for the writer to be started first.  With     *)
(* leftover semaphores that is not enough: the two SETVALs of the writer   *)
(* are separate steps, and a reader started before the second one can find *)
(* READ_SEM at 1.  Here the user waits for the writer's initialisation.    *)

CONSTANT MaxRuns        \* bound: how many times the pair is started
ASSUME MaxRunsAssumption == MaxRuns \in Nat \ {0}

VARIABLE runs           \* how many times it was started so far

restartVars == <<vars, runs>>

RestartInit == Init /\ runs = 1

WStep == Writer /\ UNCHANGED runs
RStep == Reader /\ UNCHANGED runs

WEnded == {"done", "readErr", "killed"}
REnded == {"done", "noIpc", "writeErr", "killed"}

KillWriter ==
    /\ wpc \notin WEnded /\ wpc' = "killed"
    /\ UNCHANGED <<semVars, shmVars, pos, sentBytes, readerVars, runs>>

KillReader ==
    /\ rpc \notin REnded /\ rpc' = "killed"
    /\ UNCHANGED <<semVars, shmVars, writerVars, out, rcvdBytes, runs>>

Restart ==
    /\ wpc \in WEnded /\ rpc \in REnded
    /\ runs < MaxRuns /\ runs' = runs + 1
    /\ wpc' = "semget" /\ pos' = 0 /\ sentBytes' = 0
    /\ rpc' = "unstarted" /\ out' = <<>> /\ rcvdBytes' = 0
    /\ UNCHANGED <<semVars, shmVars>>

StartReader ==
    /\ rpc = "unstarted"
    /\ wpc \notin {"semget", "initW", "initR", "shmget", "killed"}
    /\ rpc' = "semget"
    /\ UNCHANGED <<semVars, shmVars, writerVars, out, rcvdBytes, runs>>

RestartNext == WStep \/ RStep \/ KillWriter \/ KillReader \/ Restart \/ StartReader

\* Each process keeps running while it can; nothing obliges read() or write()
\* to fail, or the user to kill or start anything.
RestartSpec ==
    /\ RestartInit /\ [][RestartNext]_restartVars
    /\ WF_restartVars(WStep) /\ WF_restartVars(RStep)

-----------------------------------------------------------------------------
(* Properties.                                                             *)

\* Every pair that is started, also one that adopts the semaphores and the
\* segment of a killed pair, implements ByteStream: only a kill or the start of
\* the next pair is not a step of it.
StreamAcrossRestarts ==
    /\ Stream!Init
    /\ [][[Stream!Next]_(Stream!streamVars) \/ KillReader \/ Restart]_restartVars

\* A reader that found the IPC objects finishes, unless a read() or a write()
\* fails or a process is killed (the one left alone waits for its turn for ever),
\* and once it is done the writer removes the IPC objects and exits.
BothFinish ==
    /\ rpc = "reserve" ~> rpc \in {"done", "writeErr", "killed"} \/ wpc \in {"readErr", "killed"}
    /\ rpc = "done" ~> (wpc = "done" /\ ~semExists /\ ~shmExists) \/ wpc = "killed"
=============================================================================
