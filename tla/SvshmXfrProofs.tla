--------------------------- MODULE SvshmXfrProofs ---------------------------
(***************************************************************************)
(* Proofs about the writer/reader pair of SvshmXfr, killed and restarted   *)
(* as SvshmXfrRestart says, for every buffer size, every input length and  *)
(* any number of runs.                                                     *)
(*                                                                         *)
(* The argument is the conservation of one token: once the writer has      *)
(* initialised the semaphores, the turn is in at most one of four places,  *)
(* WRITE_SEM, READ_SEM, the writer or the reader, and only the kill of the *)
(* process that holds it loses it.  Before that, semaphores and segment    *)
(* may be leftovers of any earlier run, and no reader is attached.  On top *)
(* of it, DataInv says which bytes the segment holds while a block is      *)
(* pending.                                                                *)
(***************************************************************************)
EXTENDS SvshmXfr, TLAPS

\* How long the provers may take for one step.
USE SMTT(30), ZenonT(30)

BeforeShm == wpc \in {"semget", "initW", "initR", "shmget"}
Attached == rpc \in {"reserve", "test", "write", "release", "detach", "lastRelease"}

\* The reader will find the segment.
Arriving == rpc \in {"semget", "shmget"} /\ shmExists

\* The semaphores are those of this run, and somebody still uses them.
InUse == ~BeforeShm /\ (wpc = "killed" => Attached \/ Arriving)

WHolds == wpc \in {"read", "release", "rmSem", "rmShm", "done", "readErr"}
RHolds == rpc \in {"test", "write", "release", "detach", "lastRelease", "writeErr"}
Pending == \/ wpc = "release"
           \/ semval[READ_SEM] = 1
           \/ rpc \in {"test", "write"}

\* The turn was passed on after the last block, or is about to be.
Written == \/ semval[WRITE_SEM] = 1 \/ WHolds
           \/ rpc \in {"release", "detach", "lastRelease"}

ControlInv ==
    /\ wpc \notin {"semget", "rmShm", "done", "killed"} => semExists
    /\ ~BeforeShm /\ wpc \notin {"done", "killed"} => shmExists
    /\ wpc \in {"initR", "shmget"} => semval[WRITE_SEM] = 1
    /\ wpc = "shmget" => semval[READ_SEM] = 0
    /\ BeforeShm => rpc \in {"unstarted", "semget", "shmget", "noIpc", "killed"}
    /\ BeforeShm => ~Arriving
    /\ Attached \/ (wpc = "killed" /\ Arriving) => semExists /\ shmExists

\* The turn is in at most one place, and in one if no process was killed.
TokenInv ==
    InUse =>
        /\ semval[WRITE_SEM] = 1 => semval[READ_SEM] = 0 /\ ~WHolds /\ ~RHolds
        /\ semval[READ_SEM] = 1 => ~WHolds /\ ~RHolds
        /\ ~(WHolds /\ RHolds)
        /\ wpc # "killed" /\ rpc # "killed" =>
               semval[WRITE_SEM] = 1 \/ semval[READ_SEM] = 1 \/ WHolds \/ RHolds

\* Who has seen the end of the input, and what follows for the other side.
EofInv ==
    /\ wpc \in {"lastReserve", "rmSem", "rmShm", "done"} => cnt = 0
    /\ wpc \in {"rmSem", "rmShm", "done"} => rpc = "done"
    /\ wpc \in {"test", "lastReserve"} /\ cnt = 0 /\ semval[WRITE_SEM] = 1
          => rpc = "done"
    /\ wpc = "reserve" /\ Pending => cnt # 0
    /\ wpc \in {"release", "test"} => cnt >= 0
    /\ rpc \in {"write", "release"} => cnt > 0
    /\ readerSawEof =>
          /\ cnt = 0 /\ pos = InputLen
          /\ wpc \in {"test", "lastReserve", "rmSem", "rmShm", "done", "killed"}

DataInv ==
    /\ \A i \in 1..Len(out) : out[i] = i
    /\ BeforeShm => out = <<>> /\ pos = 0
    /\ InUse /\ Pending => /\ cnt >= 0 /\ Len(out) + cnt = pos
                           /\ \A i \in 1..cnt : buf[i] = Len(out) + i
                           /\ cnt = 0 => pos = InputLen
    /\ InUse /\ ~Pending /\ Written => Len(out) = pos

CountInv ==
    /\ wpc \in {"release", "test"} => sentBytes + cnt = pos
    /\ wpc \notin {"release", "test", "killed"} => sentBytes = pos
    /\ rpc = "write" => rcvdBytes = Len(out) + cnt
    /\ rpc \notin {"write", "writeErr", "killed"} => rcvdBytes = Len(out)

IInv == TypeOK /\ ControlInv /\ TokenInv /\ EofInv /\ DataInv /\ CountInv

-----------------------------------------------------------------------------
USE BufSizeAssumption, InputLenAssumption

\* What the reader appends: a block that holds the next cnt bytes of the input
\* extends a prefix of the input to a longer prefix.
LEMMA AppendBlock ==
    ASSUME NEW s \in Seq(0..InputLen), NEW n \in 0..BufSize,
           NEW b \in [1..BufSize -> 0..InputLen],
           \A i \in 1..Len(s) : s[i] = i,
           \A i \in 1..n : b[i] = Len(s) + i
    PROVE  LET t == s \o [i \in 1..n |-> b[i]]
           IN  /\ t \in Seq(0..InputLen)
               /\ Len(t) = Len(s) + n
               /\ \A i \in 1..Len(t) : t[i] = i
<1> DEFINE c == [i \in 1..n |-> b[i]]
<1>1. c \in Seq(0..InputLen) /\ Len(c) = n
  OBVIOUS
<1>2. s \o c \in Seq(0..InputLen) /\ Len(s \o c) = Len(s) + n
  BY <1>1
<1>3. ASSUME NEW i \in 1..Len(s \o c)
      PROVE  (s \o c)[i] = i
  <2>1. CASE i <= Len(s)
    BY <1>1, <1>2, <2>1
  <2>2. CASE i > Len(s)
    <3>1. (s \o c)[i] = c[i - Len(s)]
      BY <1>1, <1>2, <2>2
    <3>2. i - Len(s) \in 1..n
      BY <1>2, <2>2
    <3> QED BY <3>1, <3>2
  <2> QED BY <2>1, <2>2, <1>2
<1> QED BY <1>2, <1>3, ZenonT(30)

\* It holds before either program has started.
LEMMA InitIInv == Init => IInv
<1> SUFFICES ASSUME Init PROVE IInv
  OBVIOUS
<1> USE DEF Init, WRITE_SEM, READ_SEM
<1>1. TypeOK
  BY DEF TypeOK, WriterPc, ReaderPc
<1>2. ControlInv /\ TokenInv /\ EofInv /\ DataInv /\ CountInv
  BY DEF ControlInv, TokenInv, EofInv, DataInv, CountInv, BeforeShm, Attached,
         Arriving, InUse, WHolds, RHolds, Pending, Written, readerSawEof
<1> QED BY <1>1, <1>2 DEF IInv

\* The data are right as long as nobody touches them and no new claim is made.
LEMMA DataKept ==
    ASSUME DataInv, UNCHANGED <<out, pos, cnt, buf>>,
           InUse' => InUse, BeforeShm' => BeforeShm,
           InUse' /\ Pending' => Pending,
           InUse' /\ ~Pending' /\ Written' => ~Pending /\ Written
    PROVE  DataInv'
BY DEF DataInv

\* They are before the writer has attached the segment.
LEMMA DataFresh ==
    ASSUME BeforeShm', out' = <<>>, pos' = 0
    PROVE  DataInv'
BY DEF DataInv, InUse

\* So are they when the writer has just filled the segment.
LEMMA DataRead ==
    ASSUME DataInv, wpc' = "release", out' = out, out \in Seq(0..InputLen), Len(out) = pos,
           NEW n \in Nat, cnt' = n, pos' = pos + n,
           \A i \in 1..n : buf'[i] = pos + i,
           n = 0 => pos = InputLen
    PROVE  DataInv'
<1>1. PICK l \in Nat : l = Len(out) /\ l = pos
  OBVIOUS
<1>2. cnt' >= 0 /\ l + cnt' = pos' /\ (cnt' = 0 => pos' = InputLen)
  BY <1>1
<1>3. Pending' /\ ~BeforeShm'
  BY DEF Pending, BeforeShm
<1> QED
  BY <1>1, <1>2, <1>3 DEF DataInv

\* Every step of the two programs preserves the inductive invariant.
LEMMA NextIInv == IInv /\ [Next]_vars => IInv'
<1> SUFFICES ASSUME IInv, [Next]_vars PROVE IInv'
  OBVIOUS
<1> USE DEF IInv, TypeOK, ControlInv, TokenInv, EofInv, DataInv, CountInv,
            BeforeShm, Attached, Arriving, InUse, WHolds, RHolds, Pending,
            Written, readerSawEof, WriterPc,
            ReaderPc, WRITE_SEM, READ_SEM, semVars, shmVars, writerVars,
            readerVars
<1>1. CASE WSemget
  BY <1>1 DEF WSemget, semgetCreate
<1>2. CASE WInitWriteSem
  BY <1>2 DEF WInitWriteSem, initSemAvailable
<1>3. CASE WInitReadSem
  BY <1>3 DEF WInitReadSem, initSemInUse
<1>4. CASE WShmget
  BY <1>4 DEF WShmget
<1>5. CASE WReserve
  BY <1>5 DEF WReserve, reserveSem
<1>6. CASE WRead
  <2> USE <1>6
  <2>1. PICK n \in 0..BufSize :
          /\ pos + n <= InputLen
          /\ (n = 0) <=> (pos = InputLen)
          /\ cnt' = n
          /\ buf' = [i \in 1..BufSize |-> IF i <= n THEN pos + i ELSE buf[i]]
          /\ pos' = pos + n
    BY DEF WRead
  <2>2. ~Pending /\ Len(out) = pos
    BY DEF WRead
  <2>3. TypeOK'
    BY <2>1 DEF WRead
  <2>4. ControlInv' /\ TokenInv' /\ CountInv'
    BY <2>1 DEF WRead
  <2>5. EofInv'
    BY <2>1 DEF WRead
  <2>6. /\ \A i \in 1..n : buf'[i] = pos + i
        /\ wpc' = "release" /\ out' = out
    BY <2>1 DEF WRead
  <2>7. n \in Nat /\ (n = 0 => pos = InputLen) /\ out \in Seq(0..InputLen) /\ DataInv
    BY <2>1
  <2>8. DataInv'
    <3> HIDE DEF DataInv
    <3> QED BY <2>1, <2>2, <2>6, <2>7, DataRead, ZenonT(30)
  <2> QED BY <2>3, <2>4, <2>5, <2>8, ZenonT(30)
<1>7. CASE WReadError
  BY <1>7 DEF WReadError
<1>8. CASE WRelease
  BY <1>8 DEF WRelease, releaseSem
<1>9. CASE WTestEof
  BY <1>9 DEF WTestEof
<1>10. CASE WLastReserve
  BY <1>10 DEF WLastReserve, reserveSem
<1>11. CASE WRemoveSem
  BY <1>11, ZenonT(30) DEF WRemoveSem, semRemove
<1>12. CASE WRemoveShm
  BY <1>12, ZenonT(30) DEF WRemoveShm
<1>13. CASE RSemget
  BY <1>13 DEF RSemget
<1>14. CASE RShmget
  BY <1>14 DEF RShmget
<1>15. CASE RReserve
  <2> USE <1>15 DEF RReserve, reserveSem
  <2>1. TypeOK' /\ ControlInv' /\ TokenInv' /\ CountInv'
    OBVIOUS
  <2>2. EofInv'
    OBVIOUS
  <2>3. /\ UNCHANGED <<out, pos, cnt, buf>> /\ (InUse' => InUse)
        /\ (BeforeShm' => BeforeShm) /\ Pending
    OBVIOUS
  <2>4. Pending'
    OBVIOUS
  <2>5. DataInv'
    BY <2>3, <2>4, DataKept
  <2> QED BY <2>1, <2>2, <2>5
<1>16. CASE RTestEof
  <2> USE <1>16 DEF RTestEof
  <2>1. TypeOK' /\ ControlInv' /\ TokenInv'
    OBVIOUS
  <2>5. CountInv'
    <3>1. PICK l \in Nat : l = Len(out) /\ rcvdBytes = l /\ out' = out
      OBVIOUS
    <3>2. cnt \in Int /\ rcvdBytes' = l + cnt /\ (rpc' = "detach" => rcvdBytes' = l)
      BY <3>1
    <3> QED BY <3>1, <3>2
  <2>2. cnt >= 0 /\ Pending /\ (wpc # "reserve" \/ cnt > 0)
    OBVIOUS
  <2>3. EofInv'
    BY <2>2
  <2>4. DataInv'
    BY <2>2
  <2> QED BY <2>1, <2>3, <2>4, <2>5
<1>17. CASE RWrite
  <2>1. /\ out' \in Seq(0..InputLen)
        /\ Len(out') = Len(out) + cnt
        /\ \A i \in 1..Len(out') : out'[i] = i
    BY <1>17, AppendBlock DEF RWrite
  <2> QED BY <1>17, <2>1 DEF RWrite
<1>18. CASE RWriteError
  <2> USE <1>18 DEF RWriteError
  <2>1. PICK k \in 0..cnt - 1 : out' = out \o [i \in 1..k |-> buf[i]]
    BY ZenonT(30)
  <2>2. /\ out' \in Seq(0..InputLen)
        /\ Len(out') = Len(out) + k
        /\ \A i \in 1..Len(out') : out'[i] = i
    <3>1. k \in 0..BufSize /\ \A i \in 1..k : buf[i] = Len(out) + i
      OBVIOUS
    <3> QED BY <2>1, <3>1, AppendBlock
  <2>3. TypeOK' /\ ControlInv' /\ TokenInv' /\ EofInv' /\ CountInv'
    BY <2>2
  <2>4. DataInv'
    BY <2>2
  <2> QED BY <2>3, <2>4
<1>19. CASE RRelease
  BY <1>19 DEF RRelease, releaseSem
<1>20. CASE RDetach
  BY <1>20 DEF RDetach
<1>21. CASE RLastRelease
  BY <1>21 DEF RLastRelease, releaseSem
<1>22. CASE UNCHANGED vars
  BY <1>22 DEF vars
<1> QED
  BY <1>1, <1>2, <1>3, <1>4, <1>5, <1>6, <1>7, <1>8, <1>9, <1>10, <1>11,
     <1>12, <1>13, <1>14, <1>15, <1>16, <1>17, <1>18, <1>19, <1>20, <1>21, <1>22, ZenonT(30)
     DEF Next, Writer, Reader

\* So does a kill, the start of the next pair, and that of its reader.
LEMMA RestartIInv == IInv /\ [RestartNext]_restartVars => IInv'
<1> SUFFICES ASSUME IInv, [RestartNext]_restartVars PROVE IInv'
  OBVIOUS
<1> USE DEF TypeOK, ControlInv, TokenInv, EofInv, DataInv, CountInv,
            BeforeShm, Attached, Arriving, InUse, WHolds, RHolds, Pending,
            Written, readerSawEof, WriterPc, ReaderPc, WRITE_SEM, READ_SEM, semVars,
            shmVars, writerVars, readerVars, WEnded, REnded
<1>1. CASE WStep \/ RStep \/ UNCHANGED restartVars
  BY <1>1, NextIInv DEF WStep, RStep, Next, restartVars
<1>2. CASE KillWriter
  <2> USE <1>2 DEF KillWriter, IInv
  <2>1. TypeOK' /\ ControlInv' /\ CountInv'
    OBVIOUS
  <2>2. TokenInv' /\ EofInv'
    OBVIOUS
  <2>3. DataInv'
    <3>1. /\ UNCHANGED <<out, pos, cnt, buf>> /\ (InUse' => InUse)
          /\ (BeforeShm' => BeforeShm) /\ (InUse' /\ Pending' => Pending)
      OBVIOUS
    <3>2. InUse' /\ ~Pending' /\ Written' => ~Pending /\ Written
      OBVIOUS
    <3> QED BY <3>1, <3>2, DataKept
  <2> QED BY <2>1, <2>2, <2>3
<1>3. CASE KillReader
  <2> USE <1>3 DEF KillReader, IInv
  <2>1. TypeOK' /\ ControlInv' /\ CountInv'
    OBVIOUS
  <2>2. TokenInv' /\ EofInv'
    OBVIOUS
  <2>3. DataInv'
    <3>1. /\ UNCHANGED <<out, pos, cnt, buf>> /\ (InUse' => InUse)
          /\ (BeforeShm' => BeforeShm) /\ (InUse' /\ Pending' => Pending)
      OBVIOUS
    <3>2. InUse' /\ ~Pending' /\ Written' => ~Pending /\ Written
      OBVIOUS
    <3> QED BY <3>1, <3>2, DataKept
  <2> QED BY <2>1, <2>2, <2>3
<1>4. CASE Restart
  <2> USE <1>4 DEF Restart, IInv
  <2>1. TypeOK' /\ ControlInv' /\ CountInv'
    OBVIOUS
  <2>2. TokenInv' /\ EofInv'
    OBVIOUS
  <2>3. DataInv'
    BY DataFresh
  <2> QED BY <2>1, <2>2, <2>3
<1>5. CASE StartReader
  BY <1>5 DEF StartReader, IInv
<1> QED BY <1>1, <1>2, <1>3, <1>4, <1>5 DEF RestartNext

\* The invariant holds in the pair that runs once.
THEOREM SpecIInv == Spec => []IInv
BY InitIInv, NextIInv, PTL DEF Spec

\* The invariant holds in a pair that is killed at any point, and in the pairs started after it,
\* which adopt the semaphores and the segment it left behind.
THEOREM RestartSpecIInv == RestartSpec => []IInv
<1>1. RestartInit => IInv
  BY InitIInv DEF RestartInit
<1> QED BY <1>1, RestartIInv, PTL DEF RestartSpec

\* Type correctness: the block count never exceeds the transfer buffer and the
\* semaphores of binary_sems.c stay binary, whatever read() returns and
\* whatever an earlier run left in them.
THEOREM TypeCorrect == RestartSpec => []TypeOK
BY RestartSpecIInv, PTL DEF IInv

\* The writer fills the segment and the reader empties it in mutual exclusion,
\* also when they adopted the semaphores of a killed pair.
THEOREM ExclusiveAccessHolds == RestartSpec => []ExclusiveAccess
<1>1. IInv => ExclusiveAccess
  BY DEF IInv, TypeOK, ControlInv, TokenInv, ExclusiveAccess, WriterInSegment,
         ReaderInSegment, WHolds, RHolds, BeforeShm, Attached, InUse
<1> QED BY <1>1, RestartSpecIInv, PTL

\* Writer and reader never wait for each other's turn at the same time.
THEOREM NoMutualWaitHolds == RestartSpec => []NoMutualWait
<1>1. IInv => NoMutualWait
  BY DEF IInv, TypeOK, ControlInv, TokenInv, NoMutualWait, WHolds, RHolds,
         BeforeShm, Attached, InUse, WRITE_SEM, READ_SEM
<1> QED BY <1>1, RestartSpecIInv, PTL

\* The IPC objects outlive every use an attached reader makes of them.
THEOREM ReaderKeepsIpcHolds == RestartSpec => []ReaderKeepsIpc
<1>1. IInv => ReaderKeepsIpc
  BY DEF IInv, ControlInv, ReaderKeepsIpc, Attached
<1> QED BY <1>1, RestartSpecIInv, PTL

\* The byte counts both programs print are the length of the input.
THEOREM CountsAgreeHolds == RestartSpec => []CountsAgree
<1>1. IInv => CountsAgree
  BY DEF IInv, TypeOK, ControlInv, TokenInv, EofInv, DataInv, CountInv,
         CountsAgree, Pending, Written, WHolds, RHolds, BeforeShm, InUse, readerSawEof,
         WRITE_SEM, READ_SEM
<1> QED BY <1>1, RestartSpecIInv, PTL

\* A sequence of n elements whose i-th element is i is the prefix of length n.
LEMMA PrefixExt ==
    ASSUME NEW s \in Seq(0..InputLen), \A i \in 1..Len(s) : s[i] = i
    PROVE  s = Stream!Prefix(Len(s))
<1>1. s = [i \in 1..Len(s) |-> s[i]]
  OBVIOUS
<1> QED BY <1>1 DEF Stream!Prefix

\* Every step of the pair is a step of the byte stream, or leaves it alone.
LEMMA StepRefines ==
    IInv /\ [Next]_vars => [Stream!Next]_(Stream!streamVars)
<1> SUFFICES ASSUME IInv, [Next]_vars
             PROVE  Stream!Next \/ UNCHANGED <<pos, out, readerSawEof>>
  BY DEF Stream!streamVars
<1> USE DEF semVars, shmVars, writerVars, readerVars
<1>0. ASSUME rpc \in {"test", "write"}
      PROVE  /\ out \in Seq(0..InputLen) /\ \A i \in 1..Len(out) : out[i] = i
             /\ buf \in [1..BufSize -> 0..InputLen]
             /\ cnt \in 0..BufSize /\ Len(out) + cnt = pos
             /\ \A i \in 1..cnt : buf[i] = Len(out) + i
             /\ cnt = 0 => pos = InputLen
             /\ rpc = "write" => cnt > 0
  <2>1. InUse /\ Pending
    BY <1>0 DEF IInv, ControlInv, BeforeShm, Attached, InUse, Pending
  <2> QED BY <1>0, <2>1 DEF IInv, TypeOK, DataInv, EofInv
<1>1. CASE WRead
  <2>1. pos \in 0..InputLen
    BY DEF IInv, TypeOK
  <2>2. PICK n \in 0..BufSize : pos + n <= InputLen /\ pos' = pos + n
    BY <1>1 DEF WRead
  <2>3. UNCHANGED <<out, rpc>>
    BY <1>1 DEF WRead
  <2>4. CASE n = 0
    BY <2>1, <2>2, <2>3, <2>4 DEF readerSawEof
  <2>5. CASE n > 0
    BY <2>1, <2>2, <2>3, <2>5 DEF Stream!Next, Stream!Send, readerSawEof
  <2> QED BY <2>4, <2>5
<1>2. CASE RTestEof
  <2>1. CASE cnt = 0
    <3>1. Len(out) = InputLen /\ out = Stream!Prefix(Len(out))
      BY <1>0, <1>2, <2>1, PrefixExt DEF RTestEof
    <3>2. ~readerSawEof /\ readerSawEof' /\ UNCHANGED <<pos, out>>
      BY <1>2, <2>1 DEF RTestEof, readerSawEof
    <3> QED BY <3>1, <3>2, ZenonT(30) DEF Stream!Next, Stream!End
  <2>2. CASE cnt # 0
    BY <1>2, <2>2 DEF RTestEof, readerSawEof
  <2> QED BY <2>1, <2>2
<1>3. CASE RWrite
  <2>1. cnt \in 1..BufSize /\ Len(out) + cnt = pos
    BY <1>0, <1>3 DEF RWrite
  <2>2. /\ out' \in Seq(0..InputLen)
        /\ Len(out') = Len(out) + cnt
        /\ \A i \in 1..Len(out') : out'[i] = i
    <3>1. out' = out \o [i \in 1..cnt |-> buf[i]] /\ rpc = "write"
      BY <1>3 DEF RWrite
    <3>2. /\ out \in Seq(0..InputLen) /\ \A i \in 1..Len(out) : out[i] = i
          /\ buf \in [1..BufSize -> 0..InputLen] /\ cnt \in 0..BufSize
          /\ \A i \in 1..cnt : buf[i] = Len(out) + i
      BY <1>0, <3>1
    <3> QED BY <3>1, <3>2, AppendBlock
  <2>3. out' = Stream!Prefix(Len(out) + cnt)
    BY <2>2, PrefixExt
  <2>4. Len(out) \in Nat
    BY DEF IInv, TypeOK
  <2>5. Len(out) + cnt \in Len(out) + 1 .. pos
    BY <2>1, <2>4
  <2>6. ~readerSawEof /\ UNCHANGED <<pos, readerSawEof>>
    BY <1>3 DEF RWrite, readerSawEof
  <2> QED BY <2>3, <2>5, <2>6 DEF Stream!Next, Stream!Deliver
<1>7. CASE RWriteError
  <2>1. PICK k \in 0..cnt - 1 : out' = out \o [i \in 1..k |-> buf[i]]
    BY <1>7 DEF RWriteError
  <2>2. cnt \in 1..BufSize /\ Len(out) + cnt = pos
    BY <1>0, <1>7 DEF RWriteError
  <2>3. /\ out' \in Seq(0..InputLen)
        /\ Len(out') = Len(out) + k
        /\ \A i \in 1..Len(out') : out'[i] = i
    <3>1. k \in 0..BufSize /\ rpc = "write"
      BY <1>7, <2>1, <2>2 DEF RWriteError
    <3>2. \A i \in 1..k : buf[i] = Len(out) + i
      BY <1>0, <2>2, <3>1
    <3>3. /\ out \in Seq(0..InputLen) /\ \A i \in 1..Len(out) : out[i] = i
          /\ buf \in [1..BufSize -> 0..InputLen]
      BY <1>0, <3>1
    <3> QED BY <2>1, <3>1, <3>2, <3>3, AppendBlock
  <2>4. out' = Stream!Prefix(Len(out) + k) /\ out = Stream!Prefix(Len(out))
    BY <2>3, PrefixExt DEF IInv, TypeOK, DataInv
  <2>5. Len(out) \in Nat
    BY DEF IInv, TypeOK
  <2>6. ~readerSawEof /\ UNCHANGED <<pos, readerSawEof>>
    BY <1>7 DEF RWriteError, readerSawEof
  <2>7. CASE k = 0
    BY <2>4, <2>5, <2>6, <2>7
  <2>8. CASE k > 0
    <3>1. Len(out) + k \in Len(out) + 1 .. pos
      BY <2>2, <2>5, <2>8
    <3> QED BY <2>4, <2>6, <3>1 DEF Stream!Next, Stream!Deliver
  <2> QED BY <2>7, <2>8
<1>4. CASE WSemget \/ WInitWriteSem \/ WInitReadSem \/ WShmget \/ WReserve
           \/ WReadError \/ WRelease \/ WTestEof \/ WLastReserve \/ WRemoveSem
           \/ WRemoveShm
  BY <1>4 DEF WSemget, WInitWriteSem, WInitReadSem, WShmget, WReserve,
       WReadError, WRelease, WTestEof, WLastReserve, WRemoveSem, WRemoveShm,
       readerSawEof
<1>5. CASE RSemget \/ RShmget \/ RReserve \/ RRelease
           \/ RDetach \/ RLastRelease
  BY <1>5 DEF RSemget, RShmget, RReserve, RRelease, RDetach,
       RLastRelease, readerSawEof
<1>6. CASE UNCHANGED vars
  BY <1>6 DEF vars, readerSawEof
<1> QED
  BY <1>1, <1>2, <1>3, <1>4, <1>5, <1>6, <1>7 DEF Next, Writer, Reader

\* The pair implements the byte stream: nothing is lost, repeated, reordered or
\* taken from a stale part of the buffer, for any split of the input by read().
THEOREM RefinesByteStream == Spec => StreamSpec
<1>1. Init => Stream!Init
  BY DEF Init, Stream!Init, readerSawEof
<1> QED BY <1>1, StepRefines, SpecIInv, PTL DEF Spec, StreamSpec, Stream!Spec

\* Every pair started after a kill implements it too, although it begins with
\* the semaphores, the count and the block that the killed pair left behind.
THEOREM RestartsRefineByteStream == RestartSpec => StreamAcrossRestarts
<1>1. RestartInit => Stream!Init
  BY DEF RestartInit, Init, Stream!Init, readerSawEof
<1>2. ASSUME IInv, [RestartNext]_restartVars
      PROVE  [[Stream!Next]_(Stream!streamVars) \/ KillReader \/ Restart]_restartVars
  <2>1. CASE WStep \/ RStep
    BY <1>2, <2>1, StepRefines DEF WStep, RStep, Next
  <2>2. CASE KillWriter \/ StartReader
    <3>1. UNCHANGED <<pos, out>> /\ (readerSawEof' <=> readerSawEof)
      BY <2>2 DEF KillWriter, StartReader, readerSawEof, writerVars, readerVars
    <3> QED BY <3>1, ZenonT(30) DEF Stream!streamVars
  <2> QED BY <1>2, <2>1, <2>2 DEF RestartNext
<1> QED BY <1>1, <1>2, RestartSpecIInv, PTL DEF RestartSpec, StreamAcrossRestarts
=============================================================================
