------------------------------ MODULE FileCopy ------------------------------
(***************************************************************************)
(* tlpi-solutions: writep() of mylib and the programs that copy with it:   *)
(* tee (ex04-1), cp (ex04-2) and the test of xwritev() and xreadv()        *)
(* (ex05-7); and atomic_append (ex05-3).                                   *)
(*                                                                         *)
(* read() and write() (external) may fail or handle only a part of what    *)
(* they are asked for, the latter where the initial state allows it.  Byte *)
(* k of the input is represented by k; Old is what a file held before.     *)
(***************************************************************************)
EXTENDS Processes, SequencesExt

CONSTANTS InputLen,     \* the number of bytes on the input of tee and cp
          IO_BUFF_SIZE,
          NUM_CHUNKS,   \* of the test of xwritev() and xreadv(),
          CHUNK_LEN,    \* and how long each is
          OldLen,       \* the number of bytes the file already has
          Count         \* atomic_append: Count[p], how many bytes process p writes

Main == 0
Old == 0

Bytes(n) == [k \in 1..n |-> k]
OldFile == [k \in 1..OldLen |-> Old]
Chunk(i) == SubSeq(Bytes(NUM_CHUNKS * CHUNK_LEN), (i - 1) * CHUNK_LEN + 1, i * CHUNK_LEN)

\* A file that is written at its end, or from the start over what it holds.
File(data, pos) == [data |-> data, pos |-> pos]

\* The output files as tee, tee -a and cp open them (the last without O_TRUNC),
\* and the temporary file of the test of xwritev() and xreadv().
TeeFiles(append_mode) ==
    <<File(<<>>, 0), IF append_mode THEN File(OldFile, OldLen) ELSE File(<<>>, 0)>>
CpFiles == <<File(OldFile, 0)>>
RwvFiles == <<File(<<>>, 0)>>

OpenFiles ==
    [tee |-> TeeFiles(FALSE), tee_a |-> TeeFiles(TRUE), cp |-> CpFiles, rwv |-> RwvFiles]

\* part: whether write() and read() may handle a part only.  buf, count and
\* total are those of writep(), fd the file it writes to; chunk and num_read
\* are the i and num_read of xwritev() and xreadv(), pieces counts the reads of
\* the chunk, most the highest such count.
Init ==
    \E kind \in DOMAIN OpenFiles, part \in [write : BOOLEAN, read : BOOLEAN] :
        /\ pc = [p \in {Main} |-> IF kind = "rwv" THEN "xwritev" ELSE "read"]
        /\ g = [kind |-> kind, part |-> part, in |-> Bytes(InputLen),
                out |-> OpenFiles[kind], buf |-> <<>>, count |-> 0, total |-> 0,
                fd |-> 1, chunk |-> 1, rbuff |-> [k \in 1..(NUM_CHUNKS * CHUNK_LEN) |-> Old],
                left |-> CHUNK_LEN, num_read |-> 0, pieces |-> 0, most |-> 0]

\* What a read() or write() of at most n bytes may return when it succeeds.
Handled(n, part) == IF part THEN 1..n ELSE {n}

Smaller(a, b) == IF a < b THEN a ELSE b

\* The loop of tee and cp tests for != 0 only: a failed read() is passed on to
\* writep() as a count of -1.
Read ==
    /\ At(Main, "read")
    /\ \E n \in {-1} \cup (IF g.in = <<>> THEN {0}
                           ELSE Handled(Smaller(IO_BUFF_SIZE, Len(g.in)), g.part.read)) :
        /\ Go(Main, "read", IF n = 0 THEN "exit" ELSE "write")
        /\ g' = IF n = -1 THEN [g EXCEPT !.count = -1, !.total = 0, !.fd = 1]
                ELSE [g EXCEPT !.in = SubSeq(@, n + 1, Len(@)), !.buf = SubSeq(g.in, 1, n),
                               !.count = n, !.total = 0, !.fd = 1]

XwritevNext ==
    /\ Go(Main, "xwritev", IF g.chunk <= NUM_CHUNKS THEN "write" ELSE "xreadv")
    /\ g' = IF g.chunk <= NUM_CHUNKS
            THEN [g EXCEPT !.buf = Chunk(g.chunk), !.count = CHUNK_LEN, !.total = 0]
            ELSE [g EXCEPT !.chunk = 1, !.out[1].pos = 0]      \* lseek() to the start

\* The file after data was written at its offset.
Written(file, data) ==
    File(SubSeq(file.data, 1, file.pos) \o data
         \o SubSeq(file.data, file.pos + Len(data) + 1, Len(file.data)),
         file.pos + Len(data))

\* Where the program goes on when writep() has returned its count.
AfterWritep ==
    IF g.kind = "rwv" THEN "xwritev" ELSE IF g.fd < Len(g.out) THEN "write" ELSE "read"

\* writep() after one round that wrote the first n bytes of buf.
Wrote(n, total) == [g EXCEPT !.out[g.fd] = Written(@, SubSeq(g.buf, 1, n)), !.total = total]

Writep_M ==
    /\ At(Main, "write") /\ g.total < g.count
    /\ \E n \in Handled(g.count - g.total, g.part.write) : g' = Wrote(n, g.count)
    /\ UNCHANGED pc

\* One round of the loop of writep(): every write() starts at buf.
Writep ==
    /\ At(Main, "write") /\ g.total < g.count
    /\ \E n \in Handled(g.count - g.total, g.part.write) : g' = Wrote(n, g.total + n)
    /\ UNCHANGED pc

\* write() fails; with the count -1, which is SIZE_MAX, it always does.
WritepFails ==
    /\ g.count = -1 \/ g.total < g.count
    /\ Go(Main, "write", "failed") /\ UNCHANGED g

WritepReturns ==
    /\ g.total = g.count
    /\ Go(Main, "write", AfterWritep)
    /\ g' = IF g.kind = "rwv" THEN [g EXCEPT !.chunk = @ + 1]
            ELSE IF g.fd < Len(g.out) THEN [g EXCEPT !.fd = @ + 1, !.total = 0] ELSE g

XreadvEnds == g.chunk > NUM_CHUNKS /\ Go(Main, "xreadv", "exit") /\ UNCHANGED g

Base == (g.chunk - 1) * CHUNK_LEN

\* The n bytes that are read go to (char *) base + num_read.
Store(n) == [k \in DOMAIN g.rbuff |->
                IF k - Base - g.num_read \in 1..n
                THEN g.out[1].data[g.out[1].pos + k - Base - g.num_read] ELSE g.rbuff[k]]

Refill(n) ==
    [g EXCEPT !.rbuff = Store(n), !.out[1].pos = @ + n,
              !.chunk = IF n = g.left THEN @ + 1 ELSE @,
              !.left = IF n = g.left THEN CHUNK_LEN ELSE @ - n,
              !.num_read = IF n = g.left THEN 0 ELSE n,
              !.pieces = IF n = g.left THEN 0 ELSE @ + 1,
              !.most = IF g.pieces + 1 > @ THEN g.pieces + 1 ELSE @]

\* One read() of xreadv() that returns data; num_read is the last count only.
Xreadv ==
    /\ At(Main, "xreadv") /\ g.chunk <= NUM_CHUNKS
    /\ \E n \in Handled(Smaller(g.left, Len(g.out[1].data) - g.out[1].pos), g.part.read) :
        g' = Refill(n)
    /\ UNCHANGED pc

\* read() fails.  The file is as long as all chunks: its end comes after the last one.
XreadvFails == g.chunk <= NUM_CHUNKS /\ Go(Main, "xreadv", "failed") /\ UNCHANGED g

Next ==
    \/ Read \/ XwritevNext \/ Writep \/ WritepFails \/ WritepReturns
    \/ XreadvEnds \/ Xreadv \/ XreadvFails

Settled == pc[Main] \in {"exit", "failed"}

\* What a copy of the input that overwrites what the file holds looks like.
Expected(file) == Written(file, Bytes(InputLen)).data

\* When a program ends well: each output of tee and cp has grown by the length of
\* the input (for cp: is at least as long), even where write() took only parts,
\* since the loop of writep() goes on until its counts add up.  Where every
\* write() takes all it is given they copy the input byte for byte however read()
\* cuts it, after (-a) or over what the file held, and never end well after a
\* read() that failed; and the test of xwritev() and xreadv() finds rbuff equal
\* to wbuff if no chunk comes in more than two reads.
CopiesRight ==
    /\ (At(Main, "exit") /\ g.kind # "rwv") =>
         \A f \in DOMAIN g.out :
            /\ Len(g.out[f].data) = Len(Expected(OpenFiles[g.kind][f]))
            /\ ~g.part.write => g.out[f].data = Expected(OpenFiles[g.kind][f])
    /\ (At(Main, "exit") /\ g.kind = "rwv" /\ ~g.part.write /\ g.most <= 2) =>
         g.rbuff = Bytes(NUM_CHUNKS * CHUNK_LEN)

\* mylib.h: writep() writes all count bytes.  When it has returned, the file
\* ends with the bytes of its buffer.
WritesAllBytes ==
    (At(Main, "write") /\ g.count > 0 /\ g.total = g.count) =>
        LET f == g.out[g.fd] IN SubSeq(f.data, f.pos - g.count + 1, f.pos) = g.buf

-----------------------------------------------------------------------------
(* ex05-3/atomic_append.c: several processes create or find one file and   *)
(* add bytes at its end, with O_APPEND or, given the argument x, with an   *)
(* lseek() to the end before each write().  All bytes are the same: the    *)
(* file is its length.                                                     *)

Procs == DOMAIN Count

\* Each process may have been given the x.
AppendInit ==
    \E x \in [Procs -> BOOLEAN] :
        /\ pc = [p \in Procs |-> "create"]
        /\ g = [x |-> x, exists |-> FALSE, size |-> 0, pos |-> [p \in Procs |-> 0],
                i |-> [p \in Procs |-> 0]]

\* Where the loop over count begins.
Loop(p) == IF g.x[p] THEN "lseek" ELSE "write"

Create_M(p) ==
    /\ ~g.exists /\ Go(p, "create", Loop(p))
    /\ g' = [g EXCEPT !.exists = TRUE]

\* open(O_CREAT | O_EXCL): only one process makes the file, the others fail with
\* EEXIST and open it without O_CREAT.
Create(p) ==
    \/ /\ ~g.exists /\ Go(p, "create", Loop(p))
       /\ g' = [g EXCEPT !.exists = TRUE]
    \/ g.exists /\ Go(p, "create", "open") /\ UNCHANGED g

Open(p) == Go(p, "open", Loop(p)) /\ UNCHANGED g

SeekEnd(p) == Go(p, "lseek", "write") /\ g' = [g EXCEPT !.pos[p] = g.size]

\* One byte at end, and on to the next round.
WriteAt(p, end) ==
    /\ Go(p, "write", IF g.i[p] + 1 = Count[p] THEN "exit" ELSE Loop(p))
    /\ g' = [g EXCEPT !.size = IF end + 1 > @ THEN end + 1 ELSE @, !.pos[p] = end + 1,
                      !.i[p] = @ + 1]

\* With O_APPEND the write() itself moves to the end.
Write(p) == WriteAt(p, IF g.x[p] THEN g.pos[p] ELSE g.size)

Appender(p) == Create(p) \/ Open(p) \/ SeekEnd(p) \/ Write(p)

Appended == \A p \in Procs : pc[p] = "exit"

WrittenBy(S) == MapThenSumSet(LAMBDA p : g.i[p], S)

\* No byte that was appended with O_APPEND is written over by another one that
\* was, whatever the processes do in between; and however the lseek() and the
\* write() of the processes with an x interleave with others, the file is never
\* longer than all that was written nor shorter than what one process wrote.
AppendsKept ==
    /\ \A p \in Procs : g.size >= g.i[p]
    /\ g.size >= WrittenBy({p \in Procs : ~g.x[p]})
    /\ g.size <= WrittenBy(Procs)
    /\ (\A p \in Procs : ~g.x[p]) => g.size = WrittenBy(Procs)
=============================================================================
