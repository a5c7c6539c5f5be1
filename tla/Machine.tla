------------------------------ MODULE Machine -------------------------------
(***************************************************************************)
(* The rest of the kernel, and the kernel and a program as one system.     *)
(* External to the repository, like module Kernel.                         *)
(***************************************************************************)
EXTENDS Kernel, FiniteSetsExt

-----------------------------------------------------------------------------
(* Descriptors and what they refer to: pipes, files, sockets, terminals.   *)
(*                                                                         *)
(* A descriptor [in, out, cloexec] names the objects it reads from and     *)
(* writes to: two ends of a pipe name the same object, a connected socket  *)
(* names two, an open file names its open file description.  An object     *)
(* with a path or an address has the key <<0, path>>, or <<p, path>> when  *)
(* the name holds the process ID; another one has <<k, "">>.               *)

CONSTANT PipeBuf    \* the capacity of a pipe or of a socket's buffer

NoObj  == <<0, "">>
New(k) == <<Cardinality({x \in DOMAIN obj : x[2] = ""}) + k, "">>
\* fresh: not yet opened at its writing end; own: the process told by SIGIO; pty:
\* of a pseudoterminal, which takes input that nobody reads.
Stream == [kind |-> "stream", q |-> <<>>, shut |-> FALSE, fresh |-> FALSE, own |-> 0, pty |-> FALSE]
\* A queue of connections or of messages; conn: of (the messages of) connections.
Queue(kind, conn) == [kind |-> kind, q |-> <<>>, conn |-> conn]
Desc(i, o) == [in |-> i, out |-> o, cloexec |-> FALSE]

Fds(p)    == fdt[ps[p].fd]
HasFd(p, fd) == fd \in DOMAIN Fds(p)
SetFd(p, fd, d) == [fdt EXCEPT ![ps[p].fd] = (fd :> d) @@ @]

\* The descriptors that keep an object open: those of the live processes, and
\* those in the queue of a listening socket or in a message not yet received.
Queued(o) == CASE o.kind = "listen" -> ToSet(o.q)
               [] o.kind = "dgram" -> UNION {ToSet(m.fds) : m \in ToSet(o.q)}
               [] OTHER -> {}
\* Somebody can read (end "in") or write (end "out") the object k.
Used(k, end) ==
    \E p \in Pids : Alive(p) /\ \E fd \in DOMAIN Fds(p) :
        LET d == Fds(p)[fd]
        IN  d[end] = k \/ \E x \in Queued(obj[d.in]) : x[end] = k
AtEof(k)   == obj[k].shut \/ (~obj[k].fresh /\ ~Used(k, "out"))

\* A read of k would not block.
Readable(k) == CASE obj[k].kind = "stream" -> obj[k].q # <<>> \/ AtEof(k)
                 [] obj[k].kind = "listen" -> obj[k].q # <<>>
                 [] obj[k].kind = "dgram" -> obj[k].q # <<>> \/ (obj[k].conn /\ ~Used(k, "out"))
                 [] OTHER -> TRUE

\* The count or offset of a call: a constant, or the value of the variable w.
Amount(p, i) == IF i.w = "" THEN i.n ELSE Val(p, i.w)

Descriptors(p, i) ==
    \/ /\ i.op = "pipe"
       /\ obj' = (New(1) :> Stream) @@ obj
       /\ fdt' = [fdt EXCEPT ![ps[p].fd] = (i.in :> Desc(New(1), NoObj)) @@
                                           (i.out :> Desc(NoObj, New(1))) @@ @]
    \/ /\ i.op = "open"
       /\ LET ino  == <<0, i.name>>
              old  == ino \in DOMAIN obj
              file == [kind |-> "file", data |-> IF old /\ "trunc" \notin i.flags THEN obj[ino].data ELSE <<>>,
                       locks |-> IF old THEN obj[ino].locks ELSE {}]
          IN  /\ obj' = (New(1) :> [kind |-> "open", ino |-> ino, off |-> 0, flags |-> i.flags])
                          @@ (ino :> file) @@ obj
              /\ fdt' = SetFd(p, i.fd, Desc(New(1), New(1)))
    \/ /\ i.op \in {"lseek", "setfl"}
       /\ LET k == Fds(p)[i.fd].in
          IN  obj' = IF i.op = "lseek" THEN [obj EXCEPT ![k].off = Amount(p, i)]
                     ELSE [obj EXCEPT ![k].flags = i.flags]
       /\ UNCHANGED fdt
    \/ /\ i.op = "closeall"
       /\ fdt' = [fdt EXCEPT ![ps[p].fd] = <<>>] /\ UNCHANGED obj
    \/ /\ i.op = "dup2"
       /\ fdt' = SetFd(p, i.to, [Fds(p)[i.fd] EXCEPT !.cloexec = FALSE])
       /\ UNCHANGED obj
    \/ /\ i.op = "cloexec"
       /\ fdt' = SetFd(p, i.fd, [Fds(p)[i.fd] EXCEPT !.cloexec = TRUE])
       /\ UNCHANGED obj
    \/ /\ i.op = "async"
       /\ obj' = [obj EXCEPT ![Fds(p)[i.fd].in].own = p] /\ UNCHANGED fdt
    \/ /\ i.op = "ptmx"
       /\ obj' = (<<0, "pts">> :> [Stream EXCEPT !.fresh = TRUE, !.pty = TRUE])
                    @@ (<<0, "ptm">> :> [Stream EXCEPT !.pty = TRUE]) @@ obj
       /\ fdt' = SetFd(p, i.fd, Desc(<<0, "pts">>, <<0, "ptm">>))
    \/ /\ i.op = "pts"
       /\ obj' = [obj EXCEPT ![<<0, "pts">>].fresh = FALSE]
       /\ fdt' = SetFd(p, i.fd, Desc(<<0, "ptm">>, <<0, "pts">>))

Asks(p, i) ==
    \/ /\ i.op = "close"
       /\ mem' = Assign(p, i.r, IF HasFd(p, i.fd) THEN 0 ELSE EBADF)
       /\ fdt' = [fdt EXCEPT ![ps[p].fd] = [x \in DOMAIN @ \ {i.fd} |-> @[x]]]
    \/ /\ i.op = "getfl"
       /\ LET o == obj[Fds(p)[i.fd].in]
          IN  mem' = Assign(p, i.v, <<o.off, o.flags>>)
       /\ UNCHANGED fdt

\* v := data, the result := n, and go on.
Gives(p, i, v, data, n) ==
    /\ mem' = [Assign(p, Result(i), n) EXCEPT
                 ![ps[p].mm] = IF v = "" THEN @ ELSE (v :> data) @@ @]
    /\ ps' = Adv(ps, p)

-----------------------------------------------------------------------------
(* read() and write().                                                     *)

Reads(p, i) ==
    /\ i.op = "read"
    /\ \/ /\ ~HasFd(p, i.fd)
          /\ Gives(p, i, "", 0, EBADF) /\ UNCHANGED obj
       \/ /\ HasFd(p, i.fd)
          /\ LET k    == Fds(p)[i.fd].in
                 file == obj[k].kind = "open"
                 q    == IF file THEN LET d == obj[obj[k].ino].data IN SubSeq(d, obj[k].off + 1, Len(d))
                         ELSE obj[k].q
                 n    == IF Amount(p, i) < Len(q) THEN Amount(p, i) ELSE Len(q)
             IN  \/ /\ Readable(k)
                    /\ Gives(p, i, i.v, SubSeq(q, 1, n), n)
                    /\ obj' = IF file THEN [obj EXCEPT ![k].off = @ + n]
                              ELSE [obj EXCEPT ![k].q = SubSeq(@, n + 1, Len(@))]
                 \/ /\ ~Readable(k) /\ i.nb
                    /\ Gives(p, i, "", 0, EAGAIN) /\ UNCHANGED obj

\* The bytes x written through the open file description k.
Stored(k, x) ==
    LET data == obj[obj[k].ino].data
        from == IF "append" \in obj[k].flags THEN Len(data) ELSE obj[k].off
        end  == from + Len(x)
        Byte(j) == IF j \in (from + 1) .. end THEN x[j - from]
                   ELSE IF j <= Len(data) THEN data[j] ELSE 0
    IN  [obj EXCEPT ![k].off = end,
                    ![obj[k].ino].data = [j \in 1 .. (IF Len(data) > end THEN Len(data) ELSE end)
                                            |-> Byte(j)]]

\* Input for k makes it ready anew in the edge-triggered epoll sets.
Armed(O, k) == [x \in DOMAIN O |-> IF O[x].kind = "epoll" /\ O[x].key = k
                                   THEN [O[x] EXCEPT !.armed = TRUE] ELSE O[x]]

NoReader(k) == ~Used(k, "in") /\ ~obj[k].pty
\* How much of x a write to the stream o may transfer.
Sizes(i, o, x) == {n \in (IF i.part THEN 1 ELSE Len(x)) .. Len(x) : Len(o.q) + n <= PipeBuf}

Writes(p, i) ==
    /\ i.op = "write"
    /\ LET k == IF HasFd(p, i.fd) THEN Fds(p)[i.fd].out ELSE NoObj
           o == obj[k]
           x == Val(p, i.v)
       IN  \/ /\ ~HasFd(p, i.fd)
              /\ Gives(p, i, "", 0, EBADF) /\ UNCHANGED obj
           \/ /\ o.kind = "open"
              /\ Gives(p, i, "", 0, Len(x))
              /\ obj' = Stored(k, x)
           \/ /\ HasFd(p, i.fd) /\ o.kind = "stream" /\ NoReader(k)
              /\ ps' = [ps EXCEPT ![p] = Gets(Past(@), "PIPE", 0)]
              /\ mem' = Assign(p, i.r, EPIPE) /\ UNCHANGED obj
           \/ /\ HasFd(p, i.fd) /\ o.kind = "stream" /\ ~NoReader(k)
              /\ \E n \in Sizes(i, o, x) :
                   /\ mem' = Assign(p, i.r, n)
                   /\ obj' = Armed([obj EXCEPT ![k].q = @ \o SubSeq(x, 1, n)], k)
              /\ ps' = SendTo(Adv(ps, p), {o.own} \cap Pids, "IO", 0)
           \/ /\ HasFd(p, i.fd) /\ o.kind = "stream" /\ ~NoReader(k) /\ Sizes(i, o, x) = {} /\ i.nb
              /\ Gives(p, i, "", 0, EAGAIN) /\ UNCHANGED obj

-----------------------------------------------------------------------------
(* Sockets.  A connection is two streams; the server's end of it waits in  *)
(* the queue of the listening socket until it is accepted.                 *)

Named(i)   == <<0, i.name>>
Opened(k, kind) == k \in DOMAIN obj /\ obj[k].kind = kind /\ Used(k, "in")

Stream_sockets(p, i) ==
    \/ /\ i.op = "listen"
       /\ IF Opened(Named(i), "listen")
          THEN Gives(p, i, "", 0, EADDRINUSE) /\ UNCHANGED <<fdt, obj>>
          ELSE /\ Gives(p, i, "", 0, 0)
               /\ obj' = (Named(i) :> Queue("listen", i.msgs)) @@ obj
               /\ fdt' = SetFd(p, i.fd, Desc(Named(i), NoObj))
    \/ /\ i.op = "connect"
       /\ IF ~Opened(Named(i), "listen")
          THEN Gives(p, i, "", 0, ECONNREFUSED) /\ UNCHANGED <<fdt, obj>>
          ELSE /\ Gives(p, i, "", 0, 0)
               /\ obj' = [k \in {New(1), New(2)} |->
                             IF obj[Named(i)].conn THEN Queue("dgram", TRUE) ELSE Stream]
                           @@ [obj EXCEPT ![Named(i)].q = Append(@, Desc(New(1), New(2)))]
               /\ fdt' = SetFd(p, i.fd, Desc(New(2), New(1)))
    \/ /\ i.op = "accept"
       /\ LET k == Fds(p)[i.fd].in
          IN  /\ obj[k].q # <<>>
              /\ Gives(p, i, "", 0, 0)
              /\ fdt' = SetFd(p, i.to, Head(obj[k].q))
              /\ obj' = [obj EXCEPT ![k].q = Tail(@)]
    \/ /\ i.op = "shutdown"
       /\ obj' = [obj EXCEPT ![Fds(p)[i.fd].out].shut = TRUE]
       /\ ps' = Adv(ps, p) /\ UNCHANGED <<mem, fdt>>

\* Datagrams (and the one message of the programs that pass descriptors).  A
\* datagram for nobody, or for a full socket, is lost where the protocol may
\* lose it, and so may any other be; elsewhere the sender waits or fails.
Target(p, i) == IF i.w = "" THEN Fds(p)[i.fd].out ELSE Val(p, i.w)
Datagrams(p, i) ==
    \/ /\ i.op = "bind"
       /\ LET k == <<IF i.own THEN p ELSE 0, i.name>>
          IN  /\ obj' = (k :> Queue("dgram", FALSE)) @@ obj
              /\ fdt' = SetFd(p, i.fd, Desc(k, NoObj))
       /\ ps' = Adv(ps, p) /\ UNCHANGED mem
    \/ /\ i.op = "send"
       /\ LET k == Target(p, i)
              m == [from |-> Fds(p)[i.fd].in, pid |-> p, data |-> Val(p, i.v),
                    fds |-> [j \in DOMAIN i.fds |-> Fds(p)[i.fds[j]]]]
          IN  \/ /\ Opened(k, "dgram") /\ Len(obj[k].q) < PipeBuf
                 /\ obj' = [obj EXCEPT ![k].q = Append(@, m)]
                 /\ Gives(p, i, "", 0, Len(m.data))
              \/ /\ i.lossy
                 /\ Gives(p, i, "", 0, Len(m.data)) /\ UNCHANGED obj
              \/ /\ ~i.lossy /\ ~Opened(k, "dgram")
                 /\ Gives(p, i, "", 0, ECONNREFUSED) /\ UNCHANGED obj
       /\ UNCHANGED fdt
    \/ /\ i.op = "recv"
       /\ LET k == Fds(p)[i.fd].in
              m == Head(obj[k].q)
          IN  \/ /\ obj[k].q # <<>>
                 /\ obj' = [obj EXCEPT ![k].q = Tail(@)]
                 /\ fdt' = [fdt EXCEPT ![ps[p].fd] =
                              [x \in {i.fds[j] : j \in DOMAIN i.fds} |->
                                 m.fds[CHOOSE j \in DOMAIN i.fds : i.fds[j] = x]] @@ @]
                 /\ mem' = [Assign(p, i.v, m.data) EXCEPT
                              ![ps[p].mm] = (i.r :> Len(m.data)) @@ (i.from :> m.from)
                                              @@ ("cred" :> m.pid) @@ @]
                 /\ ps' = Adv(ps, p)
              \/ /\ obj[k].q = <<>> /\ Readable(k)
                 /\ Gives(p, i, "", 0, 0) /\ UNCHANGED <<fdt, obj>>

-----------------------------------------------------------------------------
(* select(), poll(), epoll.                                                *)

\* The descriptors watched: a constant set, or the value of the variable w.
Watched(p, i) == IF i.w = "" THEN i.S ELSE Val(p, i.w)
ReadyFds(p, i) == {fd \in Watched(p, i) \cap DOMAIN Fds(p) : Readable(Fds(p)[fd].in)}
Epfd(p, i) == Fds(p)[i.epfd].in

Selects(p, i) ==
    \/ /\ i.op = "select"
       /\ LET rdy == ReadyFds(p, i)
          IN  \/ rdy # {} /\ Gives(p, i, i.v, rdy, Cardinality(rdy))
              \/ i.timed /\ rdy = {} /\ Gives(p, i, i.v, {}, 0)
       /\ UNCHANGED <<fdt, obj>>
    \/ /\ i.op = "epoll"
       /\ LET k == Fds(p)[i.fd].in
          IN  obj' = (New(1) :> [kind |-> "epoll", key |-> k, armed |-> Readable(k)]) @@ obj
       /\ fdt' = SetFd(p, i.epfd, Desc(New(1), NoObj))
       /\ ps' = Adv(ps, p) /\ UNCHANGED mem
    \/ /\ i.op = "epollet"
       /\ obj[Epfd(p, i)].armed
       /\ Gives(p, i, i.v, {obj[Epfd(p, i)].key}, 1)
       /\ obj' = [obj EXCEPT ![Epfd(p, i)].armed = FALSE] /\ UNCHANGED fdt

IO(p, i) ==
    \/ Descriptors(p, i) /\ ps' = Adv(ps, p) /\ UNCHANGED <<mem, out>>
    \/ Asks(p, i) /\ ps' = Adv(ps, p) /\ UNCHANGED <<obj, out>>
    \/ (Reads(p, i) \/ Writes(p, i)) /\ UNCHANGED <<fdt, out>>
    \/ (Stream_sockets(p, i) \/ Datagrams(p, i) \/ Selects(p, i)) /\ UNCHANGED out

\* A process inside one of these calls can leave it.
IOReady(p, i) ==
    CASE i.op = "read" -> ~HasFd(p, i.fd) \/ Readable(Fds(p)[i.fd].in)
      [] i.op = "write" -> ~HasFd(p, i.fd) \/
             LET k == Fds(p)[i.fd].out
             IN  obj[k].kind = "open" \/ NoReader(k) \/ Sizes(i, obj[k], Val(p, i.v)) # {}
      [] i.op \in {"accept", "recv"} -> Readable(Fds(p)[i.fd].in)
      [] i.op = "send" -> i.lossy \/ ~Opened(Target(p, i), "dgram") \/ Len(obj[Target(p, i)].q) < PipeBuf
      [] i.op = "select" -> i.timed \/ ReadyFds(p, i) # {}
      [] i.op = "epollet" -> obj[Epfd(p, i)].armed

-----------------------------------------------------------------------------
(* System V and POSIX semaphores, message queues and shared memory, and    *)
(* the locks on files.                                                     *)
(*                                                                         *)
(* What the kernel undoes when a process ends is computed instead of       *)
(* stored: a lock counts while its owner exists, and a semaphore's value   *)
(* includes the adjustments (SEM_UNDO) of the processes that have ended.   *)

Exists(i) == Named(i) \in DOMAIN obj /\ obj[Named(i)].kind # "removed"
It(i)     == obj[Named(i)]
Linked(i) == Exists(i) /\ "unlinked" \notin DOMAIN It(i)

\* xxxget() and xxx_open() with IPC_CREAT, and the removal of the object.
Objects(p, i) ==
    \/ /\ i.op = "get"
       /\ LET e == Linked(i)
          IN  /\ Gives(p, i, "", 0, CASE e /\ i.mode = "excl" -> EEXIST
                                     [] ~e /\ i.mode = "open" -> ENOENT
                                     [] OTHER -> 0)
              /\ obj' = IF e \/ i.mode = "open" THEN obj ELSE (Named(i) :> i.o) @@ obj
    \/ /\ i.op = "unlink"
       /\ Gives(p, i, "", 0, IF Linked(i) THEN 0 ELSE ENOENT)
       /\ obj' = IF ~Linked(i) THEN obj
                 ELSE (Named(i) :> IF i.keep THEN It(i) @@ [unlinked |-> TRUE] ELSE [kind |-> "removed"]) @@ obj

-----------------------------------------------------------------------------
Ended(adj) == {p \in DOMAIN adj : ~Alive(p)}
SemVals(o) == [j \in DOMAIN o.vals |->
                 o.vals[j] + FoldSet(LAMBDA p, n : n + o.adj[p][j], 0, Ended(o.adj))]

\* The values after the operations ops, applied in order and all or none; the
\* empty sequence when one of them must wait.
Applied(vals, ops) ==
    FoldLeft(LAMBDA w, x :
               IF w = <<>> \/ (x.n = 0 /\ w[x.j] # 0) \/ w[x.j] + x.n < 0 THEN <<>>
               ELSE [w EXCEPT ![x.j] = @ + x.n],
             vals, ops)
Undone(o, p, ops) ==
    LET mine == IF p \in DOMAIN o.adj THEN o.adj[p] ELSE [j \in DOMAIN o.vals |-> 0]
    IN  FoldLeft(LAMBDA a, x : IF x.undo THEN [a EXCEPT ![x.j] = @ - x.n] ELSE a, mine, ops)

SemReady(p, i) == ~Exists(i) \/ i.timed \/ Applied(SemVals(It(i)), i.ops) # <<>>

Semaphores(p, i) ==
    \/ /\ i.op = "semop"
       /\ IF ~Exists(i) THEN Gives(p, i, "", 0, EIDRM) /\ UNCHANGED obj
          ELSE LET o    == It(i)
                   w    == Applied(SemVals(o), i.ops)
                   gone == [q \in DOMAIN o.adj \ Ended(o.adj) |-> o.adj[q]]
                   mine == IF \E k \in DOMAIN i.ops : i.ops[k].undo
                           THEN (p :> Undone(o, p, i.ops)) @@ gone ELSE gone
               IN  \/ /\ w # <<>>
                      /\ obj' = [obj EXCEPT ![Named(i)] = [@ EXCEPT !.vals = w, !.adj = mine, !.n = p]]
                      /\ Gives(p, i, "", 0, 0)
                   \/ /\ w = <<>> /\ (i.nb \/ i.timed)
                      /\ Gives(p, i, "", 0, EAGAIN) /\ UNCHANGED obj
    \/ /\ i.op = "semset"
       /\ obj' = IF Exists(i) THEN [obj EXCEPT ![Named(i)] = [@ EXCEPT !.vals = i.vals, !.adj = <<>>]] ELSE obj
       /\ ps' = Adv(ps, p) /\ UNCHANGED mem
    \/ /\ i.op = "semget"
       /\ mem' = Assign(p, i.v, SemVals(It(i))) /\ ps' = Adv(ps, p) /\ UNCHANGED obj

-----------------------------------------------------------------------------
\* The places in queue q of the message that a receiver takes.
Choice(q, i) ==
    LET T(k)  == q[k].type
        first == IF q = <<>> THEN {} ELSE {1}
        Least(S) == {k \in S : \A j \in S : k <= j}
        typed == {k \in DOMAIN q : T(k) = i.n}
        low   == {k \in DOMAIN q : T(k) <= i.n /\ \A j \in DOMAIN q : T(k) <= T(j)}
        high  == {k \in DOMAIN q : \A j \in DOMAIN q : T(j) <= T(k)}
    IN  CASE i.which = "first" -> first
          [] i.which = "type" -> Least(typed)
          [] i.which = "upto" -> Least(low)
          [] i.which = "except" -> Least(DOMAIN q \ typed)
          [] i.which = "prio" -> Least(high)

MsgReady(p, i) == ~Exists(i) \/ (IF i.op = "msgsnd" THEN Len(It(i).q) < It(i).max
                                 ELSE Choice(It(i).q, i) # {})

Messages(p, i) ==
    /\ i.op \in {"msgsnd", "msgrcv"}
    /\ \/ /\ ~Exists(i)
          /\ Gives(p, i, "", 0, EIDRM) /\ UNCHANGED obj
       \/ /\ Exists(i) /\ ~MsgReady(p, i) /\ i.nb
          /\ Gives(p, i, "", 0, EAGAIN) /\ UNCHANGED obj
       \/ /\ i.op = "msgsnd" /\ Exists(i) /\ MsgReady(p, i)
          /\ obj' = [obj EXCEPT ![Named(i)].q = Append(@, [type |-> i.type, data |-> Val(p, i.v)])]
          /\ Gives(p, i, "", 0, 0)
       \/ /\ i.op = "msgrcv" /\ Exists(i)
          /\ \E k \in Choice(It(i).q, i) :
               /\ Gives(p, i, i.v, It(i).q[k], 0)
               /\ obj' = [obj EXCEPT ![Named(i)].q = RemoveAt(@, k)]

-----------------------------------------------------------------------------
\* Shared memory: a mapping of the object.
Mappings(p, i) ==
    \/ /\ i.op = "load"
       /\ IF Exists(i) THEN Gives(p, i, i.v, It(i).data, 0) ELSE Gives(p, i, "", 0, ENOENT)
       /\ UNCHANGED obj
    \/ /\ i.op = "store"
       /\ IF Exists(i) THEN Gives(p, i, "", 0, 0) /\ obj' = [obj EXCEPT ![Named(i)].data = Val(p, i.v)]
          ELSE Gives(p, i, "", 0, ENOENT) /\ UNCHANGED obj
    \/ /\ i.op = "trunc"
       /\ obj' = [obj EXCEPT ![Named(i)].data = [j \in 1 .. i.n |-> IF j <= Len(@) THEN @[j] ELSE 0]]
       /\ ps' = Adv(ps, p) /\ UNCHANGED mem
    \/ /\ i.op = "qbytes"
       /\ obj' = IF Exists(i) THEN [obj EXCEPT ![Named(i)].max = i.n] ELSE obj
       /\ ps' = Adv(ps, p) /\ UNCHANGED mem

-----------------------------------------------------------------------------
(* Locks.                                                                  *)

File(p, i)  == obj[Fds(p)[i.fd].in].ino
Owner(p, i) == IF i.who = "posix" THEN <<p, "">> ELSE <<Fds(p)[i.fd].in[1], "ofd">>
\* Held by an owner that still exists.
Valid(k)    == IF k.own[2] = "" THEN Alive(k.own[1]) ELSE Used(<<k.own[1], "">>, "in")
Locks(p, i) == {k \in obj[File(p, i)].locks : Valid(k)}
Meets(k, i) == k.lo <= i.hi /\ i.lo <= k.hi
Conflicts(p, i) == {k \in Locks(p, i) : /\ Meets(k, i) /\ k.own # Owner(p, i)
                                        /\ i.type # "u" /\ (i.type = "w" \/ k.type = "w")}
\* The owner's locks after the call: what i covers is cut out of the old ones.
Placed(p, i) ==
    LET old  == {k \in Locks(p, i) : k.own = Owner(p, i) /\ Meets(k, i)}
        cut  == {[k EXCEPT !.hi = i.lo - 1] : k \in {x \in old : x.lo < i.lo}}
                  \cup {[k EXCEPT !.lo = i.hi + 1] : k \in {x \in old : x.hi > i.hi}}
        new  == IF i.type = "u" THEN {}
                ELSE {[own |-> Owner(p, i), type |-> i.type, lo |-> i.lo, hi |-> i.hi]}
    IN  (Locks(p, i) \ old) \cup cut \cup new

\* The processes that a process inside a waiting lock call waits for.
Blocker(p) == IF ps[p].in /\ At(p).op = "lock" /\ At(p).who = "posix"
              THEN {k.own[1] : k \in Conflicts(p, At(p))} ELSE {}
\* Waiting for the holders S would close a cycle.
Cycle(p, S) ==
    LET two == UNION {Blocker(q) : q \in S}
    IN  p \in two \/ p \in UNION {Blocker(q) : q \in two}
Deadlock(p, i) == i.who = "posix" /\ Cycle(p, {k.own[1] : k \in Conflicts(p, i)})

LockReady(p, i) == Conflicts(p, i) = {} \/ Deadlock(p, i)

Locking(p, i) ==
    \/ /\ i.op = "lock"
       /\ \/ /\ Conflicts(p, i) = {}
             /\ obj' = [obj EXCEPT ![File(p, i)].locks = Placed(p, i)]
             /\ Gives(p, i, "", 0, 0)
          \/ /\ Conflicts(p, i) # {} /\ (i.nb \/ Deadlock(p, i))
             /\ Gives(p, i, "", 0, IF i.nb THEN EAGAIN ELSE EDEADLK) /\ UNCHANGED obj
    \/ /\ i.op = "getlk"
       /\ mem' = Assign(p, i.v, {k.own[1] : k \in Conflicts(p, i)})
       /\ ps' = Adv(ps, p) /\ UNCHANGED obj

Ipc(p, i) == (Objects(p, i) \/ Semaphores(p, i) \/ Messages(p, i) \/ Mappings(p, i)
                \/ Locking(p, i)) /\ UNCHANGED <<fdt, out>>

\* A process inside one of these calls can leave it.
IpcReady(p, i) ==
    CASE i.op = "semop" -> SemReady(p, i)
      [] i.op \in {"msgsnd", "msgrcv"} -> MsgReady(p, i)
      [] i.op = "lock" -> LockReady(p, i)

-----------------------------------------------------------------------------
(* The kernel and a program as one system: what a process may do next, the *)
(* fairness of the scheduler, and the initial state.                       *)

LocalOps == {"say", "show", "set", "add", "plus", "copy", "calc", "clear", "goto", "if", "ifvar", "either"}
ProcessOps == {"fork", "vfork", "clone", "exit", "exec", "wait", "setsid", "setpgid", "pdeathsig", "subreaper", "umask",
               "chdir", "kill", "killpg", "sigaction", "putaction", "getaction", "mask", "return", "setjmp", "longjmp",
               "sleep", "sigwait", "sigpending", "timer"}
IOCalls  == {"read", "write", "accept", "send", "recv", "select", "epollet"}
IpcCalls == {"semop", "msgsnd", "msgrcv", "lock"}
Blocking == {"pause", "sigsuspend", "sleep", "sigwait", "wait"} \cup IOCalls \cup IpcCalls
\* A call that may block is entered first, unless it is told not to block.
Blocks(i) == /\ i.op \in Blocking
             /\ ~("nb" \in DOMAIN i /\ i.nb)
             /\ ~("opts" \in DOMAIN i /\ "nohang" \in i.opts)

\* A process inside a blocking call can leave it; one about to fork can.
Ready(p, i) ==
    CASE ~Blocks(i) \/ ~ps[p].in -> i.op \in {"fork", "vfork", "clone"} => \E q \in Pids : ps[q].st = "none"
      [] i.op = "sleep" -> TRUE
      [] i.op \in {"pause", "sigsuspend"} -> FALSE
      [] i.op = "sigwait" -> \E k \in DOMAIN ps[p].pend : ps[p].pend[k].s \in i.S
      [] i.op = "wait" -> LET kids == Kids(p, i) IN kids = {} \/ Heard(p, i, kids) # {}
      [] i.op \in IOCalls -> IOReady(p, i)
      [] i.op \in IpcCalls -> IpcReady(p, i)

Able(p) == Runnable(p) /\ Ready(p, At(p))

\* The next step of p, which is able to take it.
Step(p) ==
    /\ LET i == At(p)
       IN  IF Blocks(i) /\ ~ps[p].in
           THEN Enters(p, i)
           ELSE CASE i.op \in LocalOps -> Local(p, i) /\ UNCHANGED <<fdt, obj>>
                  [] i.op \in ProcessOps -> (Process(p, i) \/ Signal(p, i)) /\ UNCHANGED obj
                  [] OTHER -> IO(p, i) \/ Ipc(p, i)
    /\ UNCHANGED prog

\* Steps that commute with all the others: local computation, or the entry into
\* a call, of a process that handles no signal and shares its memory with no
\* other.  They are taken first, which leaves out equivalent interleavings.
Private == {"set", "add", "plus", "calc", "copy", "goto", "if", "ifvar", "either"}
Alone(p) == /\ \A s \in DOMAIN ps[p].disp : ps[p].disp[s].h \in {"DFL", "IGN"}
            /\ \A q \in Pids : q # p /\ Alive(q) => ps[q].mm # ps[p].mm
Quiet(p, i) == \/ i.op \in Private /\ ~(i.op = "copy" /\ i.w = "parent")
               \/ Blocks(i) /\ ~ps[p].in /\ i.op \notin {"lock", "sigsuspend"}
Urgent(p) == Alive(p) /\ Quiet(p, At(p)) /\ Alone(p) /\ Able(p)
Calm      == \A p \in Pids : ~Urgent(p)
Movers    == IF Calm THEN {p \in Pids : Able(p)}
             ELSE {CHOOSE p \in Pids : Urgent(p) /\ \A q \in 1 .. (p - 1) : ~Urgent(q)}

Next == \/ \E p \in Movers : Step(p)
        \/ Calm /\ \E p \in Live : Deliver(p) \/ Expire(p)

\* A process reads the terminal, on which the user (block "user") types.
Tty    == <<0, "tty">>
Stdio(p) ==
    CASE ~Alive(p) -> <<>>
      [] Alive(p) /\ ps[p].at[1] = "user" -> [tty |-> Desc(NoObj, Tty)]
      [] OTHER -> [stdin |-> Desc(Tty, NoObj), stdout |-> Desc(NoObj, NoObj)]
InitIO == Init /\ fdt = [p \in Pids |-> Stdio(p)] /\ obj = (NoObj :> Stream) @@ (Tty :> Stream)

\* Weak fairness of every process's own steps, of the delivery of its signals
\* and of its timer, with the conditions that enable them written out.  A process
\* that has run is elsewhere in its code, or has one pending signal less.
Place(p)  == <<ps[p].at, ps[p].in, ps[p].stk, ps[p].st>>
Ran(p)    == Place(p)' # Place(p) \/ Len(ps'[p].pend) < Len(ps[p].pend)
CanRun(p) == Alive(p) /\ (Deliverable(p) # {} \/ Able(p))
CanExpire(p) == Alive(p) /\ ps[p].timer # 0
Fair(p) == /\ []<>(~CanRun(p)) \/ []<><<Ran(p)>>_vars
           /\ []<>(~CanExpire(p)) \/ []<><<ps'[p].timer # ps[p].timer>>_vars

Spec == InitIO /\ [][Next]_vars /\ \A p \in Pids : Fair(p)
=============================================================================
