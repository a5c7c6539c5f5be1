------------------------------- MODULE Kernel -------------------------------
(***************************************************************************)
(* The kernel under the example programs: processes, memory, signals,      *)
(* process groups and sessions.  It is external to the repository and is   *)
(* modelled from what the programs rely on.  A program (Code[prog]) is a   *)
(* record of blocks; a block is a sequence of instructions; an instruction *)
(* is a system call or one step of local computation.  Blocks are the      *)
(* program's functions, branches and loops, named after them.  A call of   *)
(* errExit() after a system call that cannot fail in the modelled          *)
(* environment is left out.                                                *)
(*                                                                         *)
(* A blocking call takes two steps: a process enters it (field "in") and   *)
(* later leaves it.  A handled signal that arrives inside the call makes   *)
(* it fail with EINTR or restart; one that arrives just before it runs     *)
(* the handler first, and the call is entered afterwards: the gap that     *)
(* sigsuspend(), pselect() and the self-pipe trick are made for.           *)
(* A pending signal that is not blocked is delivered before the process's  *)
(* next instruction, and several of them stack their handlers.             *)
(***************************************************************************)
EXTENDS Integers, Sequences, TLC, FiniteSets, SequencesExt

-----------------------------------------------------------------------------
(* The instructions.                                                       *)

Standard == {"INT", "QUIT", "CHLD", "HUP", "USR1", "ALRM", "TSTP", "CONT",
             "STOP", "TERM", "PIPE", "FPE", "IO", "KILL", "SYS"}
RealTime == {"RT1", "RT2"}
Signals  == Standard \cup RealTime
\* What sigfillset() leaves in a mask: KILL and STOP cannot be blocked.
AllSigs  == Signals \ {"KILL", "STOP"}

\* A failing call gives the negated errno: the -1 and the errno in one.
EINTR  == -4
EBADF  == -9
ECHILD == -10
EAGAIN == -11
EPIPE  == -32
EDEADLK == -35
ENOENT == -2
EEXIST == -17
EIDRM  == -43
\* The newline character.
NL == 10
EADDRINUSE == -98
ECONNREFUSED == -111

\* Local computation: printf(), assignment, branches, an external choice.
Say(m)       == [op |-> "say", m |-> m]
Show(v)      == [op |-> "show", v |-> v]
Set(v, n)    == [op |-> "set", v |-> v, n |-> n]
Add(v, n)    == [op |-> "add", v |-> v, n |-> n]
Copy(v, w)   == [op |-> "copy", v |-> v, w |-> w]
Goto(l)      == [op |-> "goto", l |-> l]
If(v, c, n, l) == [op |-> "if", v |-> v, c |-> c, n |-> n, l |-> l]
IfVar(v, c, w, l) == [op |-> "ifvar", v |-> v, c |-> c, w |-> w, l |-> l]
AddVar(v, w) == [op |-> "plus", v |-> v, w |-> w]
Either(l)    == [op |-> "either", l |-> l]
\* v := f(v, w), for the conversions f of Kernel!Converted.
Calc(v, f, w) == [op |-> "calc", v |-> v, f |-> f, w |-> w]

\* Processes.
Fork(v, l)          == [op |-> "fork", v |-> v, l |-> l, f |-> {}]
ForkOr(v, l, f)     == [op |-> "fork", v |-> v, l |-> l, f |-> {f}]
Vfork(l)            == [op |-> "vfork", l |-> l]
Clone(l, share, xs) == [op |-> "clone", l |-> l, share |-> share, xs |-> xs]
Exit(n)             == [op |-> "exit", n |-> n]
Exec(l)             == [op |-> "exec", l |-> l]
Waitpid(v, w, opts) == [op |-> "wait", v |-> v, w |-> w, opts |-> opts]
Wait(v)             == Waitpid(v, "any", {})
Setsid(v)           == [op |-> "setsid", v |-> v]
Setpgid             == [op |-> "setpgid"]
Pdeathsig(s)        == [op |-> "pdeathsig", s |-> s]
Subreaper           == [op |-> "subreaper"]
Umask(n)            == [op |-> "umask", n |-> n]
Chdir(n)            == [op |-> "chdir", n |-> n]

\* Signals.
Kill(w, s)           == [op |-> "kill", w |-> w, s |-> s, n |-> 0]
Sigqueue(w, s, n)    == [op |-> "kill", w |-> w, s |-> s, n |-> n]
Killpg(w, s)         == [op |-> "killpg", w |-> w, s |-> s]
Sigaction(s, h, flags, mask) ==
    [op |-> "sigaction", s |-> s, d |-> [h |-> h, flags |-> flags, mask |-> mask]]
GetAction(s, v)      == [op |-> "getaction", s |-> s, v |-> v]
PutAction(s, v)      == [op |-> "putaction", s |-> s, v |-> v]
Sigprocmask(how, S, v) == [op |-> "mask", how |-> how, S |-> S, v |-> v]
Block(S, v)          == Sigprocmask("block", S, v)
Unblock(S, v)        == Sigprocmask("unblock", S, v)
SetMask(S, v)        == Sigprocmask("set", S, v)
Restore(v)           == Sigprocmask("restore", {}, v)
Pause                == [op |-> "pause", v |-> ""]
Sigsuspend(S)        == [op |-> "sigsuspend", S |-> S, v |-> ""]
Sigwaitinfo(S, v)    == [op |-> "sigwait", S |-> S, v |-> v]
Sigpending(v)        == [op |-> "sigpending", v |-> v]
Sleep(v)             == [op |-> "sleep", v |-> v]
Return               == [op |-> "return"]
Setjmp(v, keep)      == [op |-> "setjmp", v |-> v, keep |-> keep]
Longjmp(v)           == [op |-> "longjmp", v |-> v]
ClearRestart(v)      == [op |-> "clear", v |-> v]
Settimer(n)          == [op |-> "timer", n |-> n]

\* Descriptors: pipes, files, sockets.  A descriptor is named by the variable
\* that holds it; the data read goes to v, the result of the call to r.
MakePipe(r, w)       == [op |-> "pipe", in |-> r, out |-> w]
Open(fd, name, flags) == [op |-> "open", fd |-> fd, name |-> name, flags |-> flags]
Close(fd)            == [op |-> "close", fd |-> fd, r |-> "closed"]
CloseAll             == [op |-> "closeall"]
Lseek(fd, n)         == [op |-> "lseek", fd |-> fd, n |-> n, w |-> ""]
LseekVar(fd, w)      == [Lseek(fd, 0) EXCEPT !.w = w]
SetFlags(fd, flags)  == [op |-> "setfl", fd |-> fd, flags |-> flags]
GetFile(fd, v)       == [op |-> "getfl", fd |-> fd, v |-> v]
Dup2(fd, to)         == [op |-> "dup2", fd |-> fd, to |-> to]
Cloexec(fd)          == [op |-> "cloexec", fd |-> fd]
Read(fd, v, n)       == [op |-> "read", fd |-> fd, v |-> v, n |-> n, w |-> "", nb |-> FALSE, r |-> "numRead"]
ReadVar(fd, v, w)    == [Read(fd, v, 0) EXCEPT !.w = w]
ReadNB(fd, v, n)     == [Read(fd, v, n) EXCEPT !.nb = TRUE]
Write(fd, v)         == [op |-> "write", fd |-> fd, v |-> v, nb |-> FALSE, part |-> FALSE, r |-> "numWritten"]
WriteNB(fd, v)       == [Write(fd, v) EXCEPT !.nb = TRUE]
\* A write that may transfer only a part of the data.
WritePart(fd, v)     == [Write(fd, v) EXCEPT !.part = TRUE]
Async(fd)            == [op |-> "async", fd |-> fd]

\* Sockets.  Every name is the address, or the path, it is bound to.
Listen(fd, name)     == [op |-> "listen", fd |-> fd, name |-> name, msgs |-> FALSE, r |-> "bound"]
\* The connections carry one message each, with descriptors.
ListenMsgs(fd, name) == [Listen(fd, name) EXCEPT !.msgs = TRUE]
Connect(fd, name)    == [op |-> "connect", fd |-> fd, name |-> name, r |-> "connected"]
Accept(fd, to)       == [op |-> "accept", fd |-> fd, to |-> to, r |-> "accepted"]
Shutdown(fd)         == [op |-> "shutdown", fd |-> fd]
Bind(fd, name, own)  == [op |-> "bind", fd |-> fd, name |-> name, own |-> own]
Sendto(fd, w, v, lossy) ==
    [op |-> "send", fd |-> fd, w |-> w, v |-> v, fds |-> <<>>, lossy |-> lossy, r |-> "numSent"]
\* w: the address; the connection's other end when it is "".
Sendmsg(fd, w, v, fds) == [Sendto(fd, w, v, FALSE) EXCEPT !.fds = fds]
Recvfrom(fd, v, from) ==
    [op |-> "recv", fd |-> fd, v |-> v, from |-> from, fds |-> <<>>, r |-> "numRead"]
Recvmsg(fd, v, from, fds) == [Recvfrom(fd, v, from) EXCEPT !.fds = fds]

\* select(), poll() and epoll_wait() (level-triggered) on the descriptors S,
\* and epoll_wait() with EPOLLET.
Select(S, v)         == [op |-> "select", S |-> S, w |-> "", v |-> v, timed |-> FALSE, r |-> "ready"]
SelectVar(w, v)      == [Select({}, v) EXCEPT !.w = w]
SelectTimed(S, v)    == [Select(S, v) EXCEPT !.timed = TRUE]
Epoll(epfd, fd)      == [op |-> "epoll", epfd |-> epfd, fd |-> fd]
EpollWaitET(epfd, v) == [op |-> "epollet", epfd |-> epfd, v |-> v, r |-> "ready"]

\* A pseudoterminal: the master, and the slave that is opened by name.
PtyMaster(fd)        == [op |-> "ptmx", fd |-> fd]
PtySlave(fd)         == [op |-> "pts", fd |-> fd]

\* Objects known by name (a key, a path): System V and POSIX semaphores, message
\* queues and shared memory; and the locks on a file.
\* mode: "open", "creat" or "excl".
Get(name, o, mode)   == [op |-> "get", name |-> name, o |-> o, mode |-> mode, r |-> "got"]
\* The removal of a System V object (or of a socket's path), and of the name of a
\* POSIX object, which stays for those who have opened it.
Unlink(name)         == [op |-> "unlink", name |-> name, keep |-> FALSE, r |-> "unlinked"]
UnlinkName(name)     == [Unlink(name) EXCEPT !.keep = TRUE]
SemSet(vals)         == [kind |-> "sem", vals |-> vals, adj |-> <<>>, n |-> 0]
MsgQueue(max)        == [kind |-> "msgq", q |-> <<>>, max |-> max]
Memory(data)         == [kind |-> "file", data |-> data, locks |-> {}]
Semop(name, ops)     == [op |-> "semop", name |-> name, ops |-> ops, nb |-> FALSE, timed |-> FALSE, r |-> "s"]
SemopNB(name, ops)   == [Semop(name, ops) EXCEPT !.nb = TRUE]
SemTimed(name, ops)  == [Semop(name, ops) EXCEPT !.timed = TRUE]
Op(j, n)             == [j |-> j, n |-> n, undo |-> FALSE]
OpUndo(j, n)         == [j |-> j, n |-> n, undo |-> TRUE]
Semctl(name, vals)   == [op |-> "semset", name |-> name, vals |-> vals]
Semget(name, v)      == [op |-> "semget", name |-> name, v |-> v]
Msgsnd(name, type, v) == [op |-> "msgsnd", name |-> name, type |-> type, v |-> v, nb |-> FALSE, r |-> "s"]
MsgsndNB(name, type, v) == [Msgsnd(name, type, v) EXCEPT !.nb = TRUE]
\* which: "first", "type", "upto", "except" (System V) or "prio" (POSIX).
Msgrcv(name, which, n, v) ==
    [op |-> "msgrcv", name |-> name, which |-> which, n |-> n, v |-> v, nb |-> FALSE, r |-> "s"]
MsgrcvNB(name, which, n, v) == [Msgrcv(name, which, n, v) EXCEPT !.nb = TRUE]
\* The size of the object becomes n: cut, or filled with zeros.
Ftruncate(name, n)   == [op |-> "trunc", name |-> name, n |-> n]
Chqbytes(name, n)    == [op |-> "qbytes", name |-> name, n |-> n]
Load(name, v)        == [op |-> "load", name |-> name, v |-> v, r |-> "s"]
Store(name, v)       == [op |-> "store", name |-> name, v |-> v, r |-> "s"]
\* A lock of the bytes lo..hi through fd, of the process ("posix") or of the open
\* file description ("ofd"); type "r", "w" or "u".
SetLock(fd, who, type, lo, hi) ==
    [op |-> "lock", fd |-> fd, who |-> who, type |-> type, lo |-> lo, hi |-> hi, nb |-> TRUE, r |-> "s"]
SetLockWait(fd, who, type, lo, hi) == [SetLock(fd, who, type, lo, hi) EXCEPT !.nb = FALSE]
GetLock(fd, who, type, lo, hi, v) ==
    [op |-> "getlk", fd |-> fd, who |-> who, type |-> type, lo |-> lo, hi |-> hi, v |-> v]

-----------------------------------------------------------------------------
(* The state.                                                              *)

CONSTANTS Code,     \* program -> block -> sequence of instructions
          Start,    \* program -> sequence of blocks: the initial processes
          MaxPid    \* no more processes than this are created

VARIABLES prog, ps, mem, fdt, obj, out
vars == <<prog, ps, mem, fdt, obj, out>>

Pids == 1 .. MaxPid
Alive(p) == ps[p].st = "live"
Live == {p \in Pids : Alive(p)}

-----------------------------------------------------------------------------
(* Process records.                                                        *)

\* The parents outside the model: the program's shell, and init, which adopts
\* and reaps the orphans.
Shell == -1
InitPid == 0

Default == [h |-> "DFL", flags |-> {}, mask |-> {}]
Stops   == {"TSTP", "STOP"}
Ignored == {"CHLD", "CONT"}

Nobody == [st |-> "none", at |-> <<"main", 1>>, in |-> FALSE, stk |-> <<>>,
           mask |-> {}, keep |-> {}, pend |-> <<>>,
           disp |-> <<>>,
           ppid |-> Shell, pgid |-> 0, sid |-> 0, stop |-> FALSE, news |-> "",
           code |-> [how |-> "", n |-> 0], vf |-> 0, timer |-> 0,
           pds |-> "", sub |-> FALSE, xs |-> "CHLD", umask |-> 0, cwd |-> "home",
           mm |-> 0, fd |-> 0, sh |-> 0, fs |-> 0]

\* The disposition of s in the process record r.
Act(r, s) == IF s \in DOMAIN r.disp THEN r.disp[s] ELSE Default

\* The first process is the program; the others are its environment (the
\* shell, the user at the terminal), in a process group of their own.
First(p, l) == [Nobody EXCEPT !.st = "live", !.at = <<l, 1>>, !.pgid = p,
                              !.mm = p, !.fd = p, !.sh = p, !.fs = p]

\* r with signal s (and its value) made pending, or discarded.
Gets(r, s, v) ==
    LET woken == IF s \in {"CONT", "KILL"} /\ r.stop
                 THEN [r EXCEPT !.stop = FALSE,
                                !.news = IF s = "CONT" THEN "continued" ELSE ""]
                 ELSE r
        drop  == IF s = "CONT" THEN Stops
                 ELSE IF s \in Stops THEN {"CONT"} ELSE {}
        kept  == [woken EXCEPT !.pend = SelectSeq(@, LAMBDA e : e.s \notin drop)]
        h     == Act(r, s).h
        ign   == h = "IGN" \/ (h = "DFL" /\ s \in Ignored)
    IN  CASE r.st # "live" -> r
          [] ign /\ s \notin r.mask -> kept
          [] s \in Standard /\ \E i \in DOMAIN kept.pend : kept.pend[i].s = s -> kept
          [] OTHER -> [kept EXCEPT !.pend = Append(@, [s |-> s, v |-> v])]

SendTo(P, S, s, v) == [q \in Pids |-> IF q \in S THEN Gets(P[q], s, v) ELSE P[q]]

\* The parent is told of a child that terminated, stopped or continued.
TellParent(P, p, why) ==
    LET up == {q \in Pids : q = P[p].ppid /\ P[p].xs # "" /\
                 ~(why = "stop" /\ "NOCLDSTOP" \in Act(P[q], "CHLD").flags)}
    IN  SendTo(P, up, P[p].xs, p)

\* A process group is orphaned when no member has a parent in another group
\* of the same session.
Orphaned(P, g) ==
    \A p \in Pids : P[p].st = "live" /\ P[p].pgid = g =>
        LET up == P[p].ppid
        IN  CASE up = Shell -> P[p].sid # 0
              [] up = InitPid -> TRUE
              [] OTHER -> P[up].pgid = g \/ P[up].sid # P[p].sid

Terminate(P, p, code) ==
    LET parent == P[p].ppid
        reaped == parent \notin Pids \/ Act(P[parent], "CHLD").h = "IGN"
        dead   == [Nobody EXCEPT !.st = IF reaped THEN "gone" ELSE "zombie",
                                 !.ppid = parent, !.pgid = P[p].pgid,
                                 !.code = code, !.mm = P[p].mm, !.xs = P[p].xs]
        adopter == IF parent \in Pids /\ P[parent].sub THEN parent ELSE InitPid
        Heir(q) ==
            LET r == [P[q] EXCEPT !.vf = IF @ = p THEN 0 ELSE @]
                c == [r EXCEPT !.ppid = adopter,
                               !.st = IF @ = "zombie" /\ adopter = InitPid THEN "gone" ELSE @]
            IN  CASE q = p -> dead
                  [] r.ppid = p /\ r.pds = "" -> c
                  [] r.ppid = p -> Gets(c, r.pds, 0)
                  [] OTHER -> r
        Q      == TellParent([q \in Pids |-> Heir(q)], p, "exit")
        groups == {g \in {P[q].pgid : q \in Pids \ {p}} :
                     /\ Orphaned(Q, g) /\ ~Orphaned(P, g)
                     /\ \E q \in Pids : Q[q].pgid = g /\ Q[q].stop}
        hit    == {q \in Pids : Q[q].st = "live" /\ Q[q].pgid \in groups}
    IN  SendTo(SendTo(Q, hit, "HUP", 0), hit, "CONT", 0)

-----------------------------------------------------------------------------
(* Instruction fetch, memory and control flow.                             *)

At(p)     == Code[prog][ps[p].at[1]][ps[p].at[2]]
To(r, l)  == [r EXCEPT !.at = <<l, 1>>, !.in = FALSE]
Past(r)   == [r EXCEPT !.at[2] = @ + 1, !.in = FALSE]
Adv(P, p) == [P EXCEPT ![p] = Past(@)]

Val(p, v) ==
    CASE v = "self"   -> p
      [] v = "parent" -> ps[p].ppid
      [] v = "first"  -> 1
      [] v = "sig"    -> Head(ps[p].stk).s
      [] v = "umask"  -> ps[p].umask
      [] v = "cwd"    -> ps[p].cwd
      [] v = "sval"   -> Head(ps[p].stk).v
      [] v \in DOMAIN mem[ps[p].mm] -> mem[ps[p].mm][v]
      [] OTHER -> 0

Assign(p, v, x) ==
    IF v = "" THEN mem ELSE [mem EXCEPT ![ps[p].mm] = (v :> x) @@ @]

Holds(x, c, n) ==
    CASE c = "=" -> x = n
      [] c = "#" -> x # n
      [] c = "<" -> x < n
      [] c = "in" -> x \in n
      [] c = "has" -> n \in x

\* Whether instruction i jumps.
Taken(p, i) ==
    CASE i.op = "goto"  -> TRUE
      [] i.op = "if"    -> Holds(Val(p, i.v), i.c, i.n)
      [] i.op = "ifvar" -> Holds(Val(p, i.v), i.c, Val(p, i.w))
      [] OTHER -> FALSE

LineMax == 3    \* the longest line kept by readLine()

\* Conversions of data: concatenation, atoi() of a line, toupper(), and the
\* sums and parts the programs compute.
Converted(f, x, y) ==
    CASE f = "cat"   -> x \o y
      [] f = "atoi"  -> IF y = <<>> THEN 0 ELSE y[1]
      [] f = "line"  -> <<y, NL>>
      [] f = "upper" -> [k \in DOMAIN y |-> IF y[k] = NL THEN NL ELSE y[k] + 100]
      [] f = "len"   -> Len(y)
      [] f = "head"  -> <<y[1]>>
      [] f = "tail"  -> Tail(y)
      [] f = "succ"  -> <<y[1] + 1>>
      [] f = "last"  -> y[Len(y)]
      [] f = "drop"  -> SubSeq(x, y + 1, Len(x))
      [] f = "less"  -> x - y
      [] f = "without" -> x \ {y}
      [] f = "frame" -> <<Len(y.data)>> \o y.data
      [] f = "keep"  -> IF Len(x) < LineMax THEN x \o y ELSE x

Computed(p, i) ==
    CASE i.op = "set"   -> i.n
      [] i.op = "add"   -> Val(p, i.v) + i.n
      [] i.op = "plus"  -> Val(p, i.v) + Val(p, i.w)
      [] i.op = "copy"  -> Val(p, i.w)
      [] i.op = "calc"  -> Converted(i.f, Val(p, i.v), Val(p, i.w))
      [] i.op = "clear" -> [Val(p, i.v) EXCEPT !.flags = @ \ {"RESTART"}]

Local(p, i) ==
    \/ /\ i.op \in {"say", "show"}
       /\ out' = Append(out, IF i.op = "say" THEN <<p, i.m>> ELSE <<p, i.v, Val(p, i.v)>>)
       /\ ps' = Adv(ps, p) /\ UNCHANGED mem
    \/ /\ i.op \in {"set", "add", "plus", "copy", "calc", "clear"}
       /\ mem' = Assign(p, i.v, Computed(p, i))
       /\ ps' = Adv(ps, p) /\ UNCHANGED out
    \/ /\ i.op \in {"goto", "if", "ifvar"}
       /\ ps' = IF Taken(p, i) THEN [ps EXCEPT ![p] = To(@, i.l)] ELSE Adv(ps, p)
       /\ UNCHANGED <<mem, out>>
    \/ /\ i.op = "either"
       /\ ps' \in {[ps EXCEPT ![p] = To(@, i.l)], Adv(ps, p)}
       /\ UNCHANGED <<mem, out>>

-----------------------------------------------------------------------------
(* Processes.                                                              *)

NewPid == CHOOSE c \in Pids : ps[c].st = "none" /\ \A d \in 1 .. (c - 1) : ps[d].st # "none"

Child(p, l) == [ps[p] EXCEPT !.at = <<l, 1>>, !.ppid = p, !.pend = <<>>, !.timer = 0,
                             !.in = FALSE, !.pds = "", !.sub = FALSE, !.news = ""]

Births(p, i) ==
    /\ i.op \in {"fork", "vfork", "clone"}
    /\ \E q \in Pids : ps[q].st = "none"
    /\ LET c  == NewPid
           sv == i.op = "vfork" \/ (i.op = "clone" /\ "VM" \in i.share)
           sf == i.op = "clone" /\ "FILES" \in i.share
           ss == i.op = "clone" /\ "SIGHAND" \in i.share
           su == i.op = "clone" /\ "FS" \in i.share
           v  == IF i.op = "fork" THEN i.v ELSE "child"
           m  == Assign(p, v, c)
       IN  /\ ps' = [Adv(ps, p) EXCEPT
                       ![c] = [Child(p, i.l) EXCEPT !.mm = IF sv THEN ps[p].mm ELSE c,
                                                    !.fd = IF sf THEN ps[p].fd ELSE c,
                                                    !.sh = IF ss THEN ps[p].sh ELSE c,
                                                    !.fs = IF su THEN ps[p].fs ELSE c,
                                                    !.xs = IF i.op = "clone" THEN i.xs ELSE "CHLD"],
                       ![p].vf = IF i.op = "vfork" THEN c ELSE 0]
           /\ mem' = IF sv THEN m ELSE [m EXCEPT ![c] = (v :> 0) @@ mem[ps[p].mm]]
           /\ fdt' = IF sf THEN fdt ELSE [fdt EXCEPT ![c] = fdt[ps[p].fd]]
    /\ UNCHANGED out

\* fork() fails where the program handles it.
ForkFails(p, i) ==
    /\ i.op = "fork"
    /\ \E l \in i.f : ps' = [ps EXCEPT ![p] = To(@, l)]
    /\ UNCHANGED <<mem, fdt, out>>

Exits(p, i) ==
    /\ i.op = "exit"
    /\ ps' = Terminate(ps, p, [how |-> "exited", n |-> i.n])
    /\ UNCHANGED <<mem, fdt, out>>

\* A new image: handlers become defaults, memory and alternate state are
\* new, close-on-exec descriptors go, a vfork() parent resumes.
Execs(p, i) ==
    /\ i.op = "exec"
    /\ LET kept == {s \in DOMAIN ps[p].disp : ps[p].disp[s].h = "IGN"}
       IN  ps' = [q \in Pids |->
                    IF q = p THEN [To(ps[p], i.l) EXCEPT !.mm = p, !.sh = p, !.stk = <<>>,
                                      !.disp = [s \in kept |-> ps[p].disp[s]]]
                    ELSE [ps[q] EXCEPT !.vf = IF @ = p THEN 0 ELSE @]]
    /\ mem' = [mem EXCEPT ![p] = <<>>]
    /\ fdt' = [fdt EXCEPT ![ps[p].fd] =
                 [x \in {y \in DOMAIN @ : ~@[y].cloexec} |-> @[x]]]
    /\ UNCHANGED out

Kids(p, i) == {c \in Pids : /\ ps[c].ppid = p /\ ps[c].st \in {"live", "zombie"}
                            /\ i.w = "any" \/ c = Val(p, i.w)}
Heard(p, i, kids) == {c \in kids : ps[c].st = "zombie" \/ ps[c].news \in i.opts}

\* waitpid(): a terminated child is reaped, a stopped or continued one is
\* reported once, WNOHANG gives 0 and no child at all ECHILD.
Waits(p, i) ==
    /\ i.op = "wait"
    /\ LET kids  == Kids(p, i)
           heard == {c \in kids : ps[c].news \in i.opts}
           dead  == {c \in kids : ps[c].st = "zombie"}
           Got(c, code, Q) == /\ ps' = Adv(Q, p)
                              /\ mem' = [Assign(p, i.v, c) EXCEPT
                                           ![ps[p].mm] = ("status" :> code) @@ @]
       IN  \/ \E c \in dead : Got(c, ps[c].code, [ps EXCEPT ![c].st = "gone"])
           \/ \E c \in heard : Got(c, [how |-> ps[c].news, n |-> 0], [ps EXCEPT ![c].news = ""])
           \/ /\ kids = {} \/ ("nohang" \in i.opts /\ dead \cup heard = {})
              /\ mem' = Assign(p, i.v, IF kids = {} THEN ECHILD ELSE 0)
              /\ ps' = Adv(ps, p)
    /\ UNCHANGED <<fdt, out>>

\* setsid() fails for a process group leader.
Groups(p, i) ==
    /\ \/ /\ i.op = "setsid"
          /\ LET leader == ps[p].pgid = p
             IN  /\ ps' = IF leader THEN Adv(ps, p)
                          ELSE [Adv(ps, p) EXCEPT ![p].sid = p, ![p].pgid = p]
                 /\ mem' = Assign(p, i.v, IF leader THEN -1 ELSE p)
       \/ /\ i.op = "setpgid"
          /\ ps' = [Adv(ps, p) EXCEPT ![p].pgid = p] /\ UNCHANGED mem
       \/ /\ i.op = "pdeathsig"
          /\ ps' = [Adv(ps, p) EXCEPT ![p].pds = i.s] /\ UNCHANGED mem
       \/ /\ i.op = "subreaper"
          /\ ps' = [Adv(ps, p) EXCEPT ![p].sub = TRUE] /\ UNCHANGED mem
       \/ /\ i.op \in {"umask", "chdir"}
          /\ ps' = Adv([q \in Pids |->
                IF ps[q].fs # ps[p].fs THEN ps[q]
                ELSE IF i.op = "umask" THEN [ps[q] EXCEPT !.umask = i.n]
                ELSE [ps[q] EXCEPT !.cwd = i.n]], p)
          /\ UNCHANGED mem
    /\ UNCHANGED <<fdt, out>>

Process(p, i) == Births(p, i) \/ ForkFails(p, i) \/ Exits(p, i) \/ Execs(p, i)
                   \/ Waits(p, i) \/ Groups(p, i)

-----------------------------------------------------------------------------
(* Signals.                                                                *)

Sends(p, i) ==
    /\ \/ /\ i.op = "kill"
          /\ LET S == {q \in Live : q = Val(p, i.w)}
                 Q == SendTo(ps, S, i.s, IF i.n = 0 THEN p ELSE i.n)
             IN  ps' = Adv(IF i.s = "CONT" /\ \E q \in S : ps[q].stop
                           THEN TellParent(Q, CHOOSE q \in S : TRUE, "stop") ELSE Q, p)
       \/ /\ i.op = "killpg"
          /\ ps' = Adv(SendTo(ps, {q \in Live : ps[q].pgid = ps[Val(p, i.w)].pgid}, i.s, p), p)
    /\ UNCHANGED mem

\* sigaction(): setting SIG_IGN discards a pending signal.
Dispositions(p, i) ==
    LET new == IF i.op = "sigaction" THEN i.d ELSE Val(p, i.v)
        ign == new.h = "IGN" \/ (new.h = "DFL" /\ i.s \in Ignored)
        Put(r) == [r EXCEPT !.disp = (i.s :> new) @@ @,
                            !.pend = IF ign THEN SelectSeq(@, LAMBDA e : e.s # i.s) ELSE @]
    IN  \/ /\ i.op \in {"sigaction", "putaction"}
           /\ ps' = Adv([q \in Pids |-> IF ps[q].sh = ps[p].sh THEN Put(ps[q]) ELSE ps[q]], p)
           /\ UNCHANGED mem
        \/ /\ i.op = "getaction"
           /\ mem' = Assign(p, i.v, Act(ps[p], i.s))
           /\ ps' = Adv(ps, p)

Masks(p, i) ==
    /\ i.op = "mask"
    /\ LET old == ps[p].mask
           new == CASE i.how = "block" -> old \cup i.S
                    [] i.how = "unblock" -> old \ i.S
                    [] i.how = "set" -> i.S
                    [] i.how = "restore" -> Val(p, i.v)
       IN  /\ ps' = [Adv(ps, p) EXCEPT ![p].mask = new \cap AllSigs]
           /\ mem' = IF i.how = "restore" THEN mem ELSE Assign(p, i.v, old)

Jumps(p, i) ==
    \/ /\ i.op = "return"
       /\ LET f == Head(ps[p].stk)
          IN  ps' = [ps EXCEPT ![p] = [@ EXCEPT !.at = f.at, !.mask = f.mask, !.stk = Tail(@)]]
       /\ UNCHANGED mem
    \/ /\ i.op = "setjmp"
       /\ ps' = Adv(ps, p)
       /\ mem' = [Assign(p, i.v, 0) EXCEPT
                    ![ps[p].mm] = ("env" :> [at |-> Past(ps[p]).at, mask |-> ps[p].mask,
                                             keep |-> i.keep, v |-> i.v]) @@ @]
    \/ /\ i.op = "longjmp"
       /\ LET e == Val(p, i.v)
          IN  /\ ps' = [ps EXCEPT ![p] = [@ EXCEPT !.at = e.at, !.stk = <<>>,
                                            !.mask = IF e.keep THEN e.mask ELSE @]]
              /\ mem' = Assign(p, e.v, 1)

\* Calls that wait for a signal.  They are entered by Enters.
Suspends(p, i) ==
    \/ /\ i.op = "sleep" /\ ps[p].in
       /\ ps' = Adv(ps, p) /\ mem' = Assign(p, i.v, 0)
    \/ /\ i.op = "sigwait" /\ ps[p].in
       /\ \E k \in DOMAIN ps[p].pend :
            LET e == ps[p].pend[k]
            IN  /\ e.s \in i.S
                /\ \A j \in 1 .. (k - 1) : ps[p].pend[j].s # e.s
                /\ ps' = [Adv(ps, p) EXCEPT ![p].pend = RemoveAt(@, k)]
                /\ mem' = [Assign(p, i.v, e.s) EXCEPT ![ps[p].mm] = ("si_value" :> e.v) @@ @]
    \/ /\ i.op = "sigpending"
       /\ ps' = Adv(ps, p)
       /\ mem' = Assign(p, i.v, {e.s : e \in {ps[p].pend[k] : k \in DOMAIN ps[p].pend}})
    \/ /\ i.op = "timer"
       /\ ps' = [Adv(ps, p) EXCEPT ![p].timer = i.n] /\ UNCHANGED mem

Signal(p, i) == (Sends(p, i) \/ Dispositions(p, i) \/ Masks(p, i) \/ Jumps(p, i)
                   \/ Suspends(p, i)) /\ UNCHANGED <<fdt, out>>

\* A process enters a blocking call; sigsuspend() swaps the mask as it does.
Enters(p, i) ==
    /\ ps' = IF i.op = "sigsuspend"
             THEN [ps EXCEPT ![p] = [@ EXCEPT !.in = TRUE, !.keep = ps[p].mask, !.mask = i.S]]
             ELSE [ps EXCEPT ![p].in = TRUE]
    /\ UNCHANGED <<mem, fdt, obj, out>>

-----------------------------------------------------------------------------
(* Delivery.                                                               *)

Rank(s) == IF s \in Standard THEN 0 ELSE IF s = "RT1" THEN 1 ELSE 2

\* The places in the queue of p of the signals that can be delivered next:
\* real-time signals after the others, lowest first, in order of arrival.
Deliverable(p) ==
    LET r    == ps[p]
        free == {k \in DOMAIN r.pend :
                   /\ r.pend[k].s \notin r.mask
                   /\ r.pend[k].s = "KILL" \/ (~r.stop /\ r.vf = 0)}
    IN  {k \in free : \A j \in free :
           /\ Rank(r.pend[k].s) <= Rank(r.pend[j].s)
           /\ r.pend[j].s = r.pend[k].s => k <= j}

\* EINTR, or a restart of the call for SA_RESTART.
Restartable == {"wait", "read", "write", "accept", "connect", "send", "recv",
                "lock", "semwait"}

\* The variable that gets the result of a call.
Result(i) == IF "r" \in DOMAIN i THEN i.r ELSE i.v

Handle(p, r, e) ==
    LET d      == Act(r, e.s)
        i      == At(p)
        again  == ~r.in \/ (i.op \in Restartable /\ "RESTART" \in d.flags)
        frame  == [at   |-> IF again THEN r.at ELSE Past(r).at,
                   mask |-> IF r.in /\ i.op = "sigsuspend" THEN r.keep ELSE r.mask,
                   s |-> e.s, v |-> e.v]
        mine   == IF "NODEFER" \in d.flags THEN {} ELSE {e.s}
    IN  /\ ps' = [ps EXCEPT ![p] =
                    [r EXCEPT !.at = <<d.h, 1>>, !.in = FALSE, !.keep = {},
                              !.stk = <<frame>> \o @,
                              !.mask = (@ \cup d.mask \cup mine) \cap AllSigs,
                              !.disp = IF "RESETHAND" \in d.flags THEN (e.s :> Default) @@ @ ELSE @]]
        /\ mem' = IF again THEN mem ELSE Assign(p, Result(i), IF i.op = "sleep" THEN 1 ELSE EINTR)

Deliver(p) ==
    /\ Alive(p)
    /\ \E k \in Deliverable(p) :
         LET e == ps[p].pend[k]
             r == [ps[p] EXCEPT !.pend = RemoveAt(@, k)]
             h == Act(r, e.s).h
             P == [ps EXCEPT ![p] = r]
         IN  CASE h \notin {"DFL", "IGN"} -> Handle(p, r, e)
               [] h = "DFL" /\ e.s \in Stops ->
                    /\ ps' = IF e.s = "TSTP" /\ Orphaned(ps, r.pgid) THEN P
                             ELSE TellParent([P EXCEPT ![p].stop = TRUE,
                                                       ![p].news = "stopped"], p, "stop")
                    /\ UNCHANGED mem
               [] h = "DFL" /\ e.s \notin Stops \cup Ignored ->
                    /\ ps' = Terminate(P, p, [how |-> "killed", s |-> e.s])
                    /\ UNCHANGED mem
               [] OTHER -> ps' = P /\ UNCHANGED mem
    /\ UNCHANGED <<prog, fdt, obj, out>>

\* The interval timer of p expires.
Expire(p) ==
    /\ Alive(p) /\ ps[p].timer # 0
    /\ ps' = [ps EXCEPT ![p] = [Gets(@, "ALRM", 0) EXCEPT !.timer = @ - 1]]
    /\ UNCHANGED <<prog, mem, fdt, obj, out>>

Runnable(p) == Alive(p) /\ ~ps[p].stop /\ ps[p].vf = 0 /\ Deliverable(p) = {}

-----------------------------------------------------------------------------
Init ==
    /\ prog \in DOMAIN Code
    /\ ps = [p \in Pids |-> IF p \in DOMAIN Start[prog] THEN First(p, Start[prog][p]) ELSE Nobody]
    /\ mem = [p \in Pids |-> <<>>]
    /\ out = <<>>
=============================================================================
