--------------------------- MODULE SeccompFilters ---------------------------
(***************************************************************************)
(* The BPF filters of seccomp/, and seccomp_launch.c, which installs a     *)
(* series of them in itself before it executes a program; seccomp_multi-   *)
(* arch.c, which executes binaries of several architectures one after the  *)
(* other below the filter that the first of them installs.                 *)
(***************************************************************************)
EXTENDS Processes, SequencesExt

CONSTANTS CmdLines,     \* the series of filters given to seccomp_launch.c
          Chains        \* the architectures of the binaries of seccomp_multiarch.c

Main == 0

\* Architectures, and system call numbers; an x32 call has bit 30 set.
X86_64 == 62
I386 == 3
Aarch64 == 183
X32_SYSCALL_BIT == 1073741824
Nr == [open |-> 2, lseek |-> 8, mkdir |-> 83, getppid |-> 110, mq_notify_x86_64 |-> 244,
       openat |-> 257, mq_notify_i386 |-> 281, mq_notify_x32 |-> 527]
O_WRONLY == 1
O_RDWR == 2
O_CREAT == 64
ENOTSUP == 95

\* What a system call shows to a filter: struct seccomp_data.  Of the arguments only
\* args[1] is used as a word of 64 bits, high and low.
Calls ==
    [arch : {X86_64, I386, Aarch64},
     nr : {Nr[n] : n \in DOMAIN Nr} \cup {X32_SYSCALL_BIT + Nr[n] : n \in {"open", "mkdir", "mq_notify_x32"}},
     hi : {0, 1}, lo : {0, O_WRONLY, O_CREAT + O_RDWR, 1000, 1001},
     args2 : {0, O_RDWR, O_CREAT}]

-----------------------------------------------------------------------------
(* BPF.                                                                    *)

LD(field) == [op |-> "LD", k |-> field, jt |-> 0, jf |-> 0]
Jump(op, k, jt, jf) == [op |-> op, k |-> k, jt |-> jt, jf |-> jf]
RET(action, data) == [op |-> "RET", k |-> <<action, data>>, jt |-> 0, jf |-> 0]
KILL == RET("KILL", 0)
ALLOW == RET("ALLOW", 0)

\* Does the accumulator pass the test of a jump?  A JSET has a set of bits.
Test(i, acc) ==
    CASE i.op = "JEQ" -> acc = i.k
      [] i.op = "JGE" -> acc >= i.k
      [] i.op = "JGT" -> acc > i.k
      [] i.op = "JSET" -> \E bit \in i.k : (acc \div bit) % 2 = 1
      [] i.op = "JA" -> TRUE

\* A filter returns what the RET that it comes to says, from instruction i with acc in
\* the accumulator.
Run(filter, call) ==
    LET from[i \in 1 .. Len(filter), acc \in Nat] ==
            CASE filter[i].op = "LD" -> from[i + 1, call[filter[i].k]]
              [] filter[i].op = "RET" -> filter[i].k
              [] OTHER -> from[i + 1 + (IF Test(filter[i], acc) THEN filter[i].jt ELSE filter[i].jf), acc]
    IN  from[1, 0]

\* Of several filters the most severe action counts, and of equal ones the one of the
\* filter installed last.
Severity == <<"KILL", "TRAP", "ERRNO", "USER_NOTIF", "TRACE", "LOG", "ALLOW">>
Rank(action) == CHOOSE k \in DOMAIN Severity : Severity[k] = action[1]
Worse(a, b) == IF Rank(b) <= Rank(a) THEN b ELSE a

-----------------------------------------------------------------------------
(* The filters.                                                            *)

\* X86_64_CHECK_ARCH_AND_LOAD_SYSCALL_NR, and the other form of the same test.
Check == <<LD("arch"), Jump("JEQ", X86_64, 0, 2), LD("nr"), Jump("JGE", X32_SYSCALL_BIT, 0, 1), KILL>>
Check1 == <<LD("arch"), Jump("JEQ", X86_64, 1, 0), KILL, LD("nr"), Jump("JGE", X32_SYSCALL_BIT, 0, 1), KILL>>

seccomp_perf == Check \o <<Jump("JEQ", Nr.open, 1, 0), ALLOW, KILL>>
seccomp_deny_open ==
    Check1 \o <<Jump("JEQ", Nr.open, 2, 0), Jump("JEQ", Nr.openat, 1, 0), ALLOW, KILL>>
seccomp_trap_sigsys == Check1 \o <<Jump("JEQ", Nr.getppid, 0, 1), RET("TRAP", 0), ALLOW>>
seccomp_logging == Check \o <<RET("LOG", 0)>>

seccomp_arg64 ==
    Check \o <<Jump("JEQ", Nr.lseek, 1, 0), ALLOW,
               LD("hi"), Jump("JEQ", 0, 1, 0), RET("ERRNO", 2),
               LD("lo"), Jump("JGT", 1000, 0, 1), RET("ERRNO", 1), ALLOW>>

seccomp_control_open ==
    Check \o <<Jump("JEQ", Nr.open, 2, 0), Jump("JEQ", Nr.openat, 3, 0), ALLOW,
               LD("lo"), Jump("JA", 1, 1, 0), LD("args2"),
               Jump("JSET", {O_CREAT}, 0, 1), KILL,
               Jump("JSET", {O_WRONLY, O_RDWR}, 0, 1), RET("ERRNO", ENOTSUP), ALLOW>>

seccomp_multiarch ==
    <<LD("arch"), Jump("JEQ", X86_64, 0, 5),
      LD("nr"), Jump("JEQ", Nr.mq_notify_x86_64, 0, 1), RET("ERRNO", Nr.mq_notify_x86_64),
      Jump("JEQ", Nr.mq_notify_x32 + X32_SYSCALL_BIT, 0, 5), RET("ERRNO", Nr.mq_notify_x32),
      Jump("JEQ", I386, 0, 4), LD("nr"), Jump("JEQ", Nr.mq_notify_i386, 0, 1),
      RET("ERRNO", Nr.mq_notify_i386), ALLOW, KILL>>

\* The filters of seccomp_unotify_mkdir.c and seccomp_unotify_openat.c.
notify_mkdir == Check \o <<Jump("JEQ", Nr.mkdir, 0, 1), RET("USER_NOTIF", 0), ALLOW>>
notify_openat == Check \o <<Jump("JEQ", Nr.openat, 0, 1), RET("USER_NOTIF", 0), ALLOW>>
installFilter2(ret) == Check \o <<Jump("JEQ", Nr.mkdir, 1, 0), ALLOW, ret>>

Filters ==
    [seccomp_perf |-> seccomp_perf, seccomp_deny_open |-> seccomp_deny_open,
     seccomp_trap_sigsys |-> seccomp_trap_sigsys, seccomp_logging |-> seccomp_logging,
     seccomp_arg64 |-> seccomp_arg64, seccomp_control_open |-> seccomp_control_open,
     seccomp_multiarch |-> seccomp_multiarch, notify_mkdir |-> notify_mkdir,
     notify_openat |-> notify_openat,
     errno |-> installFilter2(RET("ERRNO", ENOTSUP)), trace |-> installFilter2(RET("TRACE", 0))]

\* What the filters installed in the process do with a call.
Verdict(call) == FoldLeft(LAMBDA v, f : Worse(v, Run(Filters[f], call)), <<"ALLOW", 0>>, g.stack)
Passes(call) == Verdict(call)[1] \in {"ALLOW", "LOG"}

-----------------------------------------------------------------------------
(* The programs.                                                           *)

Init ==
    \/ \E cmd \in CmdLines :
        /\ pc = [p \in {Main} |-> "loadFilter"]
        /\ g = [asked |-> cmd, args |-> cmd, stack |-> <<>>, env |-> FALSE]
    \/ \E chain \in Chains :
        /\ pc = [p \in {Main} |-> "main"]
        /\ g = [asked |-> chain, args |-> chain, stack |-> <<>>, env |-> FALSE]

\* loadFilter() opens the file with the next filter, which the filters installed
\* before may forbid, and installs it; without one more the program is executed.
Openat == [arch |-> X86_64, nr |-> Nr.openat, hi |-> 0, lo |-> 0, args2 |-> 0]
LoadFilter ==
    \/ /\ g.args = <<>> /\ Go(Main, "loadFilter", "exec") /\ UNCHANGED g
    \/ /\ g.args # <<>> /\ Passes(Openat) /\ At(Main, "loadFilter") /\ UNCHANGED pc
       /\ g' = [g EXCEPT !.stack = Append(@, Head(g.args)), !.args = Tail(@)]
    \/ /\ g.args # <<>> /\ ~ Passes(Openat) /\ UNCHANGED g
       /\ Go(Main, "loadFilter", IF Verdict(Openat)[1] = "KILL" THEN "killed" ELSE "failed")

\* seccomp_multiarch.c: the first binary installs the filter, which stays when the
\* others are executed; each calls mq_notify() by its own number.
Mq_notify(binary) ==
    CASE binary = "x86_64" -> [arch |-> X86_64, nr |-> Nr.mq_notify_x86_64]
      [] binary = "i386" -> [arch |-> I386, nr |-> Nr.mq_notify_i386]
      [] binary = "x32" -> [arch |-> X86_64, nr |-> Nr.mq_notify_x32 + X32_SYSCALL_BIT]
InstallFirst ==
    /\ Go(Main, "main", "mq_notify")
    /\ g' = [g EXCEPT !.stack = IF g.env THEN @ ELSE Append(@, "seccomp_multiarch")]
Notify ==
    /\ Go(Main, "mq_notify", IF Verdict(Mq_notify(Head(g.args)))[1] = "ERRNO" THEN "next" ELSE "failed")
    /\ UNCHANGED g
ExecNext ==
    \/ Len(g.args) > 1 /\ Go(Main, "next", "main") /\ g' = [g EXCEPT !.env = TRUE, !.args = Tail(@)]
    \/ Len(g.args) = 1 /\ Go(Main, "next", "exit") /\ UNCHANGED g

Next == LoadFilter \/ InstallFirst \/ Notify \/ ExecNext

Settled == pc[Main] \in {"exec", "killed", "failed", "exit"}

-----------------------------------------------------------------------------
(* What the comments of the programs say of their filters.                 *)

Intended(f, c) ==
    LET native == c.arch = X86_64 /\ c.nr < X32_SYSCALL_BIT
        flags == IF c.nr = Nr.open THEN c.lo ELSE c.args2
        Is(names) == c.nr \in {Nr[n] : n \in names}
        On(names, action) == IF Is(names) THEN action ELSE <<"ALLOW", 0>>
    IN  CASE f = "seccomp_multiarch" ->
               IF c.arch = Aarch64 THEN <<"KILL", 0>>
               ELSE IF \E b \in {"x86_64", "i386", "x32"} : Mq_notify(b) = [arch |-> c.arch, nr |-> c.nr]
                    THEN <<"ERRNO", c.nr % X32_SYSCALL_BIT>> ELSE <<"ALLOW", 0>>
          [] f # "seccomp_multiarch" /\ ~ native -> <<"KILL", 0>>
          [] OTHER ->
               CASE f = "seccomp_perf" -> On({"open"}, <<"KILL", 0>>)
                 [] f = "seccomp_deny_open" -> On({"open", "openat"}, <<"KILL", 0>>)
                 [] f = "seccomp_trap_sigsys" -> On({"getppid"}, <<"TRAP", 0>>)
                 [] f = "seccomp_logging" -> <<"LOG", 0>>
                 [] f = "seccomp_arg64" ->
                      On({"lseek"}, IF c.hi > 0 THEN <<"ERRNO", 2>>
                                    ELSE IF c.lo > 1000 THEN <<"ERRNO", 1>> ELSE <<"ALLOW", 0>>)
                 [] f = "seccomp_control_open" ->
                      On({"open", "openat"}, IF flags \div O_CREAT % 2 = 1 THEN <<"KILL", 0>>
                                             ELSE IF flags % 4 # 0 THEN <<"ERRNO", ENOTSUP>>
                                             ELSE <<"ALLOW", 0>>)
                 [] f = "notify_mkdir" -> On({"mkdir"}, <<"USER_NOTIF", 0>>)
                 [] f = "notify_openat" -> On({"openat"}, <<"USER_NOTIF", 0>>)
                 [] f = "errno" -> On({"mkdir"}, <<"ERRNO", ENOTSUP>>)
                 [] f = "trace" -> On({"mkdir"}, <<"TRACE", 0>>)

\* A program that seccomp_launch.c executes is confined by every filter of the command
\* line: whatever it calls, the outcome is what one of the filters is meant to do, and none
\* means to do worse; notify_mkdir below 'errno' never notifies, below 'trace' it does.
\* seccomp_multiarch.c fails every binary's mq_notify() with one filter.
Confined ==
    /\ At(Main, "exec") =>
        /\ g.stack = g.asked
        /\ \A c \in Calls :
             LET intended == {Intended(f, c) : f \in ToSet(g.asked)} \cup {<<"ALLOW", 0>>}
             IN  /\ Verdict(c) \in intended
                 /\ \A i \in intended : Rank(Verdict(c)) <= Rank(i)
    /\ At(Main, "exit") => g.stack = <<"seccomp_multiarch">>
    /\ At(Main, "failed") => g.asked \notin Chains
=============================================================================
