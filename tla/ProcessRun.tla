----------------------------- MODULE ProcessRun -----------------------------
(***************************************************************************)
(* The programs of procexec, signals, timers, pgsjc and daemons, and       *)
(* simple_init.c, each one run to its end under every interleaving of its  *)
(* processes, signals and timers.  TLC chooses the program at the start.   *)
(* Each program is one definition.  Sleeps return and timers expire at any *)
(* time: no program may rely on them for order.                            *)
(***************************************************************************)
EXTENDS Machine

-----------------------------------------------------------------------------
(* procexec: processes, wait(), vfork(), clone(), exec and system().       *)

\* Reaps every child that has terminated.
sigchldHandler == [
    sigchldHandler |-> <<Waitpid("childPid", "any", {"nohang"}), If("childPid", "<", 1, "hret"),
                         Add("numLiveChildren", -1), Goto("sigchldHandler")>>,
    hret |-> <<Sleep(""), Return>>]

\* Three children; SIGCHLD is blocked except inside sigsuspend().
multi_SIGCHLD == sigchldHandler @@ [
    main |-> <<Set("numLiveChildren", 3), Sigaction("CHLD", "sigchldHandler", {}, {}),
               SetMask({"CHLD"}, ""), Fork("c", "child"), Fork("c", "child"), Fork("c", "child"),
               Goto("loop")>>,
    child |-> <<Sleep(""), Exit(0)>>,
    loop |-> <<If("numLiveChildren", "<", 1, "done"), Sigsuspend({}), Goto("loop")>>,
    done |-> <<Say("all terminated"), Exit(0)>>]

fork_sig_sync_child_M == [
    child |-> <<Sleep(""), Kill("parent", "USR1"), Say("child work done"), Exit(0)>>]
\* The child does its work first and tells the parent with SIGUSR1, blocked
\* since before the fork().
fork_sig_sync_child == [
    child |-> <<Sleep(""), Say("child work done"), Kill("parent", "USR1"), Exit(0)>>]
fork_sig_sync == fork_sig_sync_child @@ [
    main |-> <<Block({"USR1"}, "origMask"), Sigaction("USR1", "handler", {"RESTART"}, {}),
               Fork("childPid", "child"), Sigsuspend({}), Say("parent got signal"),
               Restore("origMask"), Exit(0)>>,
    handler |-> <<Return>>]

\* The command's processes (ps | grep) are left out.
make_zombie == [
    main |-> <<Fork("childPid", "child"), Sleep(""), Kill("childPid", "KILL"), Goto("killed")>>,
    killed |-> <<Sleep(""), Say("after KILL"), Exit(0)>>,
    child |-> <<Say("child exiting"), Exit(0)>>]

\* waitpid() reports the child's stops and continuations until it ends.  The
\* user stops, continues and terminates the child (process 3).
child_status == [
    main |-> <<Fork("c", "child"), Goto("loop")>>,
    child |-> <<Either("exits"), Goto("pausing")>>,
    exits |-> <<Exit(7)>>,
    pausing |-> <<Pause, Goto("pausing")>>,
    loop |-> <<Waitpid("childPid", "any", {"stopped", "continued"}), Show("status"),
               If("status", "in", {[how |-> "stopped", n |-> 0], [how |-> "continued", n |-> 0]},
                  "loop"), Exit(0)>>,
    user |-> <<Set("pid", 3), Either("term"), Kill("pid", "STOP"), Either("term"),
               Kill("pid", "CONT"), Goto("term")>>,
    term |-> <<Kill("pid", "TERM"), Kill("pid", "CONT"), Exit(0)>>]

multi_wait == [
    main |-> <<Fork("c", "child"), Fork("c", "child"), Fork("c", "child"), Goto("loop")>>,
    child |-> <<Sleep(""), Exit(0)>>,
    loop |-> <<Wait("childPid"), If("childPid", "=", ECHILD, "bye"), Add("numDead", 1), Goto("loop")>>,
    bye |-> <<Show("numDead"), Exit(0)>>]

orphan == [
    main |-> <<Copy("ppidOrig", "self"), Fork("c", "child"), Sleep(""), Exit(0)>>,
    child |-> <<Copy("ppid", "parent"), If("ppid", "#", 1, "orphaned"), Sleep(""), Goto("child")>>,
    orphaned |-> <<Show("ppid"), Exit(0)>>]

\* Two children, one after the other.
fork_whos_on_first == [
    main |-> <<Fork("c", "child"), Say("parent"), Wait("c"), Add("j", 1),
               If("j", "<", 2, "main"), Exit(0)>>,
    child |-> <<Say("child"), Exit(0)>>]

t_fork == [
    main |-> <<Set("idata", 111), Set("istack", 222), Fork("childPid", "child"), Sleep(""),
               Goto("both")>>,
    child |-> <<Set("idata", 333), Set("istack", 666), Goto("both")>>,
    both |-> <<Show("idata"), Show("istack"), Exit(0)>>]

\* The child of vfork() runs in the parent's memory while the parent waits.
t_vfork == [
    main |-> <<Set("istack", 222), Vfork("child"), Say("Parent executing"), Show("istack"),
               Exit(0)>>,
    child |-> <<Sleep(""), Say("Child executing"), Set("istack", 666), Exit(0)>>]

\* Descriptors are not shared by vfork(): the parent's first close() works.
vfork_fd_test == [
    main |-> <<Vfork("child"), Close("stdout"), Show("closed"), Close("stdout"), Show("closed"),
               Exit(0)>>,
    child |-> <<Close("stdout"), Exit(0)>>]

\* An ancestor that is a subreaper, another one, and the child, which asks
\* for SIGUSR1 when its parent dies.  One thread in each ancestor.
createChild == [
    createChild |-> <<Fork("c", "final"), Goto("performPerThreadSteps")>>,
    final |-> <<Sigaction("USR1", "handler", {}, {}), Sleep(""), Pdeathsig("USR1"), Goto("post")>>,
    post |-> <<Sleep(""), Sleep(""), Sleep(""), Exit(0)>>,
    handler |-> <<Show("parent"), Return>>]
pdeath_signal == createChild @@ [
    main |-> <<Fork("c", "ancestor"), Wait("c"), Exit(0)>>,
    ancestor |-> <<Subreaper, Fork("c", "ancestor2"), Goto("performPerThreadSteps")>>,
    ancestor2 |-> <<Goto("createChild")>>,
    performPerThreadSteps |-> <<Sleep(""), Exit(0)>>]

childFunc_M == [
    childFunc |-> <<Umask(2), Sigaction("TERM", "DFL", {}, {}), Exit(22)>>]

\* clone() with each sharing flag, or with all of them.
childFunc == [
    childFunc |-> <<Umask(2), Close("fd"), Sigaction("TERM", "DFL", {}, {}), Exit(22)>>]
demo_clone == childFunc @@ [
    main |-> <<Umask(1), Open("fd", "null", {}), Sigaction("TERM", "IGN", {}, {}),
               Sigaction("USR1", "grimReaper", {"RESTART"}, {}), Either("files"), Either("fs"),
               Either("all"), Clone("childFunc", {}, "USR1"), Goto("reap")>>,
    files |-> <<Clone("childFunc", {"FILES"}, "USR1"), Goto("reap")>>,
    fs |-> <<Clone("childFunc", {"FS"}, "USR1"), Goto("reap")>>,
    all |-> <<Clone("childFunc", {"FILES", "FS", "VM", "SIGHAND"}, "USR1"), Goto("reap")>>,
    reap |-> <<Wait("pid"), Show("status"), Show("umask"), Set("buf", <<1>>), Write("fd", "buf"),
               Show("numWritten"), GetAction("TERM", "sa"), Goto("checked")>>,
    checked |-> <<Exit(0)>>,
    grimReaper |-> <<Say("caught"), Return>>]

t_clone == [
    main |-> <<Open("fd", "null", {}), Sigaction("USR1", "IGN", {}, {}), Either("files"),
               Clone("childFunc", {}, "USR1"), Goto("reap")>>,
    files |-> <<Set("flags", 1), Clone("childFunc", {"FILES"}, "USR1"), Goto("reap")>>,
    childFunc |-> <<Close("fd"), Exit(0)>>,
    reap |-> <<Wait("pid"), Set("buf", <<1>>), Write("fd", "buf"), Show("flags"),
               Show("numWritten"), Exit(0)>>]

fork_file_sharing == [
    main |-> <<Open("fd", "tmp", {}), GetFile("fd", "st"), Show("st"), Fork("c", "child"),
               Wait("c"), GetFile("fd", "st"), Show("st"), Exit(0)>>,
    child |-> <<Lseek("fd", 1000), SetFlags("fd", {"append"}), Exit(0)>>]

\* Standard output is a file: printf() leaves its line in the stdio buffer,
\* which fork() copies and both exits flush.
fork_stdio_buf == [
    main |-> <<Set("stdio", "Hello world"), Say("Ciao"), Fork("c", "flush"), Goto("flush")>>,
    flush |-> <<Show("stdio"), Exit(0)>>]

\* The program break is the variable brk.
footprint == [
    main |-> <<Set("brk", 1), Fork("childPid", "func"), Wait("c"), Show("brk"), Show("status"),
               Exit(0)>>,
    func |-> <<Add("brk", 256), Exit(5)>>]

closeonexec == [
    main |-> <<Either("run"), Cloexec("stdout"), Set("flag", 1), Goto("run")>>,
    run |-> <<Exec("ls")>>,
    ls |-> <<Close("stdout"), Show("closed"), Exit(0)>>]

system_M == [
    system |-> <<Block({}, "origMask"), GetAction("INT", "saOrigInt"),
                 Sigaction("INT", "IGN", {}, {}), ForkOr("childPid", "inChild", "failed"),
                 Goto("waiting")>>]

\* system(): SIGCHLD blocked, SIGINT (and SIGQUIT, treated alike) ignored
\* around the child; in the child the signals are as the caller had them.
system == [
    system |-> <<Block({"CHLD"}, "origMask"), GetAction("INT", "saOrigInt"),
                 Sigaction("INT", "IGN", {}, {}), ForkOr("childPid", "inChild", "failed"),
                 Goto("waiting")>>]
systemRest == [
    failed |-> <<Set("status", [how |-> "failed", n |-> -1]), Goto("restore")>>,
    inChild |-> <<Sigaction("INT", "DFL", {}, {}), Restore("origMask"), Either("noShell"),
                  Exec("sh")>>,
    noShell |-> <<Exit(127)>>,
    sh |-> <<Either("done"), Sleep(""), Exit(3)>>,
    waiting |-> <<Waitpid("w", "childPid", {}), If("w", "=", EINTR, "waiting"),
                  If("w", "<", 0, "failed"), Goto("restore")>>,
    restore |-> <<Restore("origMask"), PutAction("INT", "saOrigInt"), Goto("returned")>>]

\* The caller has a SIGCHLD handler that reaps any child, and handles SIGINT;
\* the user types SIGINT at the terminal once.
t_system == system @@ systemRest @@ [
    main |-> <<Sigaction("CHLD", "reaper", {"RESTART"}, {}), Sigaction("INT", "onInt", {}, {}),
               Goto("system")>>,
    returned |-> <<Show("status"), Exit(0)>>,
    done |-> <<Exit(0)>>,
    reaper |-> <<Waitpid("z", "any", {"nohang"}), If("z", "<", 1, "back"), Goto("reaper")>>,
    back |-> <<Return>>,
    onInt |-> <<Return>>,
    user |-> <<Killpg("first", "INT"), Exit(0)>>]

-----------------------------------------------------------------------------
(* signals and timers.  Block "user" is what a person or another program of*)
(* the same directory (sig_sender, t_sigqueue) sends to the program, process*)
(* 1.  Clocks, and what is printed of them, are left out.                  *)

signal(sig, handler) == Sigaction(sig, handler, {"RESTART"}, {})

\* The default build: the loop waits in sigsuspend().
t_sigsuspend == [
    loop |-> <<If("gotSigquit", "=", 1, "exited"), Say("critical"), Say("end"),
               Sigsuspend({}), Goto("loop")>>,
    main |-> <<Block({"INT", "QUIT"}, "origMask"), Sigaction("INT", "handler", {}, {}),
               Sigaction("QUIT", "handler", {}, {}), Goto("loop")>>,
    exited |-> <<Restore("origMask"), Exit(0)>>,
    handler |-> <<Show("sig"), If("sig", "=", "QUIT", "quit"), Goto("count")>>,
    quit |-> <<Set("gotSigquit", 1), Goto("count")>>,
    count |-> <<Return>>,
    user |-> <<Kill("first", "INT"), Kill("first", "QUIT"), Exit(0)>>]

\* SIGQUIT and SIGTSTP keep their defaults; the handler runs with all signals
\* blocked.  The sender is t_sigqueue, three times, and then SIGINT.
catch_rtsigs == [
    main |-> <<Sigaction("RT1", "siginfoHandler", {}, AllSigs),
               Sigaction("RT2", "siginfoHandler", {}, AllSigs),
               Sigaction("INT", "siginfoHandler", {}, AllSigs), Either("wait"),
               SetMask(AllSigs \ {"INT", "TERM"}, "prevMask"), Sleep(""), Restore("prevMask"),
               Goto("wait")>>,
    wait |-> <<If("allDone", "=", 1, "done"), Pause, Goto("wait")>>,
    done |-> <<Show("sigCnt"), Exit(0)>>,
    siginfoHandler |-> <<If("sig", "in", {"INT", "TERM"}, "last"), Add("sigCnt", 1), Show("sval"),
                         Sleep(""), Return>>,
    last |-> <<Set("allDone", 1), Return>>]
t_sigqueue == [
    user |-> <<Sigqueue("first", "RT2", 3), Sigqueue("first", "RT1", 1),
               Sigqueue("first", "RT1", 2), Kill("first", "INT"), Exit(0)>>]

\* SIGINT is blocked, made pending, ignored, and its handler set again.
ignore_pending_sig == [
    main |-> <<Sigaction("INT", "handler", {}, {}), SetMask({"INT"}, ""), Sleep(""),
               Sigpending("pending"), Show("pending"), Sleep(""), signal("INT", "IGN"),
               Goto("ignoring")>>,
    ignoring |-> <<Sigpending("pending"), Sleep(""), Sigaction("INT", "handler", {}, {}),
                   Goto("again")>>,
    again |-> <<Sleep(""), SetMask({}, ""), Exit(0)>>,
    handler |-> <<Say("caught"), Return>>,
    user |-> <<Kill("first", "INT"), Say("sent"), Exit(0)>>]

sig_speed_sigsuspend_M == [
    child |-> <<Kill("parent", "USR1"), SetMask({}, ""), Pause, SetMask({"USR1"}, ""), Add("scnt", 1),
                If("scnt", "<", 2, "child"), Exit(0)>>]

\* Two signals each way.
sig_speed_sigsuspend == [
    child |-> <<Kill("parent", "USR1"), Sigsuspend({}), Add("scnt", 1),
                If("scnt", "<", 2, "child"), Exit(0)>>]
sig_speed_parent == [
    main |-> <<Sigaction("USR1", "handler", {}, {}), SetMask({"USR1"}, ""),
               Fork("childPid", "child"), Goto("parent")>>,
    parent |-> <<Sigsuspend({}), Kill("childPid", "USR1"), Add("scnt", 1),
                 If("scnt", "<", 2, "parent"), Exit(0)>>,
    handler |-> <<Return>>]

sig_receiver == [
    main |-> <<signal("USR1", "handler"), signal("INT", "handler"), Either("busy"),
               SetMask(AllSigs, ""), Sleep(""), Sigpending("pending"), SetMask({}, ""),
               Goto("busy")>>,
    busy |-> <<If("gotSigint", "=", 1, "report"), Goto("busy")>>,
    report |-> <<Show("sigCnt"), Exit(0)>>,
    handler |-> <<If("sig", "=", "INT", "int"), Add("sigCnt", 1), Return>>,
    int |-> <<Set("gotSigint", 1), Return>>]
sig_sender == [
    user |-> <<Kill("first", "USR1"), Kill("first", "USR1"), Say("sent"), Kill("first", "INT"),
               Exit(0)>>]

\* Both builds: sigsetjmp() saves the mask, setjmp() does not.
sigmask_longjmp == [
    main |-> <<Sigaction("INT", "handler", {}, {}), Either("plain"), Setjmp("r", TRUE),
               If("r", "=", 0, "set"), Goto("jumped")>>,
    plain |-> <<Setjmp("r", FALSE), If("r", "=", 0, "set"), Goto("jumped")>>,
    set |-> <<Set("canJump", 1), Goto("pausing")>>,
    jumped |-> <<Goto("pausing")>>,
    pausing |-> <<Pause, Goto("pausing")>>,
    handler |-> <<Say("caught"), If("canJump", "=", 0, "back"), Longjmp("env")>>,
    back |-> <<Return>>,
    user |-> <<Kill("first", "INT"), Kill("first", "INT"), Exit(0)>>]

t_sigwaitinfo == [
    main |-> <<SetMask(AllSigs, ""), Either("loop"), Sleep(""), Goto("loop")>>,
    loop |-> <<Sigwaitinfo(AllSigs, "signo"), If("signo", "in", {"INT", "TERM"}, "exit"),
               Show("si_value"), Goto("loop")>>,
    exit |-> <<Exit(0)>>,
    user |-> <<Sigqueue("first", "RT1", 1), Sigqueue("first", "RT1", 2), Kill("first", "INT"),
               Exit(0)>>]

\* Reading a signalfd takes a pending signal of its mask.
signalfd_sigval == [
    main |-> <<Block({"RT1", "INT"}, ""), Goto("loop")>>,
    loop |-> <<Sigwaitinfo({"RT1", "INT"}, "ssi_signo"), Show("si_value"), Goto("loop")>>,
    user |-> <<Sigqueue("first", "RT1", 1), Kill("first", "INT"), Sigqueue("first", "RT1", 2),
               Exit(0)>>]

\* crypt() returns its static buffer, which the handler's call overwrites.
nonreentrant == [
    main |-> <<Set("static", "cr1"), Sigaction("INT", "handler", {}, {}), Goto("loop")>>,
    loop |-> <<Set("static", "cr1"), If("static", "#", "cr1", "differs"), Goto("loop")>>,
    differs |-> <<Set("mismatch", 1), Goto("loop")>>,
    handler |-> <<Set("static", "cr2"), Set("handled", 1), Return>>,
    user |-> <<Kill("first", "INT"), Exit(0)>>]

intquit == [
    main |-> <<signal("INT", "sigHandler"), signal("QUIT", "sigHandler"), Goto("loop")>>,
    loop |-> <<Pause, Goto("loop")>>,
    sigHandler |-> <<Show("sig"), If("sig", "=", "INT", "int"), Exit(0)>>,
    int |-> <<Add("count", 1), Return>>,
    user |-> <<Kill("first", "INT"), Kill("first", "QUIT"), Exit(0)>>]

ouch == [
    main |-> <<signal("INT", "sigHandler"), Goto("loop")>>,
    loop |-> <<Sleep(""), Goto("loop")>>,
    sigHandler |-> <<Say("Ouch!"), Return>>,
    user |-> <<Kill("first", "INT"), Exit(0)>>]

\* siginterrupt(SIGINT, 1) clears SA_RESTART, which signal() had set.
siginterrupt == [
    siginterrupt |-> <<GetAction("INT", "act"), ClearRestart("act"), PutAction("INT", "act"),
                       Goto("reading")>>,
    main |-> <<signal("INT", "handler"), Goto("siginterrupt")>>,
    reading |-> <<Set("armed", 1), Read("stdin", "buf", 1), Show("numRead"), Exit(0)>>,
    handler |-> <<Return>>,
    user |-> <<Kill("first", "INT"), Sleep(""), Exit(0)>>]

\* The default timer expires once; one with an interval, three times here.
real_timer == [
    main |-> <<Sigaction("ALRM", "sigalrmHandler", {}, {}), Set("maxSigs", 1), Either("once"),
               Set("maxSigs", 3), Settimer(3), Goto("loop")>>,
    once |-> <<Settimer(1), Goto("loop")>>,
    loop |-> <<If("gotAlarm", "=", 0, "loop2"), Set("gotAlarm", 0), Add("sigCnt", 1),
               IfVar("sigCnt", "<", "maxSigs", "loop"), Show("sigCnt"), Exit(0)>>,
    loop2 |-> <<Goto("loop")>>,
    sigalrmHandler |-> <<Set("gotAlarm", 1), Return>>]

t_nanosleep == [
    main |-> <<Sigaction("INT", "sigintHandler", {}, {}), Goto("loop")>>,
    loop |-> <<Sleep("s"), If("s", "#", 0, "loop"), Say("Sleep complete"), Exit(0)>>,
    sigintHandler |-> <<Say("interrupted"), Return>>,
    user |-> <<Kill("first", "INT"), Kill("first", "INT"), Exit(0)>>]

timed_read == [
    main |-> <<Either("restarting"), Sigaction("ALRM", "handler", {}, {}), Goto("read")>>,
    restarting |-> <<Set("restart", 1), Sigaction("ALRM", "handler", {"RESTART"}, {}), Goto("read")>>,
    read |-> <<Settimer(1), Read("stdin", "buf", 2), Settimer(0), If("numRead", "=", EINTR, "late"),
               Show("buf"), Exit(0)>>,
    late |-> <<Say("Read timed out"), Exit(0)>>,
    handler |-> <<Say("Caught signal"), Return>>,
    user |-> <<Set("line", <<7>>), Either("never"), Write("tty", "line"), Goto("never")>>,
    never |-> <<Pause, Goto("never")>>]

cpu_burner == [
    main |-> <<Sigaction("TERM", "handler", {}, {}), Sigaction("INT", "handler", {}, {}), Goto("loop")>>,
    loop |-> <<If("gotSig", "=", 1, "bye"), Goto("loop")>>,
    bye |-> <<Say("Bye!"), Exit(0)>>,
    handler |-> <<Set("gotSig", 1), Return>>,
    user |-> <<Kill("first", "INT"), Exit(0)>>]

\* The timer is a descriptor; a read takes all its expirations since the last.
demo_timerfd == [
    main |-> <<Set("maxExp", 3), Goto("loop")>>,
    loop |-> <<Read("stdin", "numExp", 8), AddVar("totalExp", "numRead"),
               IfVar("totalExp", "<", "maxExp", "loop"), Show("totalExp"), Exit(0)>>,
    user |-> <<Set("one", <<1>>), Set("n", 0), Goto("tick")>>,
    tick |-> <<Write("tty", "one"), Add("n", 1), If("n", "<", 3, "tick"), Pause>>]

ptmr_null_evp == [
    main |-> <<Sigaction("ALRM", "handler", {}, {}), Settimer(2), Goto("loop")>>,
    loop |-> <<Pause, Goto("loop")>>,
    handler |-> <<Show("sig"), Return>>]

\* Two timers, each with one expiration, known by their signals' values.
ptmr_sigev_signal == [
    main |-> <<Sigaction("RT2", "handler", {}, {}), Fork("t", "timer"), Goto("loop")>>,
    loop |-> <<Pause, Goto("loop")>>,
    timer |-> <<Sigqueue("parent", "RT2", 1), Sigqueue("parent", "RT2", 2), Exit(0)>>,
    handler |-> <<Show("sval"), Return>>]

-----------------------------------------------------------------------------
(* pgsjc, daemons and simple_init.c: process groups, sessions, job control,*)
(* daemons, the init of a PID namespace.                                   *)

\* The child stays in the parent's process group or makes its own.  The user
\* hangs up: the shell passes SIGHUP to the group of the job.
catch_SIGHUP == [
    main |-> <<Sigaction("HUP", "handler", {}, {}), Either("sameGroup"), Set("own", 1),
               Fork("childPid", "setpgid"), Goto("alarm")>>,
    sameGroup |-> <<Fork("childPid", "alarm"), Goto("alarm")>>,
    setpgid |-> <<Setpgid, Goto("alarm")>>,
    alarm |-> <<Settimer(1), Goto("loop")>>,
    loop |-> <<Pause, Goto("loop")>>,
    handler |-> <<Show("own"), Return>>,
    user |-> <<Killpg("first", "HUP"), Say("hung up"), Exit(0)>>]

\* Two children, the second one in a group of its own.
disc_SIGHUP == [
    main |-> <<Fork("c", "child"), Fork("c", "apart"), Goto("alarm")>>,
    apart |-> <<Setpgid, Goto("child")>>,
    child |-> <<Sigaction("HUP", "handler", {}, {}), Goto("alarm")>>,
    alarm |-> <<Settimer(1), Goto("loop")>>,
    loop |-> <<Pause, Goto("loop")>>,
    handler |-> <<Say("caught"), Return>>,
    user |-> <<Killpg("first", "HUP"), Exit(0)>>]

\* The handler takes the default action itself: it stops, and when it is
\* continued it sets itself up again.
tstpHandler == [
    tstpHandler |-> <<Sigaction("TSTP", "DFL", {"RESTART"}, {}), Kill("self", "TSTP"), Unblock({"TSTP"}, "prevMask"),
                      Restore("prevMask"), Sigaction("TSTP", "tstpHandler", {"RESTART"}, {}),
                      Return>>]
handling_SIGTSTP == tstpHandler @@ [
    main |-> <<Sigaction("TSTP", "tstpHandler", {"RESTART"}, {}), Goto("loop")>>,
    loop |-> <<Pause, Goto("loop")>>,
    user |-> <<Kill("first", "TSTP"), Sleep(""), Kill("first", "CONT"), Kill("first", "TSTP"),
               Sleep(""), Goto("resume")>>,
    resume |-> <<Kill("first", "CONT"), Exit(0)>>]

\* One command of a pipeline.
job_mon == [
    main |-> <<Sigaction("INT", "handler", {"RESTART"}, {}),
               Sigaction("TSTP", "handler", {"RESTART"}, {}),
               Sigaction("CONT", "handler", {"RESTART"}, {}), Add("cmdNum", 1), Goto("loop")>>,
    loop |-> <<Pause, Goto("loop")>>,
    handler |-> <<Show("sig"), If("sig", "=", "TSTP", "stop"), Return>>,
    stop |-> <<Kill("self", "STOP"), Return>>,
    user |-> <<Killpg("first", "TSTP"), Killpg("first", "CONT"), Killpg("first", "INT"), Exit(0)>>]

\* One child stops itself, the other one pauses; the parent's exit orphans
\* their process group.
orphaned_pgrp_SIGHUP == [
    main |-> <<Sigaction("HUP", "handler", {}, {}), Sigaction("CONT", "handler", {}, {}),
               Fork("c", "stops"), Fork("c", "pauses"), Sleep(""), Exit(0)>>,
    stops |-> <<Kill("self", "STOP"), Goto("ends")>>,
    pauses |-> <<Settimer(1), Pause, Goto("ends")>>,
    ends |-> <<Exit(0)>>,
    handler |-> <<Show("sig"), Return>>]

t_setsid == [
    main |-> <<Fork("c", "child"), Exit(0)>>,
    child |-> <<Setsid("r"), Show("r"), Exit(1)>>]

\* The init of a PID namespace, which gets the orphans too, and its shell: two commands
\* at most, the first of which may leave a process behind.
child_handler == [
    child_handler |-> <<Waitpid("w", "any", {"nohang", "stopped", "continued"}),
                        If("w", "<", 1, "reaped"), Goto("child_handler")>>,
    reaped |-> <<Return>>]
simple_init == child_handler @@ [
    main |-> <<Subreaper, Sigaction("CHLD", "child_handler", {"RESTART", "NOCLDSTOP"}, {}), Setpgid,
               Set("left", 2), Goto("prompt")>>,
    prompt |-> <<Either("eof"), If("left", "=", 0, "eof"), Add("left", -1), Fork("pid", "command"),
                 Goto("paused")>>,
    paused |-> <<Pause, Goto("prompt")>>,
    command |-> <<Setpgid, Either("done"), If("left", "=", 0, "done"), Fork("c", "done"), Goto("done")>>,
    done |-> <<Sleep(""), Exit(0)>>,
    eof |-> <<Exit(0)>>]

becomeDaemon_M == [
    becomeDaemon |-> <<ForkOr("c", "inChild", "failed"), Exit(0)>>,
    inChild |-> <<Setsid("s"), If("s", "=", -1, "failed"), Goto("grandchild")>>]

\* The parent exits, the child starts a session, and its own child is no
\* session leader.
becomeDaemon == [
    becomeDaemon |-> <<ForkOr("c", "inChild", "failed"), Exit(0)>>,
    inChild |-> <<Setsid("s"), If("s", "=", -1, "failed"), ForkOr("c", "grandchild", "failed"),
                  Exit(0)>>]
becomeDaemonRest == [
    grandchild |-> <<If("flags", "has", "NO_UMASK0", "chdir"), Umask(0), Goto("chdir")>>,
    chdir |-> <<If("flags", "has", "NO_CHDIR", "files"), Chdir("/"), Goto("files")>>,
    files |-> <<If("flags", "has", "NO_CLOSE_FILES", "std"), CloseAll, Goto("std")>>,
    std |-> <<If("flags", "has", "NO_REOPEN", "daemon"), Close("stdin"), Open("stdin", "null", {}),
              Dup2("stdin", "stdout"), Dup2("stdin", "stderr"), Goto("daemon")>>]

\* becomeDaemon(0), as every caller calls it, and with two other sets of flags.
test_become_daemon == becomeDaemon @@ becomeDaemonRest @@ [
    main |-> <<Umask(18), Open("file", "f", {}), Set("flags", {}), Either("becomeDaemon"),
               Set("flags", {"NO_UMASK0", "NO_CLOSE_FILES"}), Either("becomeDaemon"),
               Set("flags", {"NO_CHDIR", "NO_REOPEN"}), Goto("becomeDaemon")>>,
    daemon |-> <<Sleep(""), Exit(0)>>,
    failed |-> <<Sleep(""), Exit(0)>>]

sighupHandler_M == [
    reread |-> <<Goto("reading")>>,
    reading |-> <<Say("config"), Set("hupReceived", 0), Goto("loop")>>]

\* SIGHUP sets a flag, which the main loop clears before it reopens its log
\* and reads its configuration again.
sighupHandler == [
    reread |-> <<Set("hupReceived", 0), Goto("reading")>>,
    reading |-> <<Say("config"), Goto("loop")>>]
daemon_SIGHUP == becomeDaemon @@ becomeDaemonRest @@ sighupHandler @@ [
    main |-> <<Sigaction("HUP", "sighupHandler", {"RESTART"}, {}), Set("flags", {}),
               Goto("becomeDaemon")>>,
    failed |-> <<Exit(1)>>,
    daemon |-> <<Say("config"), Goto("loop")>>,
    loop |-> <<Sleep("unslept"), If("hupReceived", "=", 1, "reread"), Goto("loop")>>,
    sighupHandler |-> <<Set("hupReceived", 1), Say("hup"), Return>>,
    user |-> <<Set("pid", 4), Kill("pid", "HUP"), Sleep(""), Kill("pid", "HUP"), Exit(0)>>]

-----------------------------------------------------------------------------
(* The programs and the processes each starts with.                        *)

Programs == [
    multi_SIGCHLD |-> multi_SIGCHLD, fork_sig_sync |-> fork_sig_sync,
    make_zombie |-> make_zombie, child_status |-> child_status, multi_wait |-> multi_wait,
    orphan |-> orphan, fork_whos_on_first |-> fork_whos_on_first, t_fork |-> t_fork,
    t_vfork |-> t_vfork, vfork_fd_test |-> vfork_fd_test, pdeath_signal |-> pdeath_signal,
    demo_clone |-> demo_clone, t_clone |-> t_clone, fork_file_sharing |-> fork_file_sharing,
    fork_stdio_buf |-> fork_stdio_buf, footprint |-> footprint, closeonexec |-> closeonexec,
    t_system |-> t_system,
    t_sigsuspend |-> t_sigsuspend, catch_rtsigs |-> catch_rtsigs @@ t_sigqueue,
    ignore_pending_sig |-> ignore_pending_sig,
    sig_speed_sigsuspend |-> sig_speed_sigsuspend @@ sig_speed_parent,
    sig_receiver |-> sig_receiver @@ sig_sender, sigmask_longjmp |-> sigmask_longjmp,
    t_sigwaitinfo |-> t_sigwaitinfo, signalfd_sigval |-> signalfd_sigval,
    nonreentrant |-> nonreentrant, intquit |-> intquit, ouch |-> ouch,
    siginterrupt |-> siginterrupt, real_timer |-> real_timer,
    t_nanosleep |-> t_nanosleep, timed_read |-> timed_read, cpu_burner |-> cpu_burner,
    demo_timerfd |-> demo_timerfd, ptmr_null_evp |-> ptmr_null_evp,
    ptmr_sigev_signal |-> ptmr_sigev_signal,
    catch_SIGHUP |-> catch_SIGHUP, disc_SIGHUP |-> disc_SIGHUP,
    handling_SIGTSTP |-> handling_SIGTSTP, job_mon |-> job_mon,
    orphaned_pgrp_SIGHUP |-> orphaned_pgrp_SIGHUP, t_setsid |-> t_setsid, simple_init |-> simple_init,
    test_become_daemon |-> test_become_daemon, daemon_SIGHUP |-> daemon_SIGHUP]

\* A program with a block "user" runs with a user at the terminal, process 2.
Starts == [x \in DOMAIN Programs |->
             IF "user" \in DOMAIN Programs[x] THEN <<"main", "user">> ELSE <<"main">>]

-----------------------------------------------------------------------------
\* Variables of process p, which outlive it; what p has printed, in order.
Has(p, v)   == ps[p].mm # 0 /\ v \in DOMAIN mem[ps[p].mm]
Lines(p)    == SelectSeq(out, LAMBDA e : e[1] = p)
Said(p, x)  == {k \in DOMAIN out : out[k] = <<p, x>>}
Shown(p, v) == {out[k][3] : k \in {j \in DOMAIN out : out[j][1] = p /\ out[j][2] = v}}
Done(p)     == ps[p].st \in {"zombie", "gone"} /\ ps[p].code = [how |-> "exited", n |-> 0]
In(p, l)    == Alive(p) /\ ps[p].at[1] = l /\ ps[p].stk = <<>>

\* Every child is waited for once and by the right code.  sigchldHandler() counts every
\* child although their SIGCHLDs coalesce (multi_SIGCHLD.c); multi_wait.c ends when all
\* its children are reaped; system() (system.c) gives the status of its own child,
\* although the caller has a SIGCHLD handler that reaps any child, and gives the caller
\* its mask and its dispositions back; child_status.c ends with the status of the end;
\* simple_init.c leaves no zombie, of a command or of an orphan, without a SIGCHLD that is
\* still to be handled, and asks for the next command after something has ended.
ChildrenReaped ==
    LET gone == {c \in Pids : ps[c].ppid = 1 /\ ps[c].st = "gone"}
    IN  CASE prog = "multi_SIGCHLD" ->
               /\ In(1, "loop") => Val(1, "numLiveChildren") = 3 - Cardinality(gone)
               /\ In(1, "done") => Cardinality(gone) = 3
          [] prog = "multi_wait" -> In(1, "bye") => Val(1, "numDead") = 3 /\ Cardinality(gone) = 3
          [] prog = "t_system" -> In(1, "returned") =>
               /\ IF Val(1, "childPid") = 0 THEN Val(1, "status").how = "failed"
                  ELSE Val(1, "status") = ps[Val(1, "childPid")].code
               /\ ps[1].mask = {} /\ Act(ps[1], "INT").h = "onInt"
          [] prog = "simple_init" ->
               /\ Alive(1) /\ (\E c \in Pids : ps[c].ppid = 1 /\ ps[c].st = "zombie") =>
                    ps[1].stk # <<>> \/ \E k \in DOMAIN ps[1].pend : ps[1].pend[k].s = "CHLD"
               /\ In(1, "prompt") /\ ps[1].at[2] = 1 => Cardinality(gone) + Val(1, "left") >= 2
          [] prog = "child_status" -> Done(1) => Val(1, "status") = ps[Val(1, "c")].code
          [] OTHER -> TRUE

\* No signal is lost, handled in a critical section, or left blocked.  t_sigsuspend.c
\* handles its signals only in sigsuspend(); tstpHandler() is in place and SIGTSTP
\* unblocked whenever main() runs again (handling_SIGTSTP.c); siglongjmp() restores the
\* mask that sigsetjmp() saved (sigmask_longjmp.c); every SIGHUP is followed by a reading
\* of the configuration (daemon_SIGHUP.c); SIG_IGN discards a pending signal for good
\* (ignore_pending_sig.c); real-time signals are counted one by one, in order, standard
\* ones at least once (catch_rtsigs.c, sig_receiver.c, t_sigwaitinfo.c).
SignalsKept ==
    CASE prog = "t_sigsuspend" ->
           LET l == Lines(1)
           IN  \A k \in 1 .. (Len(l) - 1) : l[k] = <<1, "critical">> => l[k + 1] = <<1, "end">>
      [] prog = "handling_SIGTSTP" -> In(1, "loop") => ps[1].mask = {} /\ Act(ps[1], "TSTP").h = "tstpHandler"
      [] prog = "sigmask_longjmp" -> In(1, "jumped") /\ Val(1, "env").keep => ps[1].mask = {}
      [] prog = "daemon_SIGHUP" ->
           In(4, "loop") /\ Val(4, "hupReceived") = 0 =>
              \A k \in Said(4, "hup") : \E j \in Said(4, "config") : k < j
      [] prog = "ignore_pending_sig" -> {"INT"} \in Shown(1, "pending") => Said(1, "caught") = {}
      [] prog = "catch_rtsigs" -> In(1, "done") => Val(1, "sigCnt") = 3
      [] prog = "sig_receiver" -> In(1, "report") => Val(1, "sigCnt") \in {1, 2}
      [] OTHER -> TRUE

\* The programs that order two processes by a signal, by vfork() or by a queue get that
\* order whatever the scheduler does: the child's work comes before the parent's
\* (fork_sig_sync.c, t_vfork.c); parent and child take turns (sig_speed_sigsuspend.c);
\* values sent to one real-time signal arrive in their order (catch_rtsigs.c,
\* t_sigwaitinfo.c, signalfd_sigval.c).
InOrder ==
    LET Before(x, y) == \A k \in DOMAIN out : out[k][2] = y => \E j \in 1 .. k : out[j][2] = x
        Values(v) == SelectSeq([k \in DOMAIN out |-> IF out[k][2] = v THEN out[k][3] ELSE 0],
                               LAMBDA n : n \in {1, 2})
    IN  CASE prog = "fork_sig_sync" -> Before("child work done", "parent got signal")
          [] prog = "t_vfork" -> Before("Child executing", "Parent executing") /\ Shown(1, "istack") \subseteq {666}
          [] prog = "sig_speed_sigsuspend" -> Val(1, "childPid") # 0 =>
               Val(1, "scnt") - Val(2, "scnt") \in -1 .. 1
          [] prog = "catch_rtsigs" -> Values("sval") \in {<<>>, <<1>>, <<1, 2>>}
          [] prog \in {"t_sigwaitinfo", "signalfd_sigval"} ->
               SelectSeq(Values("si_value"), LAMBDA n : n = 1) \in {<<>>, <<1>>, <<1, 1>>}
          [] OTHER -> TRUE

\* Memory, descriptors, file offsets, umask and dispositions are shared exactly where the
\* programs ask for it: t_fork.c, footprint.c (nothing is), fork_file_sharing.c (the open
\* file is), vfork_fd_test.c (the table of descriptors is not), t_clone.c and demo_clone.c
\* (what the flags say), fork_stdio_buf.c (the unflushed line is printed twice).
SharedAsAsked ==
    CASE prog = "t_fork" -> Shown(1, "idata") \subseteq {111} /\ Shown(1, "istack") \subseteq {222}
      [] prog = "footprint" -> Shown(1, "brk") \subseteq {1}
      [] prog = "fork_file_sharing" -> Done(1) => Val(1, "st") = <<1000, {"append"}>>
      [] prog = "vfork_fd_test" -> Done(1) => Shown(1, "closed") = {0, EBADF}
      [] prog = "t_clone" -> Done(1) => (Val(1, "flags") = 1) = (Val(1, "numWritten") = EBADF)
      [] prog = "demo_clone" -> In(1, "checked") =>
           \/ Val(1, "umask") = 1 /\ Val(1, "sa").h = "IGN"
           \/ Val(1, "umask") = 2 /\ (Val(1, "sa").h = "DFL") = (Val(1, "numWritten") = EBADF)
      [] prog = "fork_stdio_buf" -> Live = {} => Cardinality({k \in DOMAIN out : out[k][2] = "stdio"}) = 2
                                                 /\ Cardinality(Said(1, "Ciao")) = 1
      [] OTHER -> TRUE

\* A process that becomeDaemon() (become_daemon.c) has made a daemon is in a session of
\* its own without being its leader, so that it can never acquire a controlling terminal,
\* its parent is init, and umask, directory and descriptors are as the flags ask; an
\* orphaned group with a stopped member is hung up and continued
\* (orphaned_pgrp_SIGHUP.c).
DaemonDetached ==
    CASE prog = "test_become_daemon" ->
           \A p \in Pids : In(p, "daemon") =>
              LET flags == Val(p, "flags")
              IN  /\ ps[p].sid # p /\ (ps[ps[p].sid].st = "gone" => ps[p].ppid = InitPid)
                  /\ (ps[p].umask = 0) = ("NO_UMASK0" \notin flags)
                  /\ (ps[p].cwd = "/") = ("NO_CHDIR" \notin flags)
                  /\ ("file" \in DOMAIN fdt[ps[p].fd]) = ("NO_CLOSE_FILES" \in flags)
                  /\ "NO_REOPEN" \notin flags => "stderr" \in DOMAIN fdt[ps[p].fd]
      [] prog = "orphaned_pgrp_SIGHUP" ->
           Live = {} => \A p \in Pids : ps[p].code.how = "exited" => Shown(p, "sig") \in {{}, {"HUP", "CONT"}}
      [] OTHER -> TRUE

\* Blocks where a program may wait for ever, by its own description.
Idle == [x \in DOMAIN Programs |->
    CASE x = "child_status" -> {"pausing", "loop"}
      [] x = "catch_rtsigs" -> {"wait"}
      [] x \in {"sigmask_longjmp"} -> {"pausing"}
      [] x \in {"signalfd_sigval", "intquit", "ouch", "ptmr_null_evp", "ptmr_sigev_signal",
                "handling_SIGTSTP", "job_mon", "daemon_SIGHUP"} -> {"loop"}
      [] x = "nonreentrant" -> {"loop", "differs"}
      [] x = "simple_init" -> {"paused"}
      [] x = "real_timer" -> {"loop", "loop2"}
      [] x = "demo_timerfd" -> {"tick"}
      [] x = "timed_read" -> {"never", "read"}
      [] OTHER -> {}]
\* Every process ends, is stopped for good, or rests where its program waits for ever: no
\* wakeup is missed between the test of a flag and the wait for the signal that sets it
\* (multi_SIGCHLD.c, fork_sig_sync.c, sig_speed_sigsuspend.c, t_sigsuspend.c), and wait(),
\* clone()'s exit signal and timers end the others.
Ends == <>[](\A p \in Live : ps[p].stop \/ ps[p].at[1] \in Idle[prog])
=============================================================================
