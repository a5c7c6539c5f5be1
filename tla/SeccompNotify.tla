---------------------------- MODULE SeccompNotify ----------------------------
(***************************************************************************)
(* seccomp_unotify_mkdir.c and seccomp_unotify_openat.c: a supervisor that *)
(* performs the mkdir() and openat() calls of a target process.  A call of *)
(* the target makes a notification, which lives until it is answered or    *)
(* the call ends otherwise: by a signal, or because one of the two is gone.*)
(***************************************************************************)
EXTENDS Processes

CONSTANTS Mkdirs,       \* the arguments given to seccomp_unotify_mkdir
          Openats,      \* those given to seccomp_unotify_openat
          MaxSignals    \* signals that interrupt a call of the target

S == 0      \* the supervisor
T == 1      \* the target

\* k: the call of the target; res: the results of the earlier ones; notif: the
\* notification for call k; req, path, status, resp: the supervisor's variables;
\* acted: the calls it acted for, with the path it used.
Init ==
    \E tool \in {"mkdir", "openat"}, delay \in BOOLEAN, second \in {"none", "errno", "trace"},
       args \in Mkdirs \cup Openats :
        /\ IF tool = "mkdir" THEN args \in Mkdirs
           ELSE args \in Openats /\ ~ delay /\ second = "none"
        /\ pc = [p \in {S, T} |-> IF p = S THEN "main" ELSE "start"]
        /\ g = [tool |-> tool, delay |-> delay, second |-> second, args |-> args, k |-> 1, res |-> <<>>,
                notif |-> "none", sock |-> FALSE, handler |-> FALSE, chld |-> FALSE, missed |-> FALSE,
                req |-> 0, path |-> [dir |-> "garbage", name |-> ""], status |-> 0, resp |-> "",
                acted |-> {}, dirs |-> {}, fds |-> {}, signals |-> 0]

-----------------------------------------------------------------------------
(* The target.                                                             *)

\* The handler for SIGINT, the filters, and the descriptor sent to the supervisor.
Setup == Go(T, "start", "call") /\ g' = [g EXCEPT !.sock = TRUE]

\* The record after call k of the target returned r.
Returned(r) == [g EXCEPT !.res = Append(@, r), !.k = @ + 1, !.notif = "none"]

\* A second filter that returns SECCOMP_RET_ERRNO comes before the notification; one
\* that returns SECCOMP_RET_TRACE after it.  Nobody listens once the supervisor is gone.
Call ==
    /\ At(T, "call") /\ g.k <= Len(g.args)
    /\ IF g.second = "errno" THEN g' = Returned("ENOTSUP") /\ UNCHANGED pc
       ELSE IF At(S, "exit") THEN g' = Returned("ENOSYS") /\ UNCHANGED pc
       ELSE Go(T, "call", "blocked") /\ g' = [g EXCEPT !.notif = "init"]

\* After SECCOMP_USER_NOTIF_FLAG_CONTINUE the target makes the directory itself.
Execute ==
    /\ Go(T, "execute", "call")
    /\ LET d == g.args[g.k]
       IN  g' = [Returned(IF d \in g.dirs THEN "EEXIST" ELSE "0") EXCEPT !.dirs = @ \cup {d}]

\* The end of the target; SIGCHLD is ignored until the supervisor has its handler.
Ends(from) ==
    /\ Go(T, from, "exit")
    /\ g' = [g EXCEPT !.notif = "none", !.chld = g.handler, !.missed = ~ g.handler]
Exit == g.k > Len(g.args) /\ Ends("call")

\* SIGINT has a handler in seccomp_unotify_mkdir's target, which does not restart calls.
Interrupt ==
    /\ g.tool = "mkdir" /\ g.signals < MaxSignals /\ Go(T, "blocked", "call")
    /\ g' = [Returned("EINTR") EXCEPT !.signals = @ + 1]
Kill == \E from \in {"start", "call", "blocked", "execute"} : Ends(from)

-----------------------------------------------------------------------------
(* The supervisor.                                                         *)

\* cookieIsValid(): the call that made the notification still waits for its answer.
cookieIsValid == g.notif = "sent" /\ g.k = g.req

\* The supervisor ends, which fails the call that waits for it.
SExits ==
    /\ pc' = [pc EXCEPT ![S] = "exit", ![T] = IF @ = "blocked" THEN "call" ELSE @]
    /\ g' = IF At(T, "blocked") THEN Returned("ENOSYS") ELSE g
sigchldHandler == g.chld /\ ~ At(S, "exit") /\ SExits

InstallHandler == Go(S, "main", "recvfd") /\ g' = [g EXCEPT !.handler = TRUE]
Recvfd == g.sock /\ Go(S, "recvfd", "recv") /\ UNCHANGED g
Recv ==
    /\ g.notif = "init" /\ Go(S, "recv", IF g.delay THEN "delay" ELSE "open")
    /\ g' = [g EXCEPT !.notif = "sent", !.req = g.k]

\* With -d the notification is checked before and after the delay.
Delay ==
    \E step \in {<<"delay", "slept">>, <<"slept", "open">>} :
        IF cookieIsValid THEN Go(S, step[1], step[2]) /\ UNCHANGED g ELSE At(S, step[1]) /\ SExits

\* getTargetPathname(): the memory of a target that has ended cannot be read.
GTP_OK == 0
GTP_BAD_READ == -1
GTP_ID_NOT_VALID == -2
GTP_BAD_PATH == -3
OpenMem ==
    IF At(T, "exit") THEN Go(S, "open", "respond") /\ g' = [g EXCEPT !.status = GTP_BAD_READ]
    ELSE Go(S, "open", "check") /\ UNCHANGED g
Check ==
    IF cookieIsValid THEN Go(S, "check", "pread") /\ UNCHANGED g
    ELSE Go(S, "check", "respond") /\ g' = [g EXCEPT !.status = GTP_ID_NOT_VALID]
Pread ==
    IF At(T, "exit") THEN Go(S, "pread", "respond") /\ g' = [g EXCEPT !.status = GTP_BAD_READ]
    ELSE Go(S, "pread", "recheck") /\ g' = [g EXCEPT !.path = g.args[g.req]]
Recheck ==
    /\ Go(S, "recheck", "respond")
    /\ g' = [g EXCEPT !.status = IF ~ cookieIsValid THEN GTP_ID_NOT_VALID
                                 ELSE IF g.path.dir = "unterminated" THEN GTP_BAD_PATH ELSE GTP_OK]

\* What the supervisor does for the target, and answers; an openat() goes on with
\* SECCOMP_IOCTL_NOTIF_ADDFD.
Act(answer, dirs) ==
    g' = [g EXCEPT !.resp = answer, !.dirs = @ \cup dirs, !.acted = @ \cup {<<g.req, g.path>>}]
RespondMkdir ==
    /\ g.tool = "mkdir" /\ Go(S, "respond", "send")
    /\ CASE g.path.dir = "/tmp" -> Act(IF g.path \in g.dirs THEN "EEXIST" ELSE "length", {g.path})
         [] g.path.dir = "." -> Act("CONTINUE", {})
         [] OTHER -> Act("EOPNOTSUPP", {})
RespondOpenat ==
    /\ g.tool = "openat"
    /\ \/ Go(S, "respond", "addfd") /\ Act("fd", {})
       \/ Go(S, "respond", "send") /\ Act("ENOENT", {})
Respond_M == RespondMkdir \/ RespondOpenat
Respond ==
    \/ g.status # GTP_OK /\ Go(S, "respond", "send") /\ g' = [g EXCEPT !.resp = "EINVAL"]
    \/ g.status = GTP_OK /\ (RespondMkdir \/ RespondOpenat)

\* The target gets a duplicate of the descriptor, or the supervisor gives up.
Addfd ==
    IF cookieIsValid THEN Go(S, "addfd", "send") /\ g' = [g EXCEPT !.fds = @ \cup {g.req}]
    ELSE At(S, "addfd") /\ SExits

\* An answer to a call that has ended is refused (ENOENT).  After "/bye" the
\* supervisor ends.
Send ==
    LET next == IF g.path.dir = "/bye" /\ g.tool = "mkdir" THEN "bye" ELSE "recv"
    IN  IF ~ cookieIsValid THEN Go(S, "send", next) /\ UNCHANGED g
        ELSE /\ At(S, "send")
             /\ pc' = [pc EXCEPT ![S] = next, ![T] = IF g.resp = "CONTINUE" THEN "execute" ELSE "call"]
             /\ g' = IF g.resp = "CONTINUE" THEN [g EXCEPT !.notif = "none"] ELSE Returned(g.resp)
Bye == At(S, "bye") /\ SExits

Step(p) ==
    \/ p = T /\ (Setup \/ Call \/ Execute \/ Exit)
    \/ p = S /\ \/ InstallHandler \/ Recvfd \/ Recv \/ Delay \/ OpenMem \/ Check \/ Pread \/ Recheck
                \/ Respond \/ Addfd \/ Send \/ Bye \/ sigchldHandler
Environment == Interrupt \/ Kill

Settled == At(T, "exit") /\ (At(S, "exit") \/ g.missed)

\* The supervisor acts for a call with that call's path, never with the one of an
\* earlier call left in its buffer, and the target's calls get their own answers: a
\* directory below /tmp is there when mkdir() succeeds, "./" is left to the target, other
\* places are refused, EINVAL comes for unterminated paths only, a descriptor is in place
\* when openat() returns it, and with a second filter that fails mkdir() nobody is asked.
AnsweredAsAsked ==
    /\ \A a \in g.acted : a[2] = g.args[a[1]]
    /\ \A j \in DOMAIN g.res :
         LET d == g.args[j]
         IN  CASE g.res[j] = "length" -> d.dir = "/tmp" /\ d \in g.dirs
               [] g.res[j] = "0" -> d.dir = "." /\ d \in g.dirs
               [] g.res[j] = "EEXIST" -> d.dir \in {"/tmp", "."} /\ d \in {g.args[i] : i \in 1 .. (j - 1)}
               [] g.res[j] = "EOPNOTSUPP" -> d.dir \notin {"/tmp", ".", "unterminated"}
               [] g.res[j] = "EINVAL" -> d.dir = "unterminated"
               [] g.res[j] = "fd" -> j \in g.fds
               [] g.res[j] = "ENOSYS" -> At(S, "exit")
               [] OTHER -> TRUE
    /\ g.second = "errno" => g.acted = {}
=============================================================================
