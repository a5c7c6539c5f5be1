------------------------------- MODULE Tables -------------------------------
(***************************************************************************)
(* The exercises of tlpi-solutions/ that rewrite a table of the process:   *)
(* ex05-4/dup.c, dup() and dup2() with fcntl(), in a process another       *)
(* thread of which opens and closes files of its own; and ex06-3/setenv.c, *)
(* xsetenv() and xunsetenv() on environ; with the programs that read the   *)
(* table of processes while it changes, which are those of ProcTree.       *)
(*                                                                         *)
(* A name of the environment is a sequence of letters, since the code      *)
(* compares prefixes; a value is its length, since the code compares       *)
(* lengths.  An entry of environ is a variable, one that was unset (its    *)
(* first byte is 0), or one that has lost its '='.  No name begins another *)
(* that is longer by more than a letter, so that what is left of such an   *)
(* entry still begins like its name.                                       *)
(***************************************************************************)
EXTENDS ProcTree

CONSTANTS MaxFd,        \* dup.c: the highest descriptor, RLIMIT_NOFILE - 1
          DupCalls,     \* bound: how many calls are made
          EnvNames,     \* setenv.c: the sets of names in use, one of which is chosen
          EnvValues,    \* the lengths of values
          EnvCapacity,  \* the first EnvListCapacity
          MaxEnv,       \* bound: the entries of environ
          EnvCalls      \* bound: how many calls are made

\* strncmp(entry, name, strlen(name)) == 0
Begins(name, entry) == Len(name) <= Len(entry) /\ \A k \in 1..Len(name) : name[k] = entry[k]

ASSUME DupAssumption == MaxFd \in Nat /\ DupCalls \in Nat

\* EnvList has room for the terminating NULL when it is first allocated.
ASSUME EnvAssumption ==
    /\ \A names \in EnvNames : \A m, n \in names :
           /\ m \in Seq(Nat) /\ m # <<>>
           /\ Begins(m, n) => Len(n) <= Len(m) + 1
    /\ EnvValues \subseteq Nat /\ EnvCapacity \in Nat \ {0}
    /\ MaxEnv \in Nat /\ EnvCalls \in Nat

VARIABLE prog           \* the program that runs

allVars == <<prog, vars>>

Other == 1

-----------------------------------------------------------------------------
(* dup.c.                                                                  *)

Fds == 0..MaxFd
Closed == "closed"

\* table: the open file description of each descriptor; "a" and "b" are the
\* caller's, "t" is the other thread's.  called: the table at the call; raced:
\* whether the other thread opened a file since then.
DupInit ==
    \E table \in [Fds -> {"a", "b", Closed}] :
        /\ pc = [p \in {Main, Other} |-> "run"]
        /\ g = [table |-> table, called |-> table, fun |-> "none", old |-> 0, new |-> 0,
                ret |-> -1, errno |-> "0", raced |-> FALSE, calls |-> 0]

OpenFd(fd) == fd \in Fds /\ g.table[fd] # Closed

\* fcntl(old, F_DUPFD, start): the lowest free descriptor from start on.
FreeFds(start) == {fd \in Fds : fd >= start /\ g.table[fd] = Closed}
Lowest(S) == CHOOSE fd \in S : \A other \in S : fd <= other

Return(from, ret, errno, table) ==
    /\ Go(Main, from, "run")
    /\ g' = [g EXCEPT !.ret = ret, !.errno = errno, !.table = table]

F_DUPFD(from, old, start) ==
    \/ ~OpenFd(old) /\ Return(from, -1, "EBADF", g.table)
    \/ /\ OpenFd(old) /\ FreeFds(start) = {}         \* EMFILE, which is turned into EBADF
       /\ Return(from, -1, IF start \in Fds THEN "EBADF" ELSE "EINVAL", g.table)
    \/ /\ OpenFd(old) /\ FreeFds(start) # {}
       /\ Return(from, Lowest(FreeFds(start)), "0",
                 [g.table EXCEPT ![Lowest(FreeFds(start))] = g.table[old]])

\* A call begins: the arguments may be any, closed, negative or too large.
DupCall ==
    /\ g.calls < DupCalls
    /\ \E fun \in {"xdup", "xdup2"}, old, new \in -1..(MaxFd + 1) :
        /\ fun = "xdup" => new = 0
        /\ Go(Main, "run", fun)
        /\ g' = [g EXCEPT !.fun = fun, !.old = old, !.new = new, !.called = g.table,
                          !.raced = FALSE, !.calls = @ + 1]

Xdup ==
    \/ g.old < 0 /\ Return("xdup", -1, "EBADF", g.table)
    \/ g.old >= 0 /\ F_DUPFD("xdup", g.old, g.old)

\* The checks of xdup2(), with F_GETFL on oldfd.
Xdup2 ==
    \/ (g.old < 0 \/ g.new < 0 \/ ~OpenFd(g.old)) /\ Return("xdup2", -1, "EBADF", g.table)
    \/ OpenFd(g.old) /\ g.old = g.new /\ Return("xdup2", g.new, g.errno, g.table)
    \/ /\ OpenFd(g.old) /\ g.new >= 0 /\ g.old # g.new
       /\ Go(Main, "xdup2", "close") /\ UNCHANGED g

\* close(newfd), an error of which is ignored.
CloseNew ==
    /\ Go(Main, "close", "fcntl")
    /\ g' = IF OpenFd(g.new) THEN [g EXCEPT !.table[g.new] = Closed] ELSE g

DupNew == F_DUPFD("fcntl", g.old, g.new)

\* The other thread opens a file, which takes the lowest descriptor, or closes one.
OtherOpen ==
    /\ FreeFds(0) # {} /\ {fd \in Fds : g.table[fd] = "t"} = {}
    /\ g' = [g EXCEPT !.table[Lowest(FreeFds(0))] = "t", !.raced = TRUE]
    /\ UNCHANGED pc

OtherClose ==
    /\ \E fd \in Fds : g.table[fd] = "t" /\ g' = [g EXCEPT !.table[fd] = Closed, !.raced = TRUE]
    /\ UNCHANGED pc

DupNext == DupCall \/ Xdup \/ Xdup2 \/ CloseNew \/ DupNew
DupEnvironment == OtherOpen \/ OtherClose

DupSettled == pc[Main] = "run"

\* Whatever the other thread opens between the close() and the F_DUPFD of
\* xdup2(), a descriptor that is returned refers to the file of oldfd and is at
\* least newfd.  If nobody interfered it is newfd, no descriptor but newfd and
\* the one returned has changed, and a call that failed has changed nothing.
DupRight ==
    (At(Main, "run") /\ g.calls > 0) =>
        /\ g.ret >= 0 => /\ g.ret >= (IF g.fun = "xdup2" THEN g.new ELSE g.old)
                         /\ g.called[g.old] \in {"a", "b"} => g.table[g.ret] = g.called[g.old]
        /\ g.ret >= 0 /\ ~g.raced =>
              /\ g.fun = "xdup2" => g.ret = g.new
              /\ \A fd \in Fds \ {g.ret, g.new} : g.table[fd] = g.called[fd]
        /\ g.ret = -1 /\ ~g.raced => g.table = g.called

-----------------------------------------------------------------------------
(* setenv.c.                                                               *)

NoValue == -1

Entry(name, value, own) == [name |-> name, value |-> value, own |-> own, is |-> "set"]

\* environ begins with at most two variables the program did not allocate, in any order.
\* NextEnvVar and capacity are those of EnvList, which is NULL at first; want is
\* what the calls so far have asked for, last the variable of the last xsetenv().
EnvInit ==
    \E names \in EnvNames, value \in EnvValues, m \in 0..2 :
        \E order \in Injection(1..m, names) :
            /\ pc = [p \in {Main} |-> "run"]
            /\ g = [names |-> names,
                    environ |-> [k \in DOMAIN order |-> Entry(order[k], value, FALSE)],
                    EnvList |-> FALSE, NextEnvVar |-> 0, capacity |-> EnvCapacity, calls |-> 0,
                    want |-> [n \in names |-> IF n \in Range(order) THEN value ELSE NoValue],
                    last |-> <<>>]

Live(k, name) == g.environ[k].is = "set" /\ g.environ[k].name = name

\* The value getenv() finds, or NoValue.
Getenv(name) ==
    LET found == {k \in DOMAIN g.environ : Live(k, name)}
    IN IF found = {} THEN NoValue
       ELSE g.environ[CHOOSE k \in found : \A j \in found : k <= j].value

\* The k-th entry begins like name.
Matches(k, name) == g.environ[k].is # "unset" /\ Begins(name, g.environ[k].name)

FirstMatch(name) ==
    LET found == {k \in DOMAIN g.environ : Matches(k, name)}
    IN CHOOSE k \in found : \A j \in found : k <= j

\* environ after xunsetenv(name): every entry that matches is cleared.
Cleared(name) ==
    [k \in DOMAIN g.environ |->
        IF Matches(k, name) THEN [g.environ[k] EXCEPT !.is = "unset"] ELSE g.environ[k]]

Xunsetenv(name) ==
    /\ At(Main, "run") /\ g.calls < EnvCalls
    /\ g' = [g EXCEPT !.environ = Cleared(name), !.want[name] = NoValue, !.calls = @ + 1,
                      !.last = <<>>]
    /\ UNCHANGED pc

\* The entry after value was copied to *ep + name_len + 1.
Overwritten(entry, name, value) ==
    IF entry.name = name THEN [entry EXCEPT !.value = value] ELSE [entry EXCEPT !.is = "broken"]

Asked(name, value) ==
    [g EXCEPT !.want[name] = value, !.calls = @ + 1, !.last = <<name, value>>]

\* A new variable (EnvList is allocated or enlarged first), after which environ is rest and the new entry.
Added(rest, name, value) ==
    [Asked(name, value) EXCEPT
        !.environ = Append(rest, Entry(name, value, TRUE)), !.EnvList = TRUE,
        !.NextEnvVar = @ + 1,
        !.capacity = IF g.NextEnvVar = g.capacity - 1 THEN 2 * @ ELSE @]

Overwrite_M(k, name, value) ==
    LET entry == g.environ[k]
        new == [Asked(name, value) EXCEPT !.environ[k] = Overwritten(@, name, value)]
    IN IF value < entry.value \/ entry.own THEN new ELSE Added(g.environ, name, value)

\* The outcome of overwriting at the first entry that matches, which is the
\* k-th: reuse its space, enlarge what we allocated, or replace it.
Overwrite(k, name, value) ==
    LET entry == g.environ[k]
        new == [Asked(name, value) EXCEPT !.environ[k] = Overwritten(@, name, value)]
    IN IF value < entry.value \/ entry.own THEN new
       ELSE Added(Cleared(name), name, value)

\* strchr() finds no '=', or EnvList is followed while it is NULL.
Crashes(k, value) ==
    \/ g.environ[k].is = "broken"
    \/ ~g.EnvList /\ value >= g.environ[k].value

Xsetenv(name, value, overwrite) ==
    /\ At(Main, "run") /\ g.calls < EnvCalls /\ Len(g.environ) < MaxEnv
    /\ \/ /\ Getenv(name) # NoValue /\ ~overwrite
          /\ g' = [g EXCEPT !.calls = @ + 1, !.last = <<>>] /\ UNCHANGED pc
       \/ /\ Getenv(name) # NoValue /\ overwrite /\ ~Crashes(FirstMatch(name), value)
          /\ g' = Overwrite(FirstMatch(name), name, value) /\ UNCHANGED pc
       \/ /\ Getenv(name) # NoValue /\ overwrite /\ Crashes(FirstMatch(name), value)
          /\ Go(Main, "run", "crashed") /\ UNCHANGED g
       \/ /\ Getenv(name) = NoValue
          /\ g' = Added(g.environ, name, value) /\ UNCHANGED pc

EnvNext ==
    \E name \in g.names :
        \/ Xunsetenv(name)
        \/ \E value \in EnvValues, overwrite \in BOOLEAN : Xsetenv(name, value, overwrite)

\* Whether no name in use begins with another one.
Unrelated == \A m, n \in g.names : Begins(m, n) => m = n

\* When no name in use begins with another one, xsetenv() and xunsetenv() keep a
\* map from names to values, whatever was there before, was unset in between or
\* had to be enlarged: getenv() finds what was last asked for, and once a
\* variable was added the NULL EnvList is never followed.  With any names, a
\* variable is never twice in environ (unsetting the first one would bring an
\* older value back), and EnvList has room for its terminating NULL.
IsMap ==
    /\ Unrelated => \A n \in g.names : Getenv(n) = g.want[n]
    /\ (Unrelated /\ g.EnvList) => pc[Main] = "run"
    /\ \A j, k \in DOMAIN g.environ :
         (g.environ[j].is = "set" /\ Live(k, g.environ[j].name)) => j = k
    /\ g.EnvList => g.NextEnvVar < g.capacity

\* The tests of xsetenv(): after it has succeeded, getenv() finds the new value.
XsetenvSets == (prog = "setenv" /\ g.last # <<>>) => Getenv(g.last[1]) = g.last[2]

-----------------------------------------------------------------------------
(* One of them runs, or proctree or proclist.                              *)

TablesInit ==
    \/ prog = "dup" /\ DupInit
    \/ prog = "setenv" /\ EnvInit
    \/ prog = "proc" /\ ProcInit

TablesNext ==
    /\ UNCHANGED prog
    /\ \/ prog = "dup" /\ (DupNext \/ DupEnvironment)
       \/ prog = "setenv" /\ EnvNext
       \/ prog = "proc" /\ (ProcNext \/ ProcEnvironment)

TablesSpec == TablesInit /\ [][TablesNext]_allVars

\* xdup() and xdup2() return the right descriptor, and the environment is a map from names
\* to values in an EnvList that is large enough.
TablesRight ==
    /\ prog = "dup" => DupRight
    /\ prog = "setenv" => IsMap

\* No process that stays is missed by the scan of /proc, none is seen twice, and no parent
\* is missing: NoneMissed and ParentsRead of ProcTree.
ProcessesFound == prog = "proc" => NoneMissed /\ ParentsRead
=============================================================================
