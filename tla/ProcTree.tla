------------------------------ MODULE ProcTree ------------------------------
(***************************************************************************)
(* tlpi-solutions/ex12-2/proctree.c and ex12-1/proclist.c: programs that   *)
(* read the process list from /proc while processes are created and end.   *)
(*                                                                         *)
(* The kernel (external) lists /proc in the order of process IDs, has      *)
(* nothing to read for a process that ended after its file was opened, and *)
(* gives the children of a process that ends to process 1.  Process IDs do *)
(* not wrap around while the program runs.                                 *)
(***************************************************************************)
EXTENDS Processes, Functions, TLC

CONSTANTS MaxPid,       \* bound: the highest process ID
          Initial,      \* how many processes there are at first
          Kernel,       \* those of them, beside 1, whose parent is 0
          Mine,         \* the processes of the user proclist is asked for
          CHILD_MAX     \* the first size of an array of children

\* Process 1 is there from the start, and the processes without a parent are among the first.
ASSUME ProcAssumption ==
    /\ MaxPid \in Nat /\ Initial \in 1..MaxPid /\ Kernel \subseteq 2..Initial
    /\ CHILD_MAX \in Nat

Main == 0
Pids == 1..MaxPid

Trees == {t \in [1..Initial -> 0..Initial] :
            \A p \in 1..Initial : IF p \in Kernel \cup {1} THEN t[p] = 0 ELSE t[p] \in 1..(p - 1)}

\* ppid: the parents of the processes there are; stayed: those there all along;
\* entry: the one readdir() has come to; i: the loop of proctree_build_tree().
ProcInit ==
    \E kind \in {"proctree", "proclist"}, t \in Trees :
        /\ pc = [p \in {Main} |-> "readdir"]
        /\ g = [kind |-> kind, ppid |-> t, next |-> Initial + 1, stayed |-> 1..Initial,
                entry |-> 0, proctab |-> <<>>, printed |-> <<>>, i |-> 1,
                children |-> [p \in Pids |-> <<>>], max_child |-> [p \in Pids |-> CHILD_MAX]]

Alive == DOMAIN g.ppid
Scanning == pc[Main] \in {"readdir", "fopen", "getline"}

\* The kernel: a process makes another one, or ends and is waited for.
Fork ==
    /\ Scanning /\ g.next \in Pids
    /\ \E p \in Alive :
        g' = [g EXCEPT !.next = @ + 1,
                       !.ppid = [q \in Alive \cup {g.next} |-> IF q = g.next THEN p ELSE g.ppid[q]]]
    /\ UNCHANGED pc

Exit ==
    /\ Scanning
    /\ \E p \in Alive \ (Kernel \cup {1}) :
        g' = [g EXCEPT !.stayed = @ \ {p},
                       !.ppid = [q \in Alive \ {p} |-> IF g.ppid[q] = p THEN 1 ELSE g.ppid[q]]]
    /\ UNCHANGED pc

EndOfScan == IF g.kind = "proctree" THEN "build" ELSE "exit"

Readdir ==
    LET later == {p \in Alive : p > g.entry} IN
    \/ /\ later # {} /\ Go(Main, "readdir", "fopen")
       /\ g' = [g EXCEPT !.entry = CHOOSE p \in later : \A q \in later : p <= q]
    \/ /\ later = {} /\ UNCHANGED g
       /\ Go(Main, "readdir", EndOfScan)

Fopen_M == Go(Main, "fopen", IF g.entry \in Alive THEN "getline" ELSE EndOfScan) /\ UNCHANGED g

\* A process that has ended by now is passed over.
Fopen == Go(Main, "fopen", IF g.entry \in Alive THEN "getline" ELSE "readdir") /\ UNCHANGED g

\* The lines of the status file; without them proctree gives up.
Getline ==
    /\ g.kind = "proctree"
    /\ \/ /\ g.entry \in Alive /\ Go(Main, "getline", "readdir")
          /\ g' = [g EXCEPT !.proctab = Append(@, [pid |-> g.entry, ppid |-> g.ppid[g.entry]])]
       \/ g.entry \notin Alive /\ Go(Main, "getline", "fatal") /\ UNCHANGED g

\* proclist prints the name at once, if the user is the one asked for.
GetlineUid ==
    /\ g.kind = "proclist" /\ Go(Main, "getline", "readdir")
    /\ g' = IF g.entry \in Alive \cap Mine THEN [g EXCEPT !.printed = Append(@, g.entry)] ELSE g

procs == SortSeq(g.proctab, LAMBDA x, y : x.pid < y.pid)
Read == {procs[k].pid : k \in DOMAIN procs}

Link_M(parent, pid) == [g EXCEPT !.i = @ + 1, !.children[parent] = Append(@, pid)]

\* procs[i] becomes a child of its parent, the array of which is doubled if full.
Link(parent, pid) ==
    [g EXCEPT !.i = @ + 1, !.children[parent] = Append(@, pid),
              !.max_child[parent] = IF Len(g.children[parent]) = @ THEN 2 * @ ELSE @]

\* One round of proctree_build_tree(), with bsearch() for the parent.
Build ==
    /\ At(Main, "build") /\ g.i <= Len(procs)
    /\ LET proc == procs[g.i] IN
       \/ (proc.pid = 1 \/ proc.ppid = 0) /\ g' = [g EXCEPT !.i = @ + 1] /\ UNCHANGED pc
       \/ /\ proc.pid # 1 /\ proc.ppid # 0
          /\ Go(Main, "build", IF proc.ppid \in Read THEN "build" ELSE "assert")
          /\ g' = IF proc.ppid \in Read THEN Link(proc.ppid, proc.pid) ELSE g

\* The processes below p, in the order they are printed; a process is below one
\* with a lower process ID.
Below[p \in Pids] ==
    LET with[k \in 0..Len(g.children[p])] ==
            IF k = 0 THEN <<p>> ELSE with[k - 1] \o Below[g.children[p][k]]
    IN with[Len(g.children[p])]

\* proctree_print() from process 1, then proctree_delete().
Show ==
    /\ g.i > Len(procs) /\ Go(Main, "build", "exit")
    /\ g' = [g EXCEPT !.printed = Below[1]]

ProcNext == Readdir \/ Fopen \/ Getline \/ GetlineUid \/ Build \/ Show
ProcEnvironment == Fork \/ Exit

ProcSettled == pc[Main] \in {"exit", "fatal"}

\* Processes that were there all along are not missed and none is seen twice,
\* whatever appears or goes while /proc is read; proclist prints those of them
\* that are the user's.
NoneMissed ==
    LET seen == IF g.kind = "proctree" THEN [k \in DOMAIN g.proctab |-> g.proctab[k].pid]
                ELSE g.printed
        due == IF g.kind = "proctree" THEN g.stayed ELSE g.stayed \cap Mine
    IN /\ (At(Main, "build") \/ (At(Main, "exit") /\ g.kind = "proclist"))
             => due \subseteq Range(seen)
       /\ IsInjective(seen)

\* Whoever is named as a parent in what was read of /proc was read too, though
\* processes ended and were given to process 1 meanwhile: the search for a parent
\* of proctree_build_tree() finds one.
ParentsRead ==
    \A k \in DOMAIN g.proctab :
        g.proctab[k].ppid # 0 => \E j \in DOMAIN g.proctab : g.proctab[j].pid = g.proctab[k].ppid

\* The tree printed holds every process read that descends from process 1, once,
\* and assert(parent) holds.  No array of children is overrun; and process 1 is
\* the first of procs, from where all are freed.
TreeRight ==
    /\ pc[Main] # "assert"
    /\ (At(Main, "exit") /\ g.kind = "proctree") =>
        LET entry(q) == procs[CHOOSE k \in DOMAIN procs : procs[k].pid = q]
            user[q \in 0..MaxPid] == q = 1 \/ (q > 1 /\ user[entry(q).ppid])
        IN /\ Range(g.printed) = {q \in Read : user[q]} /\ IsInjective(g.printed)
           /\ \A p \in Pids : Len(g.children[p]) <= g.max_child[p]
           /\ procs[1].pid = 1

=============================================================================
