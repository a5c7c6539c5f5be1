----------------------------- MODULE NsCapable -----------------------------
(***************************************************************************)
(* namespaces/ns_capable.c: which capabilities a process has in the user   *)
(* namespace that a file under /proc/PID/ns refers to, found by walking up *)
(* the namespaces with ioctl(), with every descriptor it opens and closes. *)
(***************************************************************************)
EXTENDS Processes, FiniteSetsExt

CONSTANTS MaxNs,        \* the user namespaces are 0 .. MaxNs, of which 0 is the initial one
          Uids          \* user IDs of owners and of the process

Main == 0
Ns == 0 .. MaxNs
NoFd == -1

\* parent: the tree of user namespaces; owner: who created them; pidns, euid: of the
\* process asked about; file: the namespace of the file, a user namespace or another
\* one that is owned by it; fds: the open descriptors.
Init ==
    \E parent \in [1 .. MaxNs -> Ns], owner \in [Ns -> Uids], pidns \in Ns, file \in Ns,
       euid \in Uids, user \in BOOLEAN :
        /\ \A n \in 1 .. MaxNs : parent[n] < n
        /\ pc = [p \in {Main} |-> "open"]
        /\ g = [parent |-> parent, owner |-> owner, pidns |-> pidns, euid |-> euid, file |-> file,
                user |-> user, fds |-> [n \in 0 .. 2 |-> 0], target |-> NoFd, pid |-> NoFd,
                child |-> NoFd, says |-> ""]

-----------------------------------------------------------------------------
(* Descriptors.                                                            *)

Lowest(fds) == CHOOSE n \in 0 .. Cardinality(DOMAIN fds) : n \notin DOMAIN fds
                   /\ \A m \in 0 .. (n - 1) : m \in DOMAIN fds
Opened(fds, ns) == [n \in DOMAIN fds \cup {Lowest(fds)} |-> IF n \in DOMAIN fds THEN fds[n] ELSE ns]
Closed(fds, n) == [m \in DOMAIN fds \ {n} |-> fds[m]]

-----------------------------------------------------------------------------
(* main().                                                                 *)

\* The file, and its owning user namespace unless it is one itself.
OpenTarget ==
    /\ Go(Main, "open", "open-PID")
    /\ LET first == Lowest(g.fds)
           fds == Opened(g.fds, g.file)
       IN  g' = IF g.user THEN [g EXCEPT !.fds = fds, !.target = first]
                ELSE [g EXCEPT !.fds = Closed(Opened(fds, g.file), first), !.target = Lowest(fds)]

OpenPid ==
    /\ Go(Main, "open-PID", "compare")
    /\ g' = [g EXCEPT !.fds = Opened(@, g.pidns), !.pid = Lowest(g.fds)]

ns_equal(fds, fd1, fd2) == fds[fd1] = fds[fd2]

\* In the target namespace the process has its own capabilities.
Compare ==
    /\ At(Main, "compare")
    /\ IF ns_equal(g.fds, g.pid, g.target)
       THEN Go(Main, "compare", "close-target") /\ g' = [g EXCEPT !.says = "sets"]
       ELSE Go(Main, "compare", "walk") /\ g' = [g EXCEPT !.child = g.target]

\* One round of is_ancestor_userns(): the parent of 'child' is opened.  At the initial
\* namespace the search fails; otherwise it ends with 'child', or 'child' is closed and
\* the parent is next.
Walk ==
    LET ns == g.fds[g.child]
        up == Lowest(g.fds)
        fds == Opened(g.fds, g.parent[ns])
    IN  /\ At(Main, "walk")
        /\ IF ns = 0
           THEN Go(Main, "walk", "close-target") /\ g' = [g EXCEPT !.says = "none"]
           ELSE IF ns_equal(fds, up, g.pid)
           THEN Go(Main, "walk", "report") /\ UNCHANGED g
           ELSE UNCHANGED pc /\ g' = [g EXCEPT !.fds = Closed(fds, g.child), !.child = up]

\* The owner of the namespace below that of the process has all capabilities.  The
\* descriptor found is closed unless it is the target's.
Report ==
    /\ Go(Main, "report", "close-target")
    /\ LET desc == g.child
       IN  g' = [g EXCEPT !.says = IF g.euid = g.owner[g.fds[desc]] THEN "all" ELSE "sets",
                          !.fds = IF desc # g.target THEN Closed(@, desc) ELSE @]

CloseTarget ==
    IF g.target \in DOMAIN g.fds
    THEN Go(Main, "close-target", "close-pid") /\ g' = [g EXCEPT !.fds = Closed(@, g.target)]
    ELSE Go(Main, "close-target", "failed") /\ UNCHANGED g

ClosePid ==
    IF g.pid \in DOMAIN g.fds
    THEN Go(Main, "close-pid", "exit") /\ g' = [g EXCEPT !.fds = Closed(@, g.pid)]
    ELSE Go(Main, "close-pid", "failed") /\ UNCHANGED g

Next == OpenTarget \/ OpenPid \/ Compare \/ Walk \/ Report \/ CloseTarget \/ ClosePid

Settled == pc[Main] \in {"exit", "failed"}

-----------------------------------------------------------------------------
(* Properties.                                                             *)

\* What the kernel grants: a process has its own capabilities in its namespace and in
\* the ones below it, and all of them in and below a child namespace that its user owns.
IsAncestor(a, n) ==
    LET up[k \in Ns] == IF k = 0 THEN {} ELSE {g.parent[k]} \cup up[g.parent[k]]
    IN  a \in up[n]
Granted ==
    IF g.file = g.pidns THEN "sets"
    ELSE IF ~ IsAncestor(g.pidns, g.file) THEN "none"
    ELSE IF \E n \in Ns : /\ n = g.file \/ IsAncestor(n, g.file)
                          /\ n # 0 /\ g.parent[n] = g.pidns /\ g.owner[n] = g.euid
         THEN "all" ELSE "sets"

\* ns_capable.c says what the kernel grants, for every tree of user namespaces, although
\* the numbers of the descriptors it closes on its way are used again.
CapableRight == g.says # "" => g.says = Granted

\* No descriptor is closed twice: main() tests for it (ns_capable.c).
NoDoubleClose == ~ At(Main, "failed")
=============================================================================
