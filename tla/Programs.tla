------------------------------ MODULE Programs ------------------------------
(***************************************************************************)
(* The programs of tlpi-solutions/ that keep state over several system     *)
(* calls, and those of seccomp/, namespaces/, cap/ and acl/ that confine   *)
(* processes and change what they may do.  One of them runs: the initial   *)
(* state chooses it.                                                       *)
(***************************************************************************)
EXTENDS Tables

-----------------------------------------------------------------------------
(* The arguments and environments of the programs.                         *)

Capabilities == {"setuid", "setgid", "setpcap", "dac"}

\* seccomp_launch: each filter alone, and series in which a filter forbids to load the next.
FilterSeries ==
    {<<f>> : f \in {"seccomp_perf", "seccomp_trap_sigsys", "seccomp_multiarch", "notify_openat", "errno"}}
    \cup {<<"notify_mkdir", "errno">>, <<"notify_mkdir", "trace">>, <<"notify_openat", "errno">>,
          <<"seccomp_arg64", "seccomp_control_open", "seccomp_trap_sigsys">>,
          <<"seccomp_logging", "seccomp_deny_open">>, <<"seccomp_deny_open", "seccomp_perf">>}

Path(dir, name) == [dir |-> dir, name |-> name]

\* userns_child_exec: with a map of one ID, which anybody may write, and of two.
NoMap == [u \in {} |-> 0]
Opt(opt, val) == [opt |-> opt, val |-> val]
OptX(sets, raise, cap) == [opt |-> "X", val |-> cap, sets |-> sets, raise |-> raise]
UsernsLines ==
    [flags : {{}, {"U"}, {"p"}}, uid_map : {NoMap, [u \in {0} |-> 5], [u \in {0, 5} |-> 5 + 2 * u]},
     gid_map : {NoMap, [u \in {0} |-> 5]}, root : BOOLEAN, deny : BOOLEAN,
     opts : {<<>>, <<Opt("A", 0), Opt("s", 5)>>, <<Opt("S", 5)>>, <<OptX(<<"b">>, TRUE, "dac")>>,
             <<Opt("b", {"NO_SETUID_FIXUP"}), OptX(<<"inh", "a", "b">>, FALSE, "dac"), Opt("x", {"dac"})>>,
             <<OptX(<<"inh", "a">>, TRUE, "dac"), Opt("s", 5), Opt("b", {})>>}]

\* acl_update: specifications with and without permissions, and faulty ones.
Spec_(tag, qual, form, perms) == [tag |-> tag, qual |-> qual, form |-> form, perms |-> perms]
Rwx(tag, qual, perms) == Spec_(tag, qual, "rwx", perms)
None(tag, qual) == Spec_(tag, qual, "none", {})
AclSpecs ==
    {<<Rwx("u", "u", {"w"})>>, <<Rwx("u", "v", {}), Rwx("g", "", {"w"}), Rwx("u", "v", {"r"})>>,
     <<Rwx("m", "", {}), Rwx("o", "", {"r"})>>, <<Rwx("u", "nobody", {})>>,
     <<Rwx("g", "u", {"r"}), Rwx("z", "", {})>>, <<Spec_("o", "", "bad", {})>>,
     <<None("u", "u"), None("u", "v")>>, <<None("u", "v"), None("u", ""), None("o", "")>>,
     <<None("u", "u"), None("u", "v"), None("m", "")>>}
AclLines ==
    [op : {"m", "x"}, spec : AclSpecs, d : BOOLEAN, n : BOOLEAN]
    \cup [op : {"V"}, spec : AclSpecs, d : BOOLEAN, n : {FALSE}]
    \cup [op : {"k"}, spec : {<<>>}, d : {FALSE}, n : {FALSE}]
Key(tag, qual) == [tag |-> tag, qual |-> qual]
MinimalAcl == [k \in {Key("user_obj", 0), Key("group_obj", 0), Key("other", 0)} |-> {"r"}]
ExtendedAcl ==
    [k \in DOMAIN MinimalAcl \cup {Key("user", 5), Key("user", 7), Key("mask", 0)} |->
        IF k.qual = 5 THEN {"r", "w"} ELSE {"r"}]
Directory(acl, default) == [access |-> acl, default |-> default, dir |-> TRUE]
Regular(acl) == [access |-> acl, default |-> <<>>, dir |-> FALSE]

\* setenv: two names that have nothing in common, and two one of which begins the other.
PairsOfNames == {{<<1>>, <<2>>}, {<<1>>, <<1, 2>>}}

-----------------------------------------------------------------------------
(* The programs.                                                           *)

FC == INSTANCE FileCopy WITH InputLen <- 4, IO_BUFF_SIZE <- 3, NUM_CHUNKS <- 2, CHUNK_LEN <- 3,
                             OldLen <- 5, Count <- <<2, 1, 2>>
SF == INSTANCE SeccompFilters WITH CmdLines <- FilterSeries,
                                   Chains <- {<<"x86_64", "i386", "x32">>, <<"i386", "x86_64">>}
SN == INSTANCE SeccompNotify WITH
          Mkdirs <- {<<Path("/tmp", "a"), Path("/", "x"), Path(".", "b")>>,
                     <<Path(".", "b"), Path("/tmp", "a"), Path("/tmp", "a")>>,
                     <<Path("/bye", ""), Path(".", "b")>>,
                     <<Path("unterminated", "u"), Path("/tmp", "a")>>},
          Openats <- {<<Path("/", "x"), Path("unterminated", "u"), Path("/", "y")>>},
          MaxSignals <- 2
NC == INSTANCE NsCapable WITH MaxNs <- 3, Uids <- {0, 1}
CP == INSTANCE CapPrograms WITH
          Caps <- Capabilities, Uids <- {0, 5, 7},
          Passwd <- [root |-> [uid |-> 0, gid |-> 0, groups |-> {0, 7}],
                     u |-> [uid |-> 5, gid |-> 7, groups |-> {5, 7}]],
          Lists <- {<<>>, <<"dac">>, <<"dac", "setuid">>, <<"dac", "unknown">>},
          User <- "u", Database <- {<<>>, <<{"u", "v"}, {"v"}, {"u"}>>}
UX == INSTANCE UsernsExec WITH Caps <- Capabilities, Uids <- {0, 5}, CmdLines <- UsernsLines
AU == INSTANCE AclUpdate WITH
          CmdLines <- AclLines, Ids <- [u |-> 5, v |-> 7],
          Files <- {<<Directory(MinimalAcl, <<>>)>>,
                    <<Directory(ExtendedAcl, ExtendedAcl), Regular(ExtendedAcl)>>,
                    <<Regular(ExtendedAcl), Directory(MinimalAcl, ExtendedAcl)>>}

Init ==
    \/ prog = "copy" /\ FC!Init
    \/ prog = "atomic_append" /\ FC!AppendInit
    \/ prog = "dup" /\ DupInit
    \/ prog = "setenv" /\ EnvInit
    \/ prog = "proc" /\ ProcInit
    \/ prog = "initgroups" /\ CP!InitgroupsInit
    \/ prog = "seccomp_launch" /\ SF!Init
    \/ prog = "seccomp_unotify" /\ SN!Init
    \/ prog = "ns_capable" /\ NC!Init
    \/ prog = "cap" /\ CP!Init
    \/ prog = "userns_child_exec" /\ UX!Init
    \/ prog = "acl_update" /\ AU!Init

\* A step of process p of the program.
Step(p) ==
    /\ UNCHANGED prog
    /\ \/ prog = "copy" /\ p = 0 /\ FC!Next
       \/ prog = "atomic_append" /\ p \in FC!Procs /\ FC!Appender(p)
       \/ prog = "dup" /\ p = 0 /\ DupNext
       \/ prog = "setenv" /\ p = 0 /\ EnvNext
       \/ prog = "proc" /\ p = 0 /\ ProcNext
       \/ prog = "initgroups" /\ p = 0 /\ CP!InitgroupsNext
       \/ prog = "seccomp_launch" /\ p = 0 /\ SF!Next
       \/ prog = "seccomp_unotify" /\ SN!Step(p)
       \/ prog = "ns_capable" /\ p = 0 /\ NC!Next
       \/ prog = "cap" /\ p = 0 /\ CP!Next
       \/ prog = "userns_child_exec" /\ UX!Step(p)
       \/ prog = "acl_update" /\ p = 0 /\ AU!Next

\* What other threads and processes do meanwhile, and signals.
Environment ==
    /\ UNCHANGED prog
    /\ \/ prog = "dup" /\ DupEnvironment
       \/ prog = "proc" /\ ProcEnvironment
       \/ prog = "seccomp_unotify" /\ SN!Environment

Next == Environment \/ \E p \in 0..3 : Step(p)

Spec == Init /\ [][Next]_allVars
FairSpec == Spec /\ \A p \in 0..3 : WF_allVars(Step(p))

-----------------------------------------------------------------------------
(* Properties.                                                             *)

\* tee, cp, xwritev() and xreadv() lose no byte of what they copy, and no byte that a
\* process appends is lost: CopiesRight and AppendsKept of FileCopy.
BytesKept ==
    /\ prog = "copy" => FC!CopiesRight
    /\ prog = "atomic_append" => FC!AppendsKept

\* proctree prints every process it has read once, below its parent, with an array of
\* children that is large enough: TreeRight of ProcTree.
TreePrinted == prog = "proc" => TreeRight

\* Programs have the privileges asked for and no others: xinitgroups() gives its
\* privileges back, the launchers run their program with the IDs and capabilities asked
\* for, the child of userns_child_exec has its maps before it executes, ns_capable says
\* what the kernel grants, and acl_update leaves the entries asked for:
\* PrivilegesGivenBack and CapsAsAsked of CapPrograms, UsernsRight of UsernsExec,
\* CapableRight of NsCapable, AclRight of AclUpdate.
AccessRight ==
    /\ prog = "initgroups" => CP!PrivilegesGivenBack
    /\ prog = "cap" => CP!CapsAsAsked
    /\ prog = "userns_child_exec" => UX!UsernsRight
    /\ prog = "ns_capable" => NC!CapableRight
    /\ prog = "acl_update" => AU!AclRight

\* The filters do to every call what they are meant to, also several of them, and the
\* supervisor acts for a call with the path of that call: Confined of SeccompFilters,
\* AnsweredAsAsked of SeccompNotify.
SupervisedRight ==
    /\ prog = "seccomp_launch" => SF!Confined
    /\ prog = "seccomp_unotify" => SN!AnsweredAsAsked

Settled ==
    /\ prog = "copy" => FC!Settled
    /\ prog = "atomic_append" => FC!Appended
    /\ prog = "dup" => DupSettled
    /\ prog = "proc" => ProcSettled
    /\ prog = "initgroups" => CP!InitgroupsSettled
    /\ prog = "seccomp_launch" => SF!Settled
    /\ prog = "seccomp_unotify" => SN!Settled
    /\ prog = "ns_capable" => NC!Settled
    /\ prog = "cap" => CP!Settled
    /\ prog = "userns_child_exec" => UX!Settled
    /\ prog = "acl_update" => AU!Settled

\* Every program comes to its end, whatever part of the data each read() and write()
\* handles, however many processes come and go meanwhile, and whichever of the supervised
\* calls are interrupted.
AllEnd == <>[]Settled

\* mylib.h says that writep() writes all count bytes: WritesAllBytes of FileCopy.
WritesAllBytes == prog = "copy" => FC!WritesAllBytes

\* A comment of ns_capable.c says that a double close() is prevented: NoDoubleClose of
\* NsCapable.
NoDoubleClose == prog = "ns_capable" => NC!NoDoubleClose
=============================================================================
