----------------------------- MODULE UsernsExec -----------------------------
(***************************************************************************)
(* namespaces/userns_child_exec.c with userns_functions.c: a child in new  *)
(* namespaces waits for the end of file of a pipe, which its parent closes *)
(* when it has written the maps of the user namespace; then the child does *)
(* what the repeatable options ask for and executes a command.             *)
(***************************************************************************)
EXTENDS CapRules

CONSTANTS Uids,         \* user IDs, inside and outside; the group IDs are the same
          CmdLines      \* [flags, uid_map, gid_map, root, deny, opts], see Init

P == 0                  \* the parent
C == 1                  \* the child
NoMap == [u \in {} |-> 0]

\* flags: "U" for a user namespace, "p" for another one; uid_map and gid_map: functions from
\* IDs inside to IDs outside, empty when not given; root: -r; deny: no -D; opts: the
\* repeatable options.  mapped: the maps that are written; pipe: who may still write to it.
Init ==
    \E uid \in Uids, o \in CmdLines :
        /\ pc = [p \in {P, C} |-> IF p = P THEN "parse" ELSE "none"]
        /\ g = [uid |-> uid, opts |-> o, list |-> <<>>, denied |-> FALSE,
                mapped |-> [u |-> NoMap, g |-> NoMap], pipe |-> {}, c |-> [uid |-> uid]]

Privileged == g.uid = 0
Fails(from) == Go(P, from, "failed") /\ g' = [g EXCEPT !.pipe = @ \ {P}]

-----------------------------------------------------------------------------
(* The parent.                                                             *)

\* An option without a case in the switch, as -S is, gives the usage message.
Repeatable == {"I", "A", "b", "s", "d", "x", "X", "w"}

parse_command_options ==
    LET o == g.opts
        maps == o.uid_map # NoMap \/ o.gid_map # NoMap
    IN  IF \/ \E i \in 1 .. Len(o.opts) : o.opts[i].opt \notin Repeatable
           \/ (maps \/ o.root) /\ "U" \notin o.flags
           \/ o.root /\ maps
        THEN Fails("parse")
        ELSE Go(P, "parse", "clone") /\ g' = [g EXCEPT !.list = o.opts]

\* pipe() and clone(): in a new user namespace the child has every capability, and no ID is
\* mapped yet.  Other namespaces need a privilege.
Clone ==
    LET has == IF "U" \in g.opts.flags \/ Privileged THEN Caps ELSE {}
        child == [uid |-> g.uid, gid |-> g.uid, groups |-> {}, bits |-> {}, per |-> has, eff |-> has,
                  map |-> IF "U" \in g.opts.flags THEN NoMap ELSE [u \in Uids |-> u],
                  inh |-> {}, amb |-> {}, bnd |-> Caps]
    IN  IF g.opts.flags # {} /\ "U" \notin g.opts.flags /\ ~ Privileged THEN Fails("clone")
        ELSE /\ At(P, "clone") /\ pc' = [pc EXCEPT ![P] = "uid_map", ![C] = "start"]
             /\ g' = [g EXCEPT !.pipe = {P, C}, !.c = child]

\* The kernel lets an unprivileged process map one ID, its own; group IDs only when
\* setgroups() is denied.
Writable(m, isGid) ==
    \/ Privileged
    \/ /\ Cardinality(DOMAIN m) = 1 /\ \A u \in DOMAIN m : m[u] = g.uid
       /\ isGid => g.denied

RootMap == [u \in {0} |-> g.uid]
Asked(m) == IF g.opts.root THEN RootMap ELSE m

update_uid_map ==
    LET m == Asked(g.opts.uid_map)
    IN  IF m # NoMap /\ ~ Writable(m, FALSE) THEN Fails("uid_map")
        ELSE Go(P, "uid_map", "setgroups") /\ g' = [g EXCEPT !.mapped.u = m,
                                                        !.c.map = IF m = NoMap THEN @ ELSE m]

proc_setgroups_write ==
    /\ Go(P, "setgroups", "gid_map")
    /\ g' = [g EXCEPT !.denied = g.opts.deny /\ Asked(g.opts.gid_map) # NoMap]

update_gid_map ==
    LET m == Asked(g.opts.gid_map)
    IN  IF m # NoMap /\ ~ Writable(m, TRUE) THEN Fails("gid_map")
        ELSE Go(P, "gid_map", "close") /\ g' = [g EXCEPT !.mapped.g = m]

ClosePipe == Go(P, "close", "waitpid") /\ g' = [g EXCEPT !.pipe = @ \ {P}]

Waitpid == pc[C] \in {"execed", "failed"} /\ Go(P, "waitpid", "exit") /\ UNCHANGED g

-----------------------------------------------------------------------------
(* The child.                                                              *)

CloseWrite == Go(C, "start", "read") /\ g' = [g EXCEPT !.pipe = @ \ {C}]

\* The read() returns 0 when nobody has the pipe open for writing.
AwaitEof_M == Go(C, "read", "options") /\ UNCHANGED g

AwaitEof == g.pipe = {} /\ Go(C, "read", "options") /\ UNCHANGED g

\* -X: one change after another, in the order of the sets.
RECURSIVE modify_individual_capability(_, _, _, _)
modify_individual_capability(c, sets, raise, cap) ==
    IF sets = <<>> THEN {c}
    ELSE UNION {modify_individual_capability(d, Tail(sets), raise, cap) :
                    d \in CASE Head(sets) = "b" -> IF raise THEN {} ELSE DropBounding(c, cap)
                            [] Head(sets) = "a" -> Ambient(c, cap, raise)
                            [] OTHER -> modifyCapSetting(c, Head(sets), cap, raise)}

\* One of the repeatable options.  The options -A and -I meet no case: they are reported and
\* skipped; the cases for them are 'a' and 'h'.
Option(c, o) ==
    CASE o.opt = "b" -> SetSecurebits(c, o.val)
      [] o.opt = "s" -> setresuid(c, o.val)
      [] o.opt = "x" -> cap_set_proc(c, o.val, o.val, o.val)
      [] o.opt = "X" -> modify_individual_capability(c, o.sets, o.raise, o.val)
      [] OTHER -> {c}

perform_repeatable_options ==
    /\ At(C, "options") /\ g.list # <<>>
    /\ LET after == Option(g.c, Head(g.list))
       IN  IF after = {} THEN Go(C, "options", "failed") /\ UNCHANGED g
           ELSE \E c \in after : UNCHANGED pc /\ g' = [g EXCEPT !.c = c, !.list = Tail(@)]

Execvp == g.list = <<>> /\ Go(C, "options", "execed") /\ g' = [g EXCEPT !.c = execve(@)]

-----------------------------------------------------------------------------

Step(p) ==
    \/ p = P /\ \/ At(P, "parse") /\ parse_command_options
                \/ At(P, "clone") /\ Clone
                \/ update_uid_map \/ proc_setgroups_write \/ update_gid_map \/ ClosePipe \/ Waitpid
    \/ p = C /\ (CloseWrite \/ AwaitEof \/ perform_repeatable_options \/ Execvp)

Settled == pc[P] \in {"exit", "failed"} /\ pc[C] \in {"none", "execed", "failed"}

-----------------------------------------------------------------------------
(* Properties.                                                             *)

MapsWritten == g.mapped = [u |-> Asked(g.opts.uid_map), g |-> Asked(g.opts.gid_map)]

\* As long as the parent does not fail, the command runs with the maps that were asked for;
\* without repeatable options it then has every capability when its user is root inside.
UsernsRight ==
    /\ At(C, "execed") /\ ~ At(P, "failed") => MapsWritten
    /\ At(C, "execed") /\ g.opts.opts = <<>> =>
           g.c.eff = IF Root(g.c, g.c.uid) THEN Caps ELSE {}

=============================================================================
