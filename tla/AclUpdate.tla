----------------------------- MODULE AclUpdate -----------------------------
(***************************************************************************)
(* acl/acl_update.c: changes the entries of the ACLs of several files one  *)
(* after the other, and writes the ACL to the file after every entry.      *)
(***************************************************************************)
EXTENDS Processes

CONSTANTS CmdLines,     \* [op, spec, d, n]: -m, -x, -k or -V, its argument, -d and -n
          Files,        \* the possible sequences of files: [access, default, dir]
          Ids           \* names that the user and group databases know -> ID

Main == 0

\* An entry specification: [tag, qual, form, perms]; qual is "" and form "none" when they
\* are not given, form is "bad" when the permissions are not of the characters -rwx.
\* An ACL: a function from [tag, qual] to permissions, with qual 0 where there is none.
Init ==
    \E cmd \in CmdLines, files \in Files :
        /\ pc = [p \in {Main} |-> "parse"]
        /\ g = [cmd |-> cmd, files |-> files, old |-> files, aclist |-> <<>>, j |-> 1, en |-> 1,
                acl |-> <<>>]

-----------------------------------------------------------------------------
(* libacl.                                                                 *)

Required == {[tag |-> t, qual |-> 0] : t \in {"user_obj", "group_obj", "other"}}
Mask == [tag |-> "mask", qual |-> 0]
Named(acl) == {k \in DOMAIN acl : k.tag \in {"user", "group"}}
GroupClass(acl) == {k \in DOMAIN acl : k.tag \in {"user", "group", "group_obj"}}

Put(acl, key, perms) == [k \in DOMAIN acl \cup {key} |-> IF k = key THEN perms ELSE acl[k]]
Without(acl, key) == [k \in DOMAIN acl \ {key} |-> acl[k]]

acl_calc_mask(acl) == Put(acl, Mask, UNION {acl[k] : k \in GroupClass(acl)})
acl_valid(acl) == /\ Required \subseteq DOMAIN acl
                  /\ Named(acl) # {} => Mask \in DOMAIN acl

-----------------------------------------------------------------------------
(* The specification.                                                      *)

TagOf(e) == CASE e.tag = "u" -> IF e.qual = "" THEN "user_obj" ELSE "user"
              [] e.tag = "g" -> IF e.qual = "" THEN "group_obj" ELSE "group"
              [] e.tag = "o" -> "other"
              [] e.tag = "m" -> "mask"

\* The permissions must be given, or must not; a user or a group must have an ID.
parseEntrySpec(e, permsReqd) ==
    /\ e.form # "none" <=> permsReqd
    /\ e.tag \in {"u", "g", "o", "m"}
    /\ TagOf(e) \in {"user", "group"} => e.qual \in DOMAIN Ids
    /\ e.form # "bad"

Entry(e) == [key |-> [tag |-> TagOf(e),
                      qual |-> IF TagOf(e) \in {"user", "group"} THEN Ids[e.qual] ELSE 0],
             perms |-> e.perms]

\* main() and parseACL().
parseACL ==
    LET cmd == g.cmd
        ok == \A i \in 1 .. Len(cmd.spec) : parseEntrySpec(cmd.spec[i], cmd.op # "x")
    IN  \/ /\ cmd.op = "V" /\ UNCHANGED g
           /\ Go(Main, "parse", IF ok /\ ~ cmd.d THEN "exit" ELSE "failed")
        \/ cmd.op \in {"m", "x"} /\ ~ ok /\ Go(Main, "parse", "failed") /\ UNCHANGED g
        \/ /\ cmd.op = "k" \/ (cmd.op \in {"m", "x"} /\ ok)
           /\ Go(Main, "parse", "file")
           /\ g' = [g EXCEPT !.aclist = [i \in 1 .. Len(cmd.spec) |-> Entry(cmd.spec[i])]]

-----------------------------------------------------------------------------
(* The files.                                                              *)

Type == IF g.cmd.d THEN "default" ELSE "access"

\* acl_get_file() fails for the default ACL of a file that is not a directory.
GetFile ==
    /\ At(Main, "file")
    /\ \/ g.j > Len(g.files) /\ Go(Main, "file", "exit") /\ UNCHANGED g
       \/ /\ g.j <= Len(g.files) /\ g.cmd.op = "k"
          /\ IF g.files[g.j].dir
             THEN UNCHANGED pc /\ g' = [g EXCEPT !.files[g.j].default = <<>>, !.j = @ + 1]
             ELSE Go(Main, "file", "failed") /\ UNCHANGED g
       \/ /\ g.j <= Len(g.files) /\ g.cmd.op # "k"
          /\ IF g.cmd.d /\ ~ g.files[g.j].dir THEN Go(Main, "file", "failed") /\ UNCHANGED g
             ELSE Go(Main, "file", "entry") /\ g' = [g EXCEPT !.acl = g.files[g.j][Type], !.en = 1]

\* findEntry(): the key in the ACL that the entry is for, if there is one.
findEntry(acl, key) == {k \in DOMAIN acl : k.tag = key.tag /\ k.qual = key.qual}

Changed(acl, e) ==
    LET found == findEntry(acl, e.key)
    IN  IF g.cmd.op = "x" THEN IF found = {} THEN acl ELSE Without(acl, CHOOSE k \in found : TRUE)
        ELSE Put(acl, IF found = {} THEN e.key ELSE CHOOSE k \in found : TRUE, e.perms)

\* One entry: the ACL is changed, its mask computed, and it is written if it is valid.
updateACL ==
    /\ At(Main, "entry")
    /\ IF g.en > Len(g.aclist) THEN Go(Main, "entry", "file") /\ g' = [g EXCEPT !.j = @ + 1]
       ELSE LET changed == Changed(g.acl, g.aclist[g.en])
                acl == IF g.cmd.n THEN changed ELSE acl_calc_mask(changed)
            IN  IF acl_valid(acl)
                THEN UNCHANGED pc /\ g' = [g EXCEPT !.acl = acl, !.files[g.j][Type] = acl, !.en = @ + 1]
                ELSE Go(Main, "entry", "failed") /\ UNCHANGED g

Next == (At(Main, "parse") /\ parseACL) \/ GetFile \/ updateACL

Settled == pc[Main] \in {"exit", "failed"}

-----------------------------------------------------------------------------
(* Properties.                                                             *)

\* The last entry of the specification for each key decides; with -n the mask is an entry
\* like the others, without it the mask is what lets every entry through.
Last(key) == CHOOSE i \in 1 .. Len(g.aclist) : /\ g.aclist[i].key = key
                 /\ \A k \in i + 1 .. Len(g.aclist) : g.aclist[k].key # key
Specified(key) == \E i \in 1 .. Len(g.aclist) : g.aclist[i].key = key
Effective(acl, k) == IF k \in GroupClass(acl) /\ Mask \in DOMAIN acl THEN acl[k] \cap acl[Mask]
                     ELSE acl[k]

\* A file that acl_update has finished has the entries that were asked for and keeps the
\* others, and without -n each gives the permissions it states; the ACL of a file, finished
\* or not, is always valid; and the files after the current one are as they were.
AclRight ==
    g.cmd.op \in {"m", "x"} => \A i \in 1 .. Len(g.files) :
        LET acl == g.files[i][Type]
            old == g.old[i][Type]
            keys == (DOMAIN acl \cup DOMAIN old \cup {g.aclist[k].key : k \in 1 .. Len(g.aclist)})
                    \ (IF g.cmd.n THEN {} ELSE {Mask})
        IN  /\ acl = old \/ acl_valid(acl)
            /\ i > g.j => acl = old
            /\ i < g.j => \A key \in keys :
                   IF ~ Specified(key) THEN key \in DOMAIN old /\ acl[key] = old[key]
                   ELSE IF g.cmd.op = "x" THEN key \notin DOMAIN acl
                   ELSE acl[key] = g.aclist[Last(key)].perms
            /\ i < g.j /\ ~ g.cmd.n => \A key \in DOMAIN acl : Effective(acl, key) = acl[key]
=============================================================================
