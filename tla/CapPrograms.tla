---------------------------- MODULE CapPrograms ----------------------------
(***************************************************************************)
(* The programs that change their credentials before they run another one, *)
(* or before they read a password: cap/cap_launcher.c,                     *)
(* namespaces/cred_launcher.c and cap/check_password_caps.c; and           *)
(* tlpi-solutions/ex09-3/initgroups.c.                                     *)
(***************************************************************************)
EXTENDS CapRules

CONSTANTS Passwd,       \* the user database: name -> [uid, gid, groups]
          Lists,        \* lists of capability names for cap_launcher
          Database,     \* the possible group files: sequences of sets of users
          User,         \* the user xinitgroups() is asked for
          Uids          \* the user IDs, which the group IDs share

Main == 0
NoId == -1

Process(uid, per, eff) ==
    [uid |-> uid, gid |-> uid, groups |-> {uid}, map |-> [u \in Uids |-> u], bits |-> {},
     per |-> per, eff |-> eff, inh |-> {}, amb |-> {}, bnd |-> Caps]

\* A program starts as root or as a user; check_password_caps has a capability from its file.
Init ==
    /\ pc = [p \in {Main} |-> "main"]
    /\ \/ \E uid \in Uids, user \in DOMAIN Passwd \cup {"nobody"}, list \in Lists :
              LET has == IF uid = 0 THEN Caps ELSE {}
              IN  g = [prog |-> "cap_launcher", user |-> user, list |-> list, todo |-> list,
                       c |-> Process(uid, has, has)]
       \/ \E uid \in Uids, newuid, newgid \in Uids \cup {NoId} :
              LET has == IF uid = 0 THEN Caps ELSE {}
              IN  g = [prog |-> "cred_launcher", newuid |-> newuid, newgid |-> newgid,
                       c |-> Process(uid, has, has)]
       \/ \E uid \in Uids \ {0}, per \in {{}, {"dac"}}, user \in DOMAIN Passwd \cup {"nobody"} :
              g = [prog |-> "check_password_caps", user |-> user, c |-> Process(uid, per, {})]

\* A call that fails ends the program.
Call(from, to, outcomes) ==
    IF outcomes = {} THEN Go(Main, from, "failed") /\ UNCHANGED g
    ELSE \E c \in outcomes : Go(Main, from, to) /\ g' = [g EXCEPT !.c = c]

Is(prog) == g.prog = prog
Listed(list) == {list[i] : i \in 1 .. Len(list)}

-----------------------------------------------------------------------------
(* cap_launcher.c.                                                         *)

\* Capabilities are to outlive the change of user IDs.
Securebits ==
    /\ Is("cap_launcher") /\ At(Main, "main")
    /\ Call("main", "setgroups",
            IF g.c.uid # 0 THEN {} ELSE SetSecurebits(g.c, {"NO_SETUID_FIXUP"}))

setCredentials(point) ==
    /\ Is("cap_launcher") /\ At(Main, point)
    /\ IF g.user \notin DOMAIN Passwd THEN Call(point, "failed", {})
       ELSE \/ Call("setgroups", "setresgid", setgroups(g.c, Passwd[g.user].groups))
            \/ Call("setresgid", "setresuid", setresgid(g.c, Passwd[g.user].gid))
            \/ Call("setresuid", "caps", setresuid(g.c, Passwd[g.user].uid))

\* One capability of the list: first inheritable, then ambient.
setAmbientCapabilities ==
    /\ Is("cap_launcher")
    /\ \/ /\ At(Main, "caps") /\ g.todo # <<>>
          /\ Call("caps", "ambient", IF Head(g.todo) \notin Caps THEN {}
                                     ELSE modifyCapSetting(g.c, "inh", Head(g.todo), TRUE))
       \/ /\ At(Main, "ambient")
          /\ LET raised == Ambient(g.c, Head(g.todo), TRUE)
             IN  IF raised = {} THEN Call("ambient", "failed", {})
                 ELSE \E c \in raised : /\ Go(Main, "ambient", "caps")
                                        /\ g' = [g EXCEPT !.c = c, !.todo = Tail(@)]
       \/ At(Main, "caps") /\ g.todo = <<>> /\ Call("caps", "execed", {execve(g.c)})

-----------------------------------------------------------------------------
(* cred_launcher.c.                                                        *)

cred_launcher ==
    /\ Is("cred_launcher")
    /\ \/ /\ At(Main, "main")
          /\ Call("main", "setresuid", IF g.newgid = NoId THEN {g.c} ELSE setresgid(g.c, g.newgid))
       \/ /\ At(Main, "setresuid")
          /\ Call("setresuid", "exec", IF g.newuid = NoId THEN {g.c} ELSE setresuid(g.c, g.newuid))
       \/ At(Main, "exec") /\ Call("exec", "execed", {execve(g.c)})

-----------------------------------------------------------------------------
(* check_password_caps.c.                                                  *)

modifyCap(c, cap, set) == modifyCapSetting(c, "eff", cap, set)

dropAllCaps(c) == cap_set_proc(c, {}, {}, {})

\* The shadow password file needs CAP_DAC_READ_SEARCH; the password is read without it.
check_password_caps ==
    /\ Is("check_password_caps")
    /\ \/ /\ At(Main, "main")
          /\ Call("main", "getspnam", IF g.user \notin DOMAIN Passwd THEN {}
                                      ELSE modifyCap(g.c, "dac", TRUE))
       \/ At(Main, "getspnam") /\ Call("getspnam", "drop", Only("dac" \in g.c.eff, g.c))
       \/ At(Main, "drop") /\ Call("drop", "getpass", dropAllCaps(g.c))
       \/ At(Main, "getpass") /\ \E authOk \in BOOLEAN : Call("getpass", "exit", Only(authOk, g.c))

Next == \/ Securebits \/ setAmbientCapabilities \/ cred_launcher \/ check_password_caps
        \/ \E point \in {"setgroups", "setresgid", "setresuid"} : setCredentials(point)

Settled == pc[Main] \in {"failed", "execed", "exit"}

-----------------------------------------------------------------------------
(* Properties.                                                             *)

\* cap_launcher runs its program with the user's IDs and groups and, unless the user is
\* root, with the listed capabilities and no other; cred_launcher leaves none to a user
\* that is not root; and check_password_caps reads the password with no capability, none
\* that it could raise again among them.
CapsAsAsked ==
    /\ Is("cap_launcher") /\ At(Main, "execed") =>
           /\ g.c.uid = Passwd[g.user].uid /\ g.c.gid = Passwd[g.user].gid
           /\ g.c.groups = Passwd[g.user].groups
           /\ g.c.uid # 0 => g.c.per = Listed(g.list) /\ g.c.eff = Listed(g.list)
    /\ Is("cred_launcher") /\ At(Main, "execed") =>
           /\ g.newuid # NoId => g.c.uid = g.newuid
           /\ g.newgid # NoId => g.c.gid = g.newgid
           /\ g.c.uid # 0 => g.c.per = {}
    /\ Is("check_password_caps") /\ At(Main, "getpass") => g.c.per \cup g.c.inh \cup g.c.amb = {}

-----------------------------------------------------------------------------
(* ex09-3/initgroups.c: initgroups() in a program that may be set-user-ID  *)
(* and keeps its privileges down except where it needs them.               *)

PwGid == 0              \* the user's own group; group k is the k-th of the database

\* uid: the real, effective and saved user IDs of the process, as for a normal
\* program, one of root's, and a set-user-ID program.
InitgroupsInit ==
    \E ruid \in Uids, owner \in Uids, db \in Database :
        /\ pc = [p \in {Main} |-> "main"]
        /\ g = [r |-> ruid, e |-> owner, s |-> owner, db |-> db, groups |-> <<>>,
                ent |-> 1, mine |-> {}, euid |-> owner]

\* What seteuid() permits.
MaySet(uid) == g.e = 0 \/ uid \in {g.r, g.s}

\* main() first gives up its privileges.
Deescalate ==
    /\ Go(Main, "main", "getgrent")
    /\ g' = [g EXCEPT !.e = IF g.e = 0 /\ g.r # 0 THEN g.r
                            ELSE IF g.e = 0 /\ g.s # 0 THEN g.s ELSE g.e]

\* One entry of the group file; at its end the user's own group is added.
Getgrent ==
    \/ /\ g.ent <= Len(g.db) /\ At(Main, "getgrent") /\ UNCHANGED pc
       /\ g' = [g EXCEPT !.ent = @ + 1,
                         !.groups = IF User \in g.db[g.ent] THEN Append(@, g.ent) ELSE @]
    \/ /\ g.ent > Len(g.db) /\ Go(Main, "getgrent", "seteuid")
       /\ g' = [g EXCEPT !.groups = Append(@, PwGid), !.euid = g.e]

Raise ==
    \/ (g.e = 0 \/ MaySet(0)) /\ Go(Main, "seteuid", "setgroups") /\ g' = [g EXCEPT !.e = 0]
    \/ g.e # 0 /\ Go(Main, "seteuid", "failed") /\ UNCHANGED g

\* setgroups() succeeds or fails; after a failure the privileges stay raised.
Setgroups ==
    \/ Go(Main, "setgroups", "restore") /\ g' = [g EXCEPT !.mine = Listed(g.groups)]
    \/ Go(Main, "setgroups", "failed") /\ UNCHANGED g

Restore == Go(Main, "restore", "exit") /\ g' = [g EXCEPT !.e = IF MaySet(g.euid) THEN g.euid ELSE @]

InitgroupsNext == Deescalate \/ Getgrent \/ Raise \/ Setgroups \/ Restore

InitgroupsSettled == pc[Main] \in {"exit", "failed"}

\* A program that root did not start runs with root's privileges only between
\* seteuid(0) and the end of xinitgroups(), which restores what main() had, and
\* then has exactly the groups that list the user and the user's own.
PrivilegesGivenBack ==
    /\ pc[Main] \in {"getgrent", "seteuid", "exit"} => (g.e = 0 => g.r = 0 /\ g.s = 0)
    /\ At(Main, "exit") =>
        /\ g.e = g.euid
        /\ g.mine = {PwGid} \cup {k \in DOMAIN g.db : User \in g.db[k]}
=============================================================================
