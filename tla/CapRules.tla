------------------------------ MODULE CapRules ------------------------------
(***************************************************************************)
(* The credentials and capability sets of a process, what the system calls *)
(* that change them do, and the calls of cap/cap_functions.c.  Each        *)
(* operator is the set of outcomes of a call; it is empty when it fails.   *)
(***************************************************************************)
EXTENDS Processes

CONSTANT Caps           \* the capabilities, "setuid", "setgid" and "setpcap" among them

Only(ok, c) == IF ok THEN {c} ELSE {}

\* c.uid is the user ID outside the user namespace; c.map takes the IDs inside it there.
Root(c, uid) == 0 \in DOMAIN c.map /\ c.map[0] = uid

Lockable == {"NOROOT", "NO_SETUID_FIXUP", "KEEP_CAPS", "NO_CAP_AMBIENT_RAISE"}
LockOf == [b \in Lockable |-> <<b, "LOCKED">>]

-----------------------------------------------------------------------------
(* The kernel.                                                             *)

cap_set_proc(c, per, eff, inh) ==
    Only(/\ per \subseteq c.per /\ eff \subseteq per /\ inh \subseteq c.inh \cup c.bnd
         /\ "setpcap" \in c.eff \/ inh \subseteq c.inh \cup c.per,
         [c EXCEPT !.per = per, !.eff = eff, !.inh = inh, !.amb = @ \cap per \cap inh])

\* Only a process with CAP_SETPCAP changes securebits, and no locked one.
SetSecurebits(c, bits) ==
    Only(/\ "setpcap" \in c.eff
         /\ \A b \in Lockable : LockOf[b] \in c.bits => /\ LockOf[b] \in bits
                                                        /\ b \in bits <=> b \in c.bits,
         [c EXCEPT !.bits = bits])

Ambient(c, cap, raise) ==
    IF raise THEN Only(cap \in c.per \cap c.inh /\ "NO_CAP_AMBIENT_RAISE" \notin c.bits,
                       [c EXCEPT !.amb = @ \cup {cap}])
    ELSE {[c EXCEPT !.amb = @ \ {cap}]}

DropBounding(c, cap) == Only("setpcap" \in c.eff, [c EXCEPT !.bnd = @ \ {cap}])

setgroups(c, groups) == Only("setgid" \in c.eff, [c EXCEPT !.groups = groups])
setresgid(c, gid) == Only("setgid" \in c.eff \/ gid = c.gid, [c EXCEPT !.gid = gid])

\* A change from root to another user takes the capabilities away, and one to root makes
\* the permitted ones effective, unless "no setuid fixup" is set.
setresuid(c, u) ==
    LET uid == c.map[u]
        was == Root(c, c.uid)
        is == Root(c, uid)
        lost == was /\ ~ is /\ "NO_SETUID_FIXUP" \notin c.bits
        gained == ~ was /\ is /\ "NO_SETUID_FIXUP" \notin c.bits
    IN  IF u \notin DOMAIN c.map THEN {}
        ELSE Only("setuid" \in c.eff \/ uid = c.uid,
                  [c EXCEPT !.uid = uid,
                            !.per = IF lost /\ "KEEP_CAPS" \notin c.bits THEN {} ELSE @,
                            !.eff = IF lost THEN {} ELSE IF gained THEN c.per ELSE @,
                            !.amb = IF lost THEN {} ELSE @])

\* execve() of a file without capabilities.
execve(c) ==
    LET all == Root(c, c.uid) /\ "NOROOT" \notin c.bits
        per == c.amb \cup (IF all THEN c.bnd \cup c.inh ELSE {})
    IN  [c EXCEPT !.per = per, !.eff = IF all THEN per ELSE c.amb, !.bits = @ \ {"KEEP_CAPS"}]

-----------------------------------------------------------------------------
(* cap_functions.c.                                                        *)

modifyCapSetting(c, flag, cap, set) ==
    LET With(f) == IF f # flag THEN c[f] ELSE IF set THEN c[f] \cup {cap} ELSE c[f] \ {cap}
    IN  cap_set_proc(c, With("per"), With("eff"), With("inh"))
=============================================================================
