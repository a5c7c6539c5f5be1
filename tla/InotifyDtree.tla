---------------------------- MODULE InotifyDtree ----------------------------
(***************************************************************************)
(* inotify/inotify_dtree.c: a program that keeps a cache of the pathnames  *)
(* of all directories below some root directories, from inotify events,    *)
(* while other processes (rand_dtree.c, for one) create, remove and rename *)
(* directories.                                                            *)
(*                                                                         *)
(* The model has three parts that interleave: the filesystem, the kernel's *)
(* inotify instance (both external), and the monitor.  Directories are     *)
(* i-nodes 1..MaxInode below the unwatched directory Top; a pathname is    *)
(* the sequence of names from Top.  Files that are not directories, which  *)
(* the program ignores, are left out.                                      *)
(***************************************************************************)
EXTENDS Naturals, Sequences, FiniteSets, SequencesExt

CONSTANT Worlds     \* the environments in which the monitor is checked

ASSUME WorldsAssumption ==
    \A w \in Worlds :
        /\ IsFiniteSet(w.roots) /\ w.roots \subseteq w.names
        /\ w.maxInode \in Nat /\ Cardinality(w.roots) <= w.maxInode
        /\ w.maxQueue \in Nat \ {0} /\ w.bufLen \in Nat \ {0}

VARIABLE world      \* the one it runs in

Names == world.names            \* the names a directory may have
RootNames == world.roots        \* roots on the command line: names in Top
MaxInode == world.maxInode      \* bound on directories ever created
MaxOps == world.maxOps          \* bound on filesystem operations
Movers == world.movers          \* processes that call rename()
Ops == world.ops                \* the kinds of operation that are performed
Commands == world.commands      \* the interactive commands that are given
MaxQueue == world.maxQueue      \* fs.inotify.max_queued_events
BufLen == world.bufLen          \* events that fit in one read() (option -b)
NftwAborts == world.aborts      \* nftw() may give up when a directory vanishes
MaxCmds == 1                    \* bound on commands given

Top == 0
Inodes == 1..MaxInode
None == 0               \* no i-node; also "no watch descriptor"
NoPath == <<>>

VARIABLES
    \* the filesystem
    loc,        \* loc[i]: parent and name of a linked directory
    used,       \* i-nodes 1..used exist or existed
    ops,        \* operations performed so far
    moving,     \* moving[p]: the second half of p's rename(), still to come
    \* the inotify instance
    watch,      \* watch[w]: the i-node watch descriptor w refers to
    selfMask,   \* watch descriptors with IN_MOVE_SELF
    nextWd,
    queue,      \* events not yet read
    \* the monitor
    mpc,        \* where it is: see Monitor below
    buf,        \* the events of the last read() not yet processed
    firstTry,
    cache,      \* the used slots of wlCache: records [wd, path]
    roots,      \* rootDirPaths without the NULL entries
    walk,       \* what nftw() still has to visit, as a stack
    cmds,       \* commands given so far
    quiet       \* neither the filesystem nor a command did anything since
                \* the last rebuild

fsVars   == <<world, loc, used, ops, moving>>
kernVars == <<watch, selfMask, nextWd, queue>>
monVars  == <<mpc, buf, firstTry, cache, roots, walk, cmds>>
vars     == <<fsVars, kernVars, monVars, quiet>>

-----------------------------------------------------------------------------
(* The filesystem.                                                         *)

Unlinked == [dir |-> None, name |-> None]
Linked == {i \in Inodes : loc[i] # Unlinked}
Child(d, n) == {i \in Linked : loc[i] = [dir |-> d, name |-> n]}
Children(d) == {i \in Linked : loc[i].dir = d}

PathOf(i) ==
    LET up[d \in 0..MaxInode, j \in Inodes \cup {Top}] ==
            IF j = Top \/ d = 0 THEN NoPath
            ELSE Append(up[d - 1, loc[j].dir], loc[j].name)
    IN  up[MaxInode, i]

Resolve(path) == {i \in Linked : PathOf(i) = path}

\* i is d or lies below it.
Below(i, d) == d = Top \/ IsPrefix(PathOf(d), PathOf(i))

RootPaths == {<<n>> : n \in RootNames}

-----------------------------------------------------------------------------
(* The kernel's inotify instance.                                          *)

Event(wd, mask, name, cookie) ==
    [wd |-> wd, mask |-> mask, name |-> name, cookie |-> cookie]

Overflow == Event(None, "IN_Q_OVERFLOW", None, 0)

\* The events es, no two of them alike, are queued.  An event equal to the last
\* queued one is merged with it; at the limit, one overflow event stands for
\* everything that is lost.
EnqueueAll(q, es) ==
    LET merged == q # <<>> /\ es # <<>> /\ Last(q) = es[1]
        new == IF merged THEN Tail(es) ELSE es
    IN  IF new = <<>> \/ Len(q) + Len(new) <= MaxQueue THEN q \o new
        ELSE IF Len(q) >= MaxQueue /\ Last(q) = Overflow THEN q
        ELSE q \o SubSeq(new, 1, MaxQueue - Len(q)) \o <<Overflow>>

WdsOf(i) == {w \in DOMAIN watch : watch[w] = i}

\* The events that something happening to directory i itself, or to entry
\* name of directory i, causes: none if i is not watched.
On(i, mask, name, cookie) ==
    [k \in 1..Cardinality(WdsOf(i)) |->
        Event(CHOOSE w \in WdsOf(i) : TRUE, mask, name, cookie)]

Unwatch(wds) == [w \in DOMAIN watch \ wds |-> watch[w]]

-----------------------------------------------------------------------------
(* What other processes do to the tree: mkdir(), rmdir() and rename(), the *)
(* operations of rand_dtree.c.                                             *)

\* "out": entries of Top other than the roots; "root": the roots themselves.
Allowed(dir, name) ==
    \/ dir # Top
    \/ name \in RootNames /\ "root" \in Ops
    \/ name \notin RootNames /\ "out" \in Ops

CanOperate == ops < MaxOps

Mkdir(d, n) ==
    /\ "mkdir" \in Ops /\ CanOperate /\ used < MaxInode
    /\ d = Top \/ d \in Linked
    /\ Allowed(d, n)
    /\ Child(d, n) = {}
    /\ used' = used + 1
    /\ loc' = [loc EXCEPT ![used + 1] = [dir |-> d, name |-> n]]
    /\ ops' = ops + 1
    /\ queue' = EnqueueAll(queue, On(d, "IN_CREATE", n, 0))
    /\ quiet' = FALSE
    /\ UNCHANGED <<world, moving, watch, selfMask, nextWd, monVars>>

Rmdir(i) ==
    /\ "rmdir" \in Ops /\ CanOperate
    /\ Allowed(loc[i].dir, loc[i].name)
    /\ Children(i) = {}
    /\ loc' = [loc EXCEPT ![i] = Unlinked]
    /\ ops' = ops + 1
    /\ queue' = EnqueueAll(queue, On(i, "IN_DELETE_SELF", None, 0)
                                    \o On(i, "IN_IGNORED", None, 0))
    /\ watch' = Unwatch(WdsOf(i))
    /\ selfMask' = selfMask \ WdsOf(i)
    /\ quiet' = FALSE
    /\ UNCHANGED <<world, used, moving, nextWd, monVars>>

\* rename() queues its events one by one; other events may come in between.
RenameFrom(p, i, d, n) ==
    /\ "rename" \in Ops /\ CanOperate /\ moving[p] = <<>>
    /\ d = Top \/ (d \in Linked /\ ~Below(d, i))
    /\ Allowed(loc[i].dir, loc[i].name) /\ Allowed(d, n)
    /\ Child(d, n) = {}
    /\ loc' = [loc EXCEPT ![i] = [dir |-> d, name |-> n]]
    /\ ops' = ops + 1
    /\ queue' = EnqueueAll(queue,
                    On(loc[i].dir, "IN_MOVED_FROM", loc[i].name, ops + 1))
    /\ moving' = [moving EXCEPT ![p] = <<i, d, n, ops + 1>>]
    /\ quiet' = FALSE
    /\ UNCHANGED <<world, used, watch, selfMask, nextWd, monVars>>

RenameTo(p) ==
    /\ moving[p] # <<>>
    /\ LET i == moving[p][1]
           self == [k \in 1..Cardinality(WdsOf(i) \cap selfMask) |->
                       On(i, "IN_MOVE_SELF", None, 0)[1]]
       IN  queue' = EnqueueAll(queue, On(moving[p][2], "IN_MOVED_TO",
                                         moving[p][3], moving[p][4]) \o self)
    /\ moving' = [moving EXCEPT ![p] = <<>>]
    /\ quiet' = FALSE
    /\ UNCHANGED <<world, loc, used, ops, watch, selfMask, nextWd, monVars>>

Filesystem ==
    \/ \E d \in {Top} \cup Linked, n \in Names : Mkdir(d, n)
    \/ \E i \in Linked : Rmdir(i)
    \/ \E p \in Movers, i \in Linked, d \in {Top} \cup Linked, n \in Names :
           RenameFrom(p, i, d, n)
    \/ \E p \in Movers : RenameTo(p)

-----------------------------------------------------------------------------
(* The monitor's cache.                                                    *)

findWatch(wd) == {e \in cache : e.wd = wd}
CachedPath(wd) == (CHOOSE e \in findWatch(wd) : TRUE).path
pathnameInCache(path) == \E e \in cache : e.path = path
isRootDirPath(path) == path \in roots

\* Cached entries for path and everything below it: a whole-component match.
Subtree(path) == {e \in cache : IsPrefix(path, e.path)}

rewriteCachedPaths(old, new) ==
    {IF IsPrefix(old, e.path)
     THEN [e EXCEPT !.path = new \o SubSeq(@, Len(old) + 1, Len(@))]
     ELSE e : e \in cache}

\* What zapSubtree() may do: inotify_rm_watch() every entry of the subtree in
\* slot order and stop at the first one that fails (its watch is gone).  The
\* entries zapped before a failure depend on the slots.
ZapOutcomes(path) ==
    LET all == Subtree(path)
        ok == {e \in all : e.wd \in DOMAIN watch}
    IN  IF ok = all THEN {[zapped |-> all, failed |-> FALSE]}
        ELSE {[zapped |-> z, failed |-> TRUE] : z \in SUBSET ok}

\* zapSubtree(): removed watches, cache entries and the IN_IGNORED events.
Zap(z) ==
    LET wds == {e.wd : e \in z.zapped}
    IN  /\ cache' = cache \ z.zapped
        /\ watch' = Unwatch(wds)
        /\ selfMask' = selfMask \ wds
        /\ queue' = EnqueueAll(queue,
                        [k \in 1..Cardinality(wds) |->
                            Event(SetToSeq(wds)[k], "IN_IGNORED", None, 0)])
        /\ UNCHANGED nextWd

\* nftw() on path: resolved by name, not below an open directory.
VisitPath(path) == [kind |-> "visit", path |-> path, dir |-> None]

\* reinitialize(): a new inotify instance and an empty cache, then a walk over
\* every root that is left; the events read so far are dropped.
Reinitialize_M2(rs, pc) ==
    /\ cache' = {}
    /\ walk' = [k \in 1..Cardinality(rs) - 1 |-> VisitPath(SetToSeq(rs)[k + 1])]
    /\ watch' = <<>> /\ selfMask' = {} /\ nextWd' = 1 /\ queue' = <<>>
    /\ buf' = <<>> /\ firstTry' = TRUE
    /\ mpc' = pc
    /\ quiet' = TRUE
    /\ UNCHANGED fsVars

Reinitialize(rs, pc) ==
    /\ cache' = {}
    /\ walk' = [k \in 1..Cardinality(rs) |-> VisitPath(SetToSeq(rs)[k])]
    /\ watch' = <<>> /\ selfMask' = {} /\ nextWd' = 1 /\ queue' = <<>>
    /\ buf' = <<>> /\ firstTry' = TRUE
    /\ mpc' = pc
    /\ quiet' = TRUE
    /\ UNCHANGED fsVars

-----------------------------------------------------------------------------
(* nftw() and its callback traverseTree().  nftw() opens a directory, calls *)
(* traverseTree(), which adds a watch by pathname, and then reads the      *)
(* names in the open directory.                                            *)

\* inotify_add_watch() on i-node i: an existing watch keeps its descriptor and
\* takes the new mask.

AddWatch(i, path) ==
    LET old == WdsOf(i)
        w == IF old = {} THEN nextWd ELSE CHOOSE x \in old : TRUE
    IN  /\ watch' = [x \in DOMAIN watch \cup {w} |-> IF x = w THEN i ELSE watch[x]]
        /\ nextWd' = IF old = {} THEN nextWd + 1 ELSE nextWd
        /\ selfMask' = IF isRootDirPath(path) THEN selfMask \cup {w}
                       ELSE selfMask \ {w}
        /\ cache' = IF findWatch(w) # {} THEN cache
                    ELSE cache \cup {[wd |-> w, path |-> path]}

Walking == mpc \in {"walk", "walkRead"}

Visited(item) ==
    IF item.dir = None THEN Resolve(item.path)
    ELSE Child(item.dir, Last(item.path))

\* traverseTree(): ENOENT from inotify_add_watch() is ignored.
Visit ==
    /\ Walking /\ walk # <<>> /\ Head(walk).kind = "visit"
    /\ LET item == Head(walk)
       IN  \E i \in Visited(item) :
             /\ IF Resolve(item.path) = {}
                THEN UNCHANGED <<watch, nextWd, selfMask, cache>>
                ELSE \E j \in Resolve(item.path) : AddWatch(j, item.path)
             /\ walk' = <<[item EXCEPT !.kind = "list", !.dir = i]>> \o Tail(walk)
    /\ UNCHANGED <<fsVars, queue, mpc, buf, firstTry, roots, cmds, quiet>>

\* The directory to visit is gone: nftw() skips it or gives up, and watchDir()
\* logs the error.  With several roots, the next root is walked.
VisitGone ==
    /\ Walking /\ walk # <<>> /\ Head(walk).kind = "visit"
    /\ Visited(Head(walk)) = {}
    /\ \/ walk' = Tail(walk)
       \/ NftwAborts /\ walk' = SelectSeq(Tail(walk), LAMBDA x : x.dir = None)
    /\ UNCHANGED <<fsVars, kernVars, mpc, buf, firstTry, cache, roots, cmds, quiet>>

List ==
    /\ Walking /\ walk # <<>> /\ Head(walk).kind = "list"
    /\ LET item == Head(walk)
           names == SetToSeq({loc[c].name : c \in Children(item.dir)})
       IN  walk' = [k \in 1..Len(names) |->
                       [kind |-> "visit", path |-> Append(item.path, names[k]),
                        dir |-> item.dir]] \o Tail(walk)
    /\ UNCHANGED <<fsVars, kernVars, mpc, buf, firstTry, cache, roots, cmds, quiet>>

WalkDone ==
    /\ Walking /\ walk = <<>>
    /\ mpc' = IF mpc = "walkRead" THEN "read"
              ELSE IF buf = <<>> THEN "select" ELSE "process"
    /\ UNCHANGED <<fsVars, kernVars, buf, firstTry, cache, roots, walk, cmds, quiet>>

-----------------------------------------------------------------------------
(* processInotifyEvents() and processNextInotifyEvent().                   *)

\* read(): at most BufLen events.
ReadEvents ==
    /\ mpc \in {"select", "read"} /\ queue # <<>>
    /\ LET n == IF Len(queue) < BufLen THEN Len(queue) ELSE BufLen
       IN  /\ buf' = SubSeq(queue, 1, n)
           /\ queue' = SubSeq(queue, n + 1, Len(queue))
    /\ firstTry' = TRUE
    /\ mpc' = "process"
    /\ UNCHANGED <<fsVars, watch, selfMask, nextWd, cache, roots, walk, cmds, quiet>>

ev == Head(buf)
FullPath(e) == Append(CachedPath(e.wd), e.name)

\* n events were consumed; the loop goes on with the rest of the buffer.
Consume(n) ==
    /\ buf' = SubSeq(buf, n + 1, Len(buf))
    /\ firstTry' = TRUE
    /\ mpc' = IF n = Len(buf) THEN "select" ELSE "process"

\* An event for a watch descriptor that is not in the cache.
UnknownWatch ==
    /\ mpc = "process" /\ ev.mask \notin {"IN_IGNORED", "IN_Q_OVERFLOW"}
    /\ findWatch(ev.wd) = {}
    /\ Reinitialize(roots, "walk")
    /\ UNCHANGED <<roots, cmds>>

Known(mask) == mpc = "process" /\ ev.mask = mask /\ findWatch(ev.wd) # {}

\* A new subdirectory, or one renamed into the tree: it is walked unless its
\* pathname is in the cache already.
OnCreate_M ==
    /\ Known("IN_CREATE") \/ Known("IN_MOVED_TO")
    /\ Consume(1)
    /\ UNCHANGED <<fsVars, kernVars, cache, roots, walk, cmds, quiet>>

OnCreate ==
    /\ Known("IN_CREATE") \/ Known("IN_MOVED_TO")
    /\ IF pathnameInCache(FullPath(ev)) THEN Consume(1) /\ UNCHANGED walk
       ELSE /\ walk' = <<VisitPath(FullPath(ev))>>
            /\ buf' = Tail(buf) /\ firstTry' = TRUE /\ mpc' = "walk"
    /\ UNCHANGED <<fsVars, kernVars, cache, roots, cmds, quiet>>

\* zapRootDirPath() ends the program when no root is left.
OnDeleteSelf_M ==
    /\ Known("IN_DELETE_SELF")
    /\ Consume(1)
    /\ UNCHANGED <<fsVars, kernVars, cache, roots, walk, cmds, quiet>>

OnDeleteSelf ==
    /\ Known("IN_DELETE_SELF")
    /\ roots' = roots \ {CachedPath(ev.wd)}
    /\ IF roots' = {}
       THEN mpc' = "exit" /\ UNCHANGED <<buf, firstTry, cache>>
       ELSE Consume(1) /\ cache' = cache \ findWatch(ev.wd)
    /\ UNCHANGED <<fsVars, kernVars, walk, cmds, quiet>>

\* IN_MOVED_FROM: a rename inside the tree if its IN_MOVED_TO is the very next
\* event in the buffer.
PairedMove ==
    /\ Len(buf) > 1
    /\ buf[2].mask = "IN_MOVED_TO" /\ buf[2].cookie = ev.cookie

OnRename ==
    /\ Known("IN_MOVED_FROM") /\ PairedMove /\ findWatch(buf[2].wd) # {}
    /\ cache' = rewriteCachedPaths(FullPath(ev), FullPath(buf[2]))
    /\ Consume(2)
    /\ UNCHANGED <<fsVars, kernVars, roots, walk, cmds, quiet>>

OnRenameUnknownTarget ==
    /\ Known("IN_MOVED_FROM") /\ PairedMove /\ findWatch(buf[2].wd) = {}
    /\ Reinitialize(roots, "walk")
    /\ UNCHANGED <<roots, cmds>>

\* Otherwise a rename out of the tree, unless the event is the last one in the
\* buffer and has not been tried before.
OnMovedOut ==
    /\ Known("IN_MOVED_FROM") /\ ~PairedMove /\ (Len(buf) > 1 \/ ~firstTry)
    /\ \E z \in ZapOutcomes(FullPath(ev)) :
          IF z.failed THEN Reinitialize(roots, "walk")
          ELSE Zap(z) /\ Consume(1) /\ UNCHANGED <<fsVars, walk, quiet>>
    /\ UNCHANGED <<roots, cmds>>

OnHangingMovedFrom ==
    /\ Known("IN_MOVED_FROM") /\ Len(buf) = 1 /\ firstTry
    /\ mpc' = "more"
    /\ UNCHANGED <<fsVars, kernVars, buf, firstTry, cache, roots, walk, cmds, quiet>>

\* The secondary read(): it gets the events there are, or is interrupted by
\* the 2 ms alarm when there are none.
SecondaryRead_M ==
    /\ mpc = "more"
    /\ buf' = buf \o queue
    /\ queue' = <<>>
    /\ mpc' = "process"
    /\ UNCHANGED <<fsVars, watch, selfMask, nextWd, firstTry, cache, roots, walk,
                   cmds, quiet>>

SecondaryRead ==
    /\ mpc = "more"
    /\ buf' = buf \o queue
    /\ queue' = <<>>
    /\ firstTry' = FALSE
    /\ mpc' = "process"
    /\ UNCHANGED <<fsVars, watch, selfMask, nextWd, cache, roots, walk, cmds, quiet>>

OnOverflow ==
    /\ mpc = "process" /\ ev.mask = "IN_Q_OVERFLOW"
    /\ Reinitialize(roots, "walk")
    /\ UNCHANGED <<roots, cmds>>

\* A root directory was renamed: it is no longer monitored.
OnMoveSelf ==
    /\ Known("IN_MOVE_SELF")
    /\ LET path == CachedPath(ev.wd)
       IN  IF ~isRootDirPath(path)
           THEN /\ Consume(1)
                /\ UNCHANGED <<fsVars, kernVars, cache, roots, walk, quiet>>
           ELSE /\ roots' = roots \ {path}
                /\ IF roots' = {}
                   THEN /\ mpc' = "exit"
                        /\ UNCHANGED <<fsVars, kernVars, buf, firstTry, cache,
                                       walk, quiet>>
                   ELSE \E z \in ZapOutcomes(path) :
                          IF z.failed THEN Reinitialize(roots', "walk")
                          ELSE Zap(z) /\ Consume(1)
                               /\ UNCHANGED <<fsVars, walk, quiet>>
    /\ UNCHANGED cmds

OnIgnored ==
    /\ mpc = "process" /\ ev.mask = "IN_IGNORED"
    /\ Consume(1)
    /\ UNCHANGED <<fsVars, kernVars, cache, roots, walk, cmds, quiet>>

-----------------------------------------------------------------------------
(* executeCommand(), for the commands that change state.                   *)

Command(c) ==
    /\ mpc = "select" /\ c \in Commands /\ cmds < MaxCmds
    /\ cmds' = cmds + 1

\* '0': after the rebuild, main() tests an fd_set that is older than the new
\* descriptor: if events were pending, it goes on to a read() that blocks.
CmdRebuild ==
    /\ Command("0")
    /\ \/ Reinitialize(roots, "walk")
       \/ queue # <<>> /\ Reinitialize(roots, "walkRead")
    /\ UNCHANGED roots

CmdZap(path) ==
    /\ Command("z")
    /\ \E z \in ZapOutcomes(path) : Zap(z)
    /\ quiet' = FALSE
    /\ UNCHANGED <<fsVars, mpc, buf, firstTry, roots, walk>>

CmdAdd(path) ==
    /\ Command("a")
    /\ \E z \in ZapOutcomes(path) : Zap(z)
    /\ walk' = <<VisitPath(path)>>
    /\ mpc' = "walk"
    /\ quiet' = FALSE
    /\ UNCHANGED <<fsVars, buf, firstTry, roots>>

CmdQuit ==
    /\ Command("q")
    /\ mpc' = "exit"
    /\ UNCHANGED <<fsVars, kernVars, buf, firstTry, cache, roots, walk, quiet>>

-----------------------------------------------------------------------------
Monitor ==
    \/ Visit \/ VisitGone \/ List \/ WalkDone
    \/ ReadEvents \/ UnknownWatch \/ OnCreate \/ OnDeleteSelf
    \/ OnRename \/ OnRenameUnknownTarget \/ OnMovedOut \/ OnHangingMovedFrom
    \/ SecondaryRead \/ OnOverflow \/ OnMoveSelf \/ OnIgnored

User ==
    \/ CmdRebuild
    \/ \E path \in {PathOf(i) : i \in Linked} : CmdZap(path) \/ CmdAdd(path)
    \/ CmdQuit

\* main(): the roots exist; reinitialize(-1) builds the first cache.
Init ==
    /\ world \in Worlds
    /\ used = Cardinality(RootNames)
    /\ loc = [i \in Inodes |->
                 IF i <= used THEN [dir |-> Top, name |-> SetToSeq(RootNames)[i]]
                 ELSE Unlinked]
    /\ ops = 0
    /\ moving = [p \in Movers |-> <<>>]
    /\ watch = <<>> /\ selfMask = {} /\ nextWd = 1 /\ queue = <<>>
    /\ mpc = "walk" /\ buf = <<>> /\ firstTry = TRUE
    /\ cache = {} /\ roots = RootPaths /\ cmds = 0
    /\ walk = [k \in 1..used |-> VisitPath(<<SetToSeq(RootNames)[k]>>)]
    /\ quiet = TRUE

Next == Filesystem \/ Monitor \/ User

Spec == Init /\ [][Next]_vars

\* The monitor keeps running and a rename() that was started is finished; the
\* other processes and the user may stop at any time.
FairSpec == Spec /\ WF_vars(Monitor) /\ WF_vars(\E p \in Movers : RenameTo(p))

-----------------------------------------------------------------------------
(* Properties.                                                             *)

\* The directories that should be cached, with their watches.
Monitored == {i \in Linked : \E r \in roots : IsPrefix(r, PathOf(i))}

CacheExact ==
    /\ {watch[w] : w \in DOMAIN watch} = Monitored
    /\ cache = {[wd |-> w, path |-> PathOf(watch[w])] : w \in DOMAIN watch}

Quiescent ==
    /\ mpc \in {"select", "read"} /\ queue = <<>>
    /\ \A p \in Movers : moving[p] = <<>>

\* The program's goal: "an internal representation of the directory trees that
\* remains consistent with the filesystem".  When all events are processed,
\* the cache is the directory tree, and every cached watch is on the
\* directory that has the cached pathname.
RemainsConsistent == Quiescent => CacheExact

\* It is, as long as nothing is renamed: directories that are created and removed
\* while the monitor walks and reads, queue overflows and rebuilds included.
QuiescentConsistency ==
    "rename" \notin Ops /\ Commands \subseteq {"0"} /\ ~NftwAborts => RemainsConsistent

\* A rebuild (reinitialize()) brings the cache "back into consistency with the
\* filesystem", whatever happened before, if the tree is left alone meanwhile.
RebuildRepairs == quiet /\ mpc \in {"select", "read"} => CacheExact

Pending(wd, mask) ==
    \E k \in DOMAIN (buf \o queue) :
        \/ (buf \o queue)[k].mask = "IN_Q_OVERFLOW"
        \/ (buf \o queue)[k].wd = wd /\ (buf \o queue)[k].mask = mask

\* A watch descriptor is in at most one cache slot, so that findWatch() and the
\* rewriting of pathnames never meet two entries for one directory; and no cache
\* entry outlives its directory unnoticed: if the watch of a cached entry is
\* gone, the event that removes the entry (or an overflow, which rebuilds the
\* cache) is still to be processed.
CacheSound ==
    /\ \A e, f \in cache : e.wd = f.wd => e = f
    /\ mpc # "exit" =>
         \A e \in cache : e.wd \notin DOMAIN watch => Pending(e.wd, "IN_DELETE_SELF")

\* Every event is processed: once the other processes stop, the monitor gets
\* back to select() with nothing left to read, or it exits.
Drains == <>[](mpc = "exit" \/ (mpc \in {"select", "read"} /\ queue = <<>>))

-----------------------------------------------------------------------------
(* The environments in which the model checker runs the monitor.           *)

\* One root; directories are created and removed, the cache is rebuilt.
Tree ==
    [names |-> {1, 2}, roots |-> {1}, maxInode |-> 4, maxOps |-> 5, movers |-> {},
     ops |-> {"mkdir", "rmdir"}, commands |-> {"0"}, maxQueue |-> 4, bufLen |-> 2,
     aborts |-> FALSE]

\* One process also renames, inside, into and out of the tree.
Rename ==
    [names |-> {1, 2}, roots |-> {1}, maxInode |-> 3, maxOps |-> 3, movers |-> {1},
     ops |-> {"mkdir", "rmdir", "rename", "out"}, commands |-> {"0"}, maxQueue |-> 3,
     bufLen |-> 2, aborts |-> TRUE]

\* Two roots that are renamed and removed, two processes that rename.
Roots ==
    [names |-> {1, 2, 3}, roots |-> {1, 2}, maxInode |-> 3, maxOps |-> 2,
     movers |-> {1, 2}, ops |-> {"mkdir", "rmdir", "rename", "root", "out"},
     commands |-> {}, maxQueue |-> 3, bufLen |-> 2, aborts |-> TRUE]

\* The commands that change the cache, in a small tree.
Commanded ==
    [names |-> {1, 2}, roots |-> {1, 2}, maxInode |-> 4, maxOps |-> 2, movers |-> {1},
     ops |-> {"mkdir", "rmdir", "rename"}, commands |-> {"a", "z", "q"},
     maxQueue |-> 3, bufLen |-> 2, aborts |-> TRUE]

AllWorlds == {Tree, Rename, Roots, Commanded}
=============================================================================
