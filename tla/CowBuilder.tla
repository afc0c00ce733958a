----------------------------- MODULE CowBuilder -----------------------------
(***************************************************************************)
(* cowbuilder (cowbuilder.c): several sessions on one base tree.           *)
(*                                                                         *)
(* A session hard-links the base into a build place of its own, runs        *)
(* pbuilder there, and then removes the build place or installs it as the  *)
(* new base.  Nothing is locked: the sessions interleave between any two   *)
(* commands they fork, each command can fail, and a session can be killed  *)
(* between any two of them.                                                *)
(*                                                                         *)
(* A directory tree is a record: how complete it is, which sessions' work  *)
(* it contains, what its .ilist says of it, and whether a directory of the *)
(* host is mounted below it.  rename moves the whole record.               *)
(***************************************************************************)
EXTENDS Integers

CONSTANTS
    Sessions,     \* cowbuilder processes; the build place is named by the pid
    Ops,          \* the operations they are started with
    SavingOps,    \* login and execute, when --save-after-login is given
    StaleOps,     \* operations whose pbuilder may leave a mount behind
    KilledOps,    \* operations whose pbuilder may be killed by a signal
    Leftover,     \* sessions whose pid had an earlier session that was aborted
    Etch,         \* sessions run with --debian-etch-workaround
    NoCow,        \* TRUE: --no-cowdancer-update
    Truncates,    \* TRUE: a failing ilistcreate may leave a loadable half
    MtabReadable, \* TRUE: /etc/mtab can be opened, and spells a build place as
                  \* the configuration does
    None

ASSUME OpAssumption ==
    /\ None \notin Sessions
    /\ Ops \subseteq {"build", "login", "execute", "update", "create"}
    /\ SavingOps \subseteq {"login", "execute"}
    /\ Leftover \subseteq Sessions
    /\ Etch \subseteq Sessions
ASSUME FlagAssumption == {NoCow, Truncates, MtabReadable} \subseteq BOOLEAN

VARIABLES
    tree,       \* what is found under each path
    pc,         \* the command a session is about to run
    op, ret,    \* its operation, and the value it will return
    damaged,    \* the commands whose rm -rf has gone through a mount into the host
    installed,  \* history: sessions whose tree has been made the base, and
                \* None when there was a base to begin with
    overlapped, \* history: sessions that save have not kept out of each
                \* other's way, or create was run where a base has been
    misled      \* history: sessions that have gone on with the base's .ilist

ghostVars == <<installed, overlapped, misled>>
vars == <<tree, pc, op, ret, damaged, ghostVars>>

Base == <<"base">>
Build(s) == <<"build", s>>       \* pc->buildplace
Aside(s) == <<"tmp", s>>         \* <buildplace>-<pid>-tmp
Places == {Base} \cup {Build(s) : s \in Sessions} \cup {Aside(s) : s \in Sessions}

Tree == [state : {"absent", "copying", "whole", "running", "partial"},
         saved : SUBSET (Sessions \cup {None}),
         list : {"none", "own", "old", "half"},
         mounted : BOOLEAN]
Nothing == [state |-> "absent", saved |-> {}, list |-> "none", mounted |-> FALSE]
\* The base there was, the work of None.
FirstBase == [state |-> "whole", saved |-> {None}, list |-> "own", mounted |-> FALSE]
Exists(p) == tree[p].state # "absent"
\* the commands that remove a tree
Removals == {"rm", "clean", "rmaside", "rmbuild", "rmbase"}

TypeOK ==
    /\ tree \in [Places -> Tree]
    /\ pc \in [Sessions -> {"idle", "rm", "cp", "copying", "unlink", "ilistcreate",
                            "fallback", "pbuilder", "running", "clean",
                            "aptclean", "aside", "install", "rmaside", "rmbuild",
                            "mkdir", "rmbase", "done", "dead"}]
    /\ op \in [Sessions -> Ops \cup {None}]
    /\ ret \in [Sessions -> {-1, 0, 1, 128}]
    /\ damaged \subseteq Removals
    /\ installed \subseteq Sessions \cup {None}
    /\ overlapped \in BOOLEAN
    /\ misled \subseteq Sessions
    /\ \A p \in Places : ~Exists(p) => tree[p] = Nothing

\* What an aborted or killed session has left in its build place, a mount that
\* was in use perhaps; so does one whose clean was refused.
LeftTree(held) == [FirstBase EXCEPT !.state = "partial", !.mounted = held]

Init ==
    /\ \E b \in {Nothing, FirstBase}, held \in [Leftover -> BOOLEAN] :
         tree = [p \in Places |->
                   IF p = Base THEN b
                   ELSE IF \E s \in Leftover : p = Build(s)
                        THEN LeftTree(held[CHOOSE s \in Leftover : p = Build(s)])
                        ELSE Nothing]
    /\ pc = [s \in Sessions |-> "idle"]
    /\ op = [s \in Sessions |-> None]
    /\ ret = [s \in Sessions |-> 0]
    /\ damaged = {}
    /\ installed = tree[Base].saved
    /\ overlapped = FALSE
    /\ misled = {}

----------------------------------------------------------------------------
(* Seeded faults: what the definitions below would be with a plausible bug. *)

\* cleancow without the test that Debian bug 703406 asked for
ChecksNothing(s) == FALSE
\* the .ilist that cp -al brought along is left for COWDANCER_REUSE
KeepsOldList(r) == r.list
\* what saveupdate returns is dropped in login and execute too
DropsFailure(s) == UNCHANGED ret
\* an update that fails is saved
SavesFailedUpdate(s, r) ==
    IF r >= 128 THEN "done"
    ELSE IF op[s] = "update" THEN "aside"
    ELSE IF op[s] \in SavingOps THEN "aptclean" ELSE "clean"
\* rm -rf path/* instead of path
LeavesDotfiles(p) == [Nothing EXCEPT !.list = tree[p].list]

----------------------------------------------------------------------------
Goto(s, l) == pc' = [pc EXCEPT ![s] = l]
Return(s, r) == Goto(s, "done") /\ ret' = [ret EXCEPT ![s] = r]

\* A cp -al that reads the base while it changes ends with a mixture at best.
Spoiled(t) == [p \in Places |-> IF t[p].state = "copying"
                                THEN [t[p] EXCEPT !.state = "partial"] ELSE t[p]]
SetTree(p, r) == LET t == [tree EXCEPT ![p] = r]
                 IN  tree' = IF p = Base THEN Spoiled(t) ELSE t
\* rename(from, to): the mounts below from move with it.
Move(from, to) == tree' = Spoiled([tree EXCEPT ![to] = tree[from], ![from] = Nothing])

Removed(p) == Nothing

\* rm -rf p by s, and whether it succeeds.  It empties what is mounted below p
\* and then fails on the mount point itself.
RmRf(s, p, ok) ==
    /\ Exists(p) \/ ok
    /\ tree[p].mounted => ~ok
    /\ SetTree(p, IF ok THEN Removed(p) ELSE [tree[p] EXCEPT !.state = "partial"])
    /\ damaged' = IF tree[p].mounted THEN damaged \cup {pc[s]} ELSE damaged

Saves(o) == o \in SavingOps \cup {"update"}
Active(s) == pc[s] \notin {"idle", "done", "dead"}

Start(s, o) ==
    /\ pc[s] = "idle"
    /\ op' = [op EXCEPT ![s] = o]
    /\ Goto(s, IF o = "create" THEN "mkdir" ELSE "rm")
    /\ overlapped' = \/ overlapped
                     \/ o = "create" /\ (installed # {} \/ \E q \in Sessions : Active(q))
                     \/ \E q \in Sessions :
                          /\ Active(q)
                          /\ (Saves(op[q]) /\ Saves(o)) \/ op[q] = "create"
    /\ UNCHANGED <<tree, ret, damaged, installed, misled>>

----------------------------------------------------------------------------
(* cpbuilder_internal_cowcopy                                              *)

Rm(s, ok) ==
    /\ pc[s] = "rm"
    /\ RmRf(s, Build(s), ok)
    /\ IF ok THEN Goto(s, "cp") /\ UNCHANGED ret ELSE Return(s, 1)
    /\ UNCHANGED <<op, ghostVars>>

CpBegins(s) ==
    /\ pc[s] = "cp"
    /\ IF Exists(Base)
       THEN /\ SetTree(Build(s),
                       [state |-> IF tree[Base].state = "whole" THEN "copying"
                                                                ELSE "partial",
                        saved |-> tree[Base].saved,
                        list |-> IF tree[Base].list = "none" THEN "none" ELSE "old",
                        mounted |-> FALSE])
            /\ Goto(s, "copying") /\ UNCHANGED ret
       ELSE UNCHANGED tree /\ Return(s, 1)
    /\ UNCHANGED <<op, damaged, ghostVars>>

\* cp -al cannot link what is on another file system.
CpEnds(s, ok) ==
    /\ pc[s] = "copying"
    /\ tree[Base].mounted => ~ok
    /\ LET whole == ok /\ tree[Build(s)].state = "copying"
       IN  SetTree(Build(s), [tree[Build(s)] EXCEPT
                                !.state = IF whole THEN "whole" ELSE "partial"])
    /\ IF ok THEN Goto(s, "unlink") /\ UNCHANGED ret ELSE Return(s, 1)
    /\ UNCHANGED <<op, damaged, ghostVars>>

ListAfterUnlink(r) == "none"

\* The results of the three break_cowlink calls are ignored; they change which
\* inodes a tree shares, which this module does not look at.
UnlinkIlist(s) ==
    /\ pc[s] = "unlink"
    /\ SetTree(Build(s), [tree[Build(s)] EXCEPT
                            !.list = ListAfterUnlink(tree[Build(s)])])
    /\ Goto(s, IF op[s] = "build" THEN "ilistcreate" ELSE "pbuilder")
    /\ UNCHANGED <<op, ret, damaged, ghostVars>>

\* unlink fails with another error than ENOENT: a message, and the session goes
\* on with the list that describes the base.
UnlinkIlistFails(s) ==
    /\ pc[s] = "unlink" /\ tree[Build(s)].list # "none"
    /\ Goto(s, IF op[s] = "build" THEN "ilistcreate" ELSE "pbuilder")
    /\ misled' = misled \cup {s}
    /\ UNCHANGED <<tree, op, ret, damaged, installed, overlapped>>

----------------------------------------------------------------------------
(* cpbuilder_build makes the list before it runs pbuilder.                 *)

SetList(s, l) == SetTree(Build(s), [tree[Build(s)] EXCEPT !.list = l])
\* What a failing ilistcreate leaves.
ListLeft(s) == {tree[Build(s)].list} \cup IF Truncates THEN {"half"} ELSE {}

\* cowdancer-ilistcreate in the chroot
IlistCreate(s, ok) ==
    /\ pc[s] = "ilistcreate"
    /\ IF ok THEN SetList(s, "own") ELSE \E l \in ListLeft(s) : SetList(s, l)
    /\ Goto(s, IF ok THEN "pbuilder" ELSE "fallback")
    /\ UNCHANGED <<op, ret, damaged, ghostVars>>

\* cow-shell /bin/true takes a list that exists; build gives up if it fails.
EtchFallback(s, ok) ==
    /\ pc[s] = "fallback" /\ s \in Etch
    /\ IF ok THEN SetList(s, IF tree[Build(s)].list = "none" THEN "own"
                                                        ELSE tree[Build(s)].list)
             ELSE \E l \in ListLeft(s) : SetList(s, l)
    /\ IF ok THEN Goto(s, "pbuilder") /\ UNCHANGED ret ELSE Return(s, 1)
    /\ UNCHANGED <<op, damaged, ghostVars>>

\* ilistcreate on the host; its result is ignored
HostFallback(s, ok) ==
    /\ pc[s] = "fallback" /\ s \notin Etch
    /\ IF ok THEN SetList(s, "own") ELSE \E l \in ListLeft(s) : SetList(s, l)
    /\ Goto(s, "pbuilder")
    /\ UNCHANGED <<op, ret, damaged, ghostVars>>

----------------------------------------------------------------------------
(* pbuilder, and cow-shell in its chroot.                                  *)

\* cow-shell with COWDANCER_REUSE: it makes a list only when there is none.
Protected(s) == /\ ~(op[s] = "update" /\ NoCow)
                /\ tree[Build(s)].list \in {"none", "own"}
\* Writes that no copy precedes reach every tree, since all share their files.
Worked(s, t) == [p \in Places |->
                   IF t[p].state # "absent" /\ (p = Build(s) \/ ~Protected(s))
                   THEN [t[p] EXCEPT !.saved = @ \cup {s}] ELSE t[p]]

PbuilderBegins(s) ==
    /\ pc[s] = "pbuilder"
    /\ LET r == tree[Build(s)]
       IN  tree' = Worked(s, [tree EXCEPT ![Build(s)] =
                     [r EXCEPT !.state = IF @ = "whole" THEN "running" ELSE @,
                               !.list = IF @ = "none" /\ ~(op[s] = "update" /\ NoCow)
                                        THEN "own" ELSE @,
                               !.mounted = TRUE]])
    /\ Goto(s, "running")
    /\ UNCHANGED <<op, ret, damaged, ghostVars>>

\* pbuilder update saves nothing worth keeping when it fails; the other
\* operations report the status of the user's command.
Completes(s, r) == r = 0 \/ (r > 0 /\ op[s] \in {"login", "execute"})

AfterPbuilder(s, r) ==
    IF r >= 128 THEN "done"
    ELSE IF op[s] = "update" THEN IF r = 0 THEN "aside" ELSE "rmbuild"
    ELSE IF op[s] \in SavingOps THEN "aptclean" ELSE "clean"

PbuilderEnds(s, r, stale) ==
    /\ pc[s] = "running" /\ op[s] # "create"
    /\ stale => op[s] \in StaleOps
    /\ r = -1 => op[s] \in KilledOps
    /\ SetTree(Build(s), [tree[Build(s)] EXCEPT
                 !.state = IF @ = "running" /\ Completes(s, r) THEN "whole"
                                                               ELSE "partial",
                 !.mounted = stale])
    /\ ret' = [ret EXCEPT ![s] = r]
    /\ Goto(s, AfterPbuilder(s, r))
    /\ UNCHANGED <<op, damaged, ghostVars>>

----------------------------------------------------------------------------
(* cpbuilder_internal_cleancow; the callers ignore its result.             *)

\* check_mountpoint, for the path of s: the names in mtab are compared with the
\* build place as it is written, slashes aside.  It compares prefixes, so a
\* mount under the build place of a pid that begins with the digits of s is
\* seen too.
MountBelow(s) == MtabReadable /\ tree[Build(s)].mounted
MountBeside(s) == MtabReadable /\ \E q \in Sessions \ {s} :
                                    tree[Build(q)].mounted \/ tree[Aside(q)].mounted

CleanRefused(s) ==
    /\ pc[s] = "clean"
    /\ MountBelow(s) \/ MountBeside(s)
    /\ Goto(s, "done")
    /\ UNCHANGED <<tree, op, ret, damaged, ghostVars>>

Clean(s, ok) ==
    /\ pc[s] = "clean"
    /\ ~MountBelow(s)
    /\ RmRf(s, Build(s), ok)
    /\ Goto(s, "done")
    /\ UNCHANGED <<op, ret, ghostVars>>

----------------------------------------------------------------------------
(* cpbuilder_internal_saveupdate, and what its callers do with its result. *)

\* apt-get clean, in login and execute; the tree is saved all the same
AptClean(s, ok) ==
    /\ pc[s] = "aptclean"
    /\ Goto(s, "aside")
    /\ ret' = IF ok THEN ret ELSE [ret EXCEPT ![s] = -1]
    /\ UNCHANGED <<tree, op, damaged, ghostVars>>

\* login and execute return -1 when saveupdate fails, update ignores it.
SaveFailed(s) ==
    ret' = IF op[s] = "update" THEN ret ELSE [ret EXCEPT ![s] = -1]

\* rename(basepath, buf_tmpfile)
MoveAside(s) ==
    /\ pc[s] = "aside" /\ Exists(Base)
    /\ Move(Base, Aside(s))
    /\ Goto(s, "install")
    /\ UNCHANGED <<op, ret, damaged, ghostVars>>

\* rename(buildplace, basepath)
Install(s) ==
    /\ pc[s] = "install" /\ ~Exists(Base)
    /\ Move(Build(s), Base)
    /\ Goto(s, "rmaside")
    /\ installed' = installed \cup {s}
    /\ UNCHANGED <<op, ret, damaged, overlapped, misled>>

\* Either rename fails: the base is gone, or another session has put one
\* there, or the file system refuses.
RenameFails(s) ==
    /\ pc[s] \in {"aside", "install"}
    /\ Goto(s, "done") /\ SaveFailed(s)
    /\ UNCHANGED <<tree, op, damaged, ghostVars>>

\* rmrf(buf_tmpfile)
RemoveAside(s, ok) ==
    /\ pc[s] = "rmaside"
    /\ RmRf(s, Aside(s), ok)
    /\ Goto(s, "done")
    /\ IF ok THEN UNCHANGED ret ELSE SaveFailed(s)
    /\ UNCHANGED <<op, ghostVars>>

\* A failed update removes its build place, with no check_mountpoint.
RemoveBuild(s, ok) ==
    /\ pc[s] = "rmbuild"
    /\ RmRf(s, Build(s), ok)
    /\ Goto(s, "done")
    /\ UNCHANGED <<op, ret, ghostVars>>

----------------------------------------------------------------------------
(* cpbuilder_create                                                        *)

\* The mkdir and the start of pbuilder; a base that exists is used as it is.
CreateBegins(s) ==
    /\ pc[s] = "mkdir"
    /\ SetTree(Base, [tree[Base] EXCEPT !.state = "running", !.saved = @ \cup {s},
                                        !.mounted = TRUE])
    /\ Goto(s, "running")
    /\ UNCHANGED <<op, ret, damaged, ghostVars>>

CreateEnds(s, r, stale) ==
    /\ pc[s] = "running" /\ op[s] = "create"
    /\ stale => "create" \in StaleOps
    /\ r = -1 => "create" \in KilledOps
    /\ \/ /\ Exists(Base)
          /\ SetTree(Base, [tree[Base] EXCEPT
                       !.state = IF r = 0 THEN "whole" ELSE "partial",
                       !.mounted = stale])
       \/ ~Exists(Base) /\ r # 0 /\ UNCHANGED tree
    /\ installed' = IF r = 0 THEN installed \cup {s} ELSE installed
    /\ IF r = 0 THEN Return(s, 0)
       ELSE Goto(s, "rmbase") /\ ret' = [ret EXCEPT ![s] = r]
    /\ UNCHANGED <<op, damaged, overlapped, misled>>

RemoveBase(s, ok) ==
    /\ pc[s] = "rmbase"
    /\ RmRf(s, Base, ok)
    /\ Goto(s, "done")
    /\ UNCHANGED <<op, ret, ghostVars>>

----------------------------------------------------------------------------
\* A session is killed, or the machine stops, between two commands.
Crash(s) ==
    /\ Active(s)
    /\ Goto(s, "dead")
    /\ UNCHANGED <<tree, op, ret, damaged, ghostVars>>

Command(s, ok) ==
    \/ Rm(s, ok) \/ CpEnds(s, ok)
    \/ IlistCreate(s, ok) \/ EtchFallback(s, ok) \/ HostFallback(s, ok)
    \/ Clean(s, ok) \/ AptClean(s, ok)
    \/ RemoveAside(s, ok) \/ RemoveBuild(s, ok) \/ RemoveBase(s, ok)

SessionStep(s) ==
    \/ \E o \in Ops : Start(s, o)
    \/ \E ok \in BOOLEAN : Command(s, ok)
    \/ CpBegins(s) \/ UnlinkIlist(s) \/ UnlinkIlistFails(s)
    \/ PbuilderBegins(s) \/ CreateBegins(s)
    \/ \E r \in {-1, 0, 1, 128}, stale \in BOOLEAN :
         PbuilderEnds(s, r, stale) \/ CreateEnds(s, r, stale)
    \/ CleanRefused(s) \/ MoveAside(s) \/ Install(s) \/ RenameFails(s)
    \/ Crash(s)

Next == \E s \in Sessions : SessionStep(s)

Spec == Init /\ [][Next]_vars

----------------------------------------------------------------------------
(* Properties.                                                             *)

\* cowbuilder.c:223-228 and changelog 0.72: what is mounted into a tree is
\* still there when the tree is removed.  Excepted is cowcopy's rm -rf of the
\* build place it is about to fill (cowbuilder.c:183), which has no check_mountpoint
\* and meets whatever an earlier process of the same number has left mounted there.
HostIntact == overlapped \/ damaged \subseteq {"rm"}

\* A session shows in the base only once saveupdate has installed its tree:
\* not while it runs, not when it fails, and never when it is a build.  Excepted
\* is a session whose .ilist is the base's, because the unlink of line 196 has
\* failed: its writes go to every tree that shares the files.
OnlyInstalled ==
    \/ overlapped
    \/ tree[Base].saved \subseteq
         installed \cup {s \in Sessions : op[s] = "create"} \cup misled

\* Whatever fails and whoever is killed, a whole tree with the work of every
\* session installed so far is kept, under one of the paths of cowbuilder; there
\* is nothing to keep before there has been a base that works.
BaseKept == \/ overlapped
            \/ installed \cap ({None} \cup {s \in Sessions : op[s] = "create"}) = {}
            \/ \E p \in Places : tree[p].state = "whole" /\ installed \subseteq tree[p].saved

\* A login or execute that is to be saved and returns 0 is in the base.
SaveReported == \A s \in Sessions :
    /\ pc[s] = "done" /\ ret[s] = 0
    /\ op[s] \in SavingOps
    => s \in installed

\* cowbuilder.c:572: update returns 0 on success, other values on failure.
UpdateReported == \A s \in Sessions :
    pc[s] = "done" /\ ret[s] = 0 /\ op[s] = "update" => s \in installed

\* cowbuilder.c:592: the tree of a session that has been copied is changed by
\* no step of another session, and no other session writes into it but one whose
\* .ilist is the base's.
RunningUndisturbed ==
    [][\A s \in Sessions :
         /\ Active(s) /\ pc'[s] = pc[s]
         /\ pc[s] \notin {"rm", "cp", "copying", "mkdir"} /\ op[s] # "create"
         => LET before == tree[Build(s)]
                after == tree'[Build(s)]
            IN  /\ after = [before EXCEPT !.saved = after.saved]
                /\ before.saved \subseteq after.saved
                /\ after.saved \subseteq before.saved \cup misled]_vars
=============================================================================
