---------------------------- MODULE CopyOnWrite ----------------------------
(***************************************************************************)
(* libcowdancer.so: what happens between a program's call of open, creat,  *)
(* fopen, chown, lchown or chmod under cow-shell and the call of the real  *)
(* libc function (cowdancer.c).  check_inode_and_copy makes one system     *)
(* call after another without any lock, so one action below is one system  *)
(* call, and the processes of a session, the cp children they fork and the *)
(* programs' own unlink and rename calls interleave at that grain.         *)
(*                                                                         *)
(* The file system is a table from names to inodes.  "outside" holds the   *)
(* inodes that still have a link in the other tree, the one the session    *)
(* must not damage.  The content and the attributes of an inode are        *)
(* abstracted to the set of those who have changed them.                   *)
(***************************************************************************)
EXTENDS Naturals, FiniteSets, Sequences

CONSTANTS
    Procs,        \* threads of control that run with libcowdancer.so loaded
    Ignoring,     \* those whose environment has COWDANCER_IGNORE
    Blocking,     \* those that run with SIGCHLD blocked already
    Paths,        \* the names programs use
    LinkTo,       \* [names that are symbolic links -> the name they lead to]
    Temps,        \* the names mkstemp can make
    Inodes,       \* inode numbers
    Ilist,        \* the inodes listed in .ilist when the session started
    FirstInode,   \* [Paths -> Ilist or None]: the tree when the session started
    Requests,     \* the calls programs make, records with fields fn and how
    Removable,    \* the names programs may unlink or rename
    MaxCalls,     \* bound: calls all processes make together
    None          \* no inode, no name, no process

LinkPaths == DOMAIN LinkTo
Names == Paths \cup Temps

ASSUME PathAssumption == /\ LinkPaths \subseteq Paths
                         /\ LinkTo \in [LinkPaths -> Paths \ LinkPaths]
                         /\ Paths \cap Temps = {}
                         /\ Removable \subseteq Paths
                         /\ None \notin Names
ASSUME InodeAssumption == /\ Ilist \subseteq Inodes
                          /\ FirstInode \in [Paths -> Ilist \cup {None}]
                          /\ None \notin Inodes
ASSUME ProcAssumption == /\ Ignoring \subseteq Procs
                         /\ Blocking \subseteq Procs
                         /\ None \notin Procs
ASSUME ParameterAssumption == MaxCalls \in Nat

VARIABLES
    dir,          \* the inode a name is bound to, or None
    outside,      \* inodes that have a link in the original tree
    kind,         \* "reg" or "lnk", of an inode
    data,         \* the processes that have changed an inode, see Author
    pc,           \* the system call a process is about to make
    req, s,       \* the call in progress and its pathname argument
    canonical,    \* the name check_inode_and_copy found for s
    backup_file,  \* the temporary name mkstemp made for the call
    blocked,      \* TRUE while SIGCHLD is in the process's mask
    omask,        \* the mask sigprocmask saved
    cp, cpSource, \* per temporary name: state and first argument of its cp
    fd, writable, \* the descriptor a process has open, and its access mode
    rivals,       \* history: who else used the names of the call or descriptor
    unseen,       \* history: whose call came to libc without a valid look
    calls         \* how many calls have been made

fsVars == <<dir, outside, kind, data>>
callVars == <<req, s, canonical, backup_file>>
maskVars == <<blocked, omask>>
cpVars == <<cp, cpSource>>
fdVars == <<fd, writable>>
ghostVars == <<rivals, unseen, calls>>
vars == <<fsVars, pc, callVars, maskVars, cpVars, fdVars, ghostVars>>

----------------------------------------------------------------------------
(* The calls a program makes.  "how" is the sequence of the characters of  *)
(* an fopen mode, or of the flags of open.                                 *)

OpenCalls == {"open", "open64"}
CreatCalls == {"creat", "creat64"}
FopenCalls == {"fopen", "fopen64"}
FdCalls == {"fchown", "fchmod"}
ModeHas(r, c) == \E i \in DOMAIN r.how : r.how[i] = c

\* strspn(t, "aw+"): non-zero when the first character is one of these.
likely_fopen_write(t) == Len(t) > 0 /\ t[1] \in {"a", "w", "+"}

\* The wrapper of r.fn calls check_inode_and_copy.
Intercepts(r) ==
    \/ r.fn \in OpenCalls /\ (ModeHas(r, "O_WRONLY") \/ ModeHas(r, "O_RDWR"))
    \/ r.fn \in FopenCalls /\ likely_fopen_write(r.how)
    \/ r.fn \in CreatCalls \cup {"chown", "lchown", "chmod"}

Opens(r) == r.fn \in OpenCalls \cup CreatCalls \cup FopenCalls
OpensForWriting(r) ==
    \/ r.fn \in OpenCalls /\ (ModeHas(r, "O_WRONLY") \/ ModeHas(r, "O_RDWR"))
    \/ r.fn \in CreatCalls
    \/ r.fn \in FopenCalls /\ \E c \in {"a", "w", "+"} : ModeHas(r, c)
Creates(r) == \/ r.fn \in OpenCalls /\ ModeHas(r, "O_CREAT")
              \/ r.fn \in CreatCalls
              \/ r.fn \in FopenCalls /\ (ModeHas(r, "a") \/ ModeHas(r, "w"))
Truncates(r) == \/ r.fn \in OpenCalls /\ ModeHas(r, "O_TRUNC")
                \/ r.fn \in CreatCalls
                \/ r.fn \in FopenCalls /\ ModeHas(r, "w")
ChangesAttributes(r) == r.fn \in {"chown", "lchown", "chmod"}
Modifies(r) == OpensForWriting(r) \/ Truncates(r) \/ ChangesAttributes(r)
FollowsLinks(r) == r.fn # "lchown"

----------------------------------------------------------------------------
(* The file system.                                                        *)

Bound(n) == dir[n] # None
IsLink(n) == Bound(n) /\ kind[dir[n]] = "lnk"
\* The name the kernel ends at when it looks n up, for request r.
Final(n) == IF IsLink(n) /\ n \in LinkPaths THEN LinkTo[n] ELSE n
Resolve(r, n) == IF FollowsLinks(r) THEN Final(n) ELSE n
\* st_nlink > 1: a second name here, or a name in the original tree.
Hardlinked(i) == \/ i \in outside
                 \/ \E m, n \in Names : m # n /\ dir[m] = i /\ dir[n] = i
\* A number the file system may give to a new file.
Free(i) == /\ i \in Inodes \ outside
           /\ \A n \in Names : dir[n] # i
           /\ \A p \in Procs : fd[p] # i

(* History, for the properties only.  rivals[p] is, during a call of p, who *)
(* else has been using its names, and while p has a descriptor, who was     *)
(* breaking the link of the name when p opened it, or took the name away.   *)

Footprint(n) == {n} \cup (IF n \in LinkPaths THEN {LinkTo[n]} ELSE {})
InCall(p) == pc[p] # "idle"
UsersOf(S) == {q \in Procs : /\ InCall(q) \/ fd[q] # None
                             /\ Footprint(s[q]) \cap S # {}}
Breakers(n) == {q \in Procs : /\ pc[q] \in {"mkstemp", "sigprocmask", "fork",
                                            "waitpid", "rename"}
                              /\ canonical[q] = n}
\* p starts a call on the names S.
Meet(p, S) == [q \in Procs |->
                 IF q = p THEN UsersOf(S) \ {p}
                 ELSE IF q \in UsersOf(S) /\ InCall(q) THEN rivals[q] \cup {p}
                 ELSE rivals[q]]
\* p takes the names S away from whoever is using them.
Disturb(p, S) == [q \in Procs |->
                    IF q \in UsersOf(S) THEN rivals[q] \cup {p} ELSE rivals[q]]

(* A process is in unseen when its call has come to libc, or has opened its *)
(* descriptor, without a look at the file it meets there: because the look *)
(* failed on a name that leads to a file, or because a file that must be   *)
(* copied was renamed to the name after the look.  What it changes is      *)
(* recorded in data as the work of None.                                   *)

Author(p) == IF p \in unseen THEN None ELSE p
Seen == Procs \ (Ignoring \cup unseen)

----------------------------------------------------------------------------
TypeOK ==
    /\ dir \in [Names -> Inodes \cup {None}]
    /\ outside \in SUBSET Ilist
    /\ kind \in [Inodes -> {"reg", "lnk"}]
    /\ data \in [Inodes -> SUBSET (Procs \cup {None})]
    /\ pc \in [Procs -> {"idle", "lstat", "canonicalize", "stat", "mkstemp",
                         "sigprocmask", "fork", "waitpid", "rename", "libc"}]
    /\ req \in [Procs -> Requests \cup {None}]
    /\ s \in [Procs -> Paths \cup {None}]
    /\ canonical \in [Procs -> Paths \cup {None}]
    /\ backup_file \in [Procs -> Temps \cup {None}]
    /\ blocked \in [Procs -> BOOLEAN]
    /\ omask \in [Procs -> BOOLEAN]
    /\ cp \in [Temps -> {"none", "running", "exited0", "failed"}]
    /\ cpSource \in [Temps -> Paths \cup {None}]
    /\ fd \in [Procs -> Inodes \cup {None}]
    /\ writable \in [Procs -> BOOLEAN]
    /\ rivals \in [Procs -> SUBSET Procs]
    /\ unseen \in SUBSET {p \in Procs : pc[p] = "libc" \/ fd[p] # None}
    /\ calls \in 0..MaxCalls

\* The tree as cp -al has made it; cow-shell has just written .ilist and started
\* the programs.
Init ==
    /\ dir = [n \in Names |-> IF n \in Paths THEN FirstInode[n] ELSE None]
    /\ outside = Ilist
    /\ kind = [i \in Inodes |->
                 IF \E n \in LinkPaths : FirstInode[n] = i THEN "lnk" ELSE "reg"]
    /\ data = [i \in Inodes |-> {}]
    /\ pc = [p \in Procs |-> "idle"]
    /\ req = [p \in Procs |-> None]
    /\ s = [p \in Procs |-> None]
    /\ canonical = [p \in Procs |-> None]
    /\ backup_file = [p \in Procs |-> None]
    /\ blocked = [p \in Procs |-> p \in Blocking]
    /\ omask = blocked
    /\ cp = [t \in Temps |-> "none"]
    /\ cpSource = [t \in Temps |-> None]
    /\ fd = [p \in Procs |-> None]
    /\ writable = [p \in Procs |-> FALSE]
    /\ rivals = [p \in Procs |-> {}]
    /\ unseen = {}
    /\ calls = 0

----------------------------------------------------------------------------
(* Seeded faults: what the definitions below would be with a plausible bug. *)

\* "more than one link" counted one off
CopiesFromThirdLink(i) == /\ i \in outside /\ i \in Ilist
                          /\ Cardinality({n \in Names : dir[n] = i}) > 1
\* the number of links is not looked at
CopiesEveryListed(i) == i \in Ilist
\* sigprocmask left out of the error path
ForgetsMask(p) == UNCHANGED <<blocked, omask>>
\* waitpid with WNOHANG
DoesNotWait(p) == cp[backup_file[p]] \in {"running", "exited0"}
\* the arguments of cp are swapped
CopiesBackwards(p) == backup_file[p]
\* cp is given the pathname of the call, not the canonical one
CopiesCallersName(p) == s[p]

----------------------------------------------------------------------------
(* A program calls a wrapper.                                              *)

Goto(p, l) == pc' = [pc EXCEPT ![p] = l]
Forget(var, p) == [var EXCEPT ![p] = None]

\* The call is over and its local variables with it.  A call that returns -1
\* goes through here without libc, or from a libc call that failed.
Finish(p) == /\ Goto(p, "idle")
             /\ req' = Forget(req, p) /\ s' = Forget(s, p)
             /\ canonical' = Forget(canonical, p)
             /\ backup_file' = Forget(backup_file, p)
             /\ rivals' = [rivals EXCEPT ![p] = {}]
             /\ unseen' = unseen \ {p}
             /\ UNCHANGED calls

CanCall(p) == pc[p] = "idle" /\ fd[p] = None /\ calls < MaxCalls

\* The wrapper decides whether check_inode_and_copy runs at all.
Checked(p, r) == p \notin Ignoring /\ Intercepts(r)

\* A wrapper whose initialize_functions succeeds; when it fails, the wrapper
\* returns at once and nothing has happened.
Call(p, r, n) ==
    /\ CanCall(p)
    /\ r.fn \notin FdCalls
    /\ req' = [req EXCEPT ![p] = r]
    /\ s' = [s EXCEPT ![p] = n]
    /\ Goto(p, IF Checked(p, r) THEN "lstat" ELSE "libc")
    /\ rivals' = Meet(p, Footprint(n))
    /\ calls' = calls + 1
    /\ UNCHANGED <<fsVars, canonical, backup_file, maskVars, cpVars, fdVars, unseen>>

----------------------------------------------------------------------------
(* check_inode_and_copy                                                    *)

\* return 0: the wrapper goes on to libc
Pass(p) == /\ Goto(p, "libc")
           /\ canonical' = Forget(canonical, p)
           /\ backup_file' = Forget(backup_file, p)

\* The inode is hard-linked, and bsearch finds it in the ilist.
MustCopy(i) == Hardlinked(i) /\ i \in Ilist

\* lines 287 to 306, on what the last stat of n filled in
Decide(p, n) ==
    IF MustCopy(dir[n])
    THEN /\ Goto(p, "mkstemp") /\ UNCHANGED backup_file
         /\ canonical' = [canonical EXCEPT ![p] = n]
    ELSE Pass(p)

\* The name at which libc will end for the call of p.
Target(p) == Resolve(req[p], s[p])

\* lstat, canonicalize_file_name or stat fails: return 0, whatever the reason.
\* The code takes any error for "does not exist"; memory, permissions or the
\* length of the path can be another, and then there is a file for libc to meet.
LookFails(p) ==
    /\ Pass(p)
    /\ unseen' = IF Bound(Target(p)) THEN unseen \cup {p} ELSE unseen

LStat(p) ==
    /\ pc[p] = "lstat"
    /\ \/ LookFails(p)
       \/ /\ IsLink(s[p]) /\ FollowsLinks(req[p])
          /\ Goto(p, "canonicalize") /\ UNCHANGED <<canonical, backup_file, unseen>>
       \/ /\ Bound(s[p]) /\ ~(IsLink(s[p]) /\ FollowsLinks(req[p]))
          /\ Decide(p, s[p]) /\ UNCHANGED unseen
    /\ UNCHANGED <<fsVars, req, s, maskVars, cpVars, fdVars, rivals, calls>>

CanonicalizeFileName(p) ==
    /\ pc[p] = "canonicalize"
    /\ \/ LookFails(p)
       \/ /\ Bound(Target(p)) /\ Goto(p, "stat")
          /\ canonical' = [canonical EXCEPT ![p] = Target(p)]
          /\ UNCHANGED <<backup_file, unseen>>
    /\ UNCHANGED <<fsVars, req, s, maskVars, cpVars, fdVars, rivals, calls>>

Stat(p) ==
    /\ pc[p] = "stat"
    /\ \/ LookFails(p)
       \/ Bound(canonical[p]) /\ Decide(p, canonical[p]) /\ UNCHANGED unseen
    /\ UNCHANGED <<fsVars, req, s, maskVars, cpVars, fdVars, rivals, calls>>

\* return 1: the wrapper sets ENOMEM and does not call libc
Refuse(p) == Finish(p) /\ UNCHANGED <<fsVars, fdVars>>

\* mkstemp takes a name nobody has, and a new empty file for it.
TempFor(p, t) == ~Bound(t)

Mkstemp(p, t, i) ==
    /\ pc[p] = "mkstemp"
    /\ TempFor(p, t) /\ Free(i)
    /\ backup_file' = [backup_file EXCEPT ![p] = t]
    /\ dir' = [dir EXCEPT ![t] = i]
    /\ kind' = [kind EXCEPT ![i] = "reg"]
    /\ data' = [data EXCEPT ![i] = {}]
    /\ Goto(p, "sigprocmask")
    /\ UNCHANGED <<outside, req, s, canonical, maskVars, cpVars, fdVars, ghostVars>>

\* asprintf or mkstemp fails: error_canonical, error_buf
MkstempFails(p) ==
    pc[p] = "mkstemp" /\ Refuse(p) /\ UNCHANGED <<maskVars, cpVars>>

BlockSigchld(p) ==
    /\ pc[p] = "sigprocmask"
    /\ omask' = [omask EXCEPT ![p] = blocked[p]]
    /\ blocked' = [blocked EXCEPT ![p] = TRUE]
    /\ Goto(p, "fork")
    /\ UNCHANGED <<fsVars, callVars, cpVars, fdVars, ghostVars>>

\* error_buf: the temporary file stays
BlockSigchldFails(p) ==
    pc[p] = "sigprocmask" /\ Refuse(p) /\ UNCHANGED <<maskVars, cpVars>>

RestoreMask(p) == blocked' = [blocked EXCEPT ![p] = omask[p]] /\ UNCHANGED omask

\* error_spm: the mask is restored, the temporary file stays
ErrorSpm(p) == Refuse(p) /\ RestoreMask(p)

\* the first argument of cp -a
CpArgument(p) == canonical[p]

Fork(p) ==
    /\ pc[p] = "fork"
    /\ cp' = [cp EXCEPT ![backup_file[p]] = "running"]
    /\ cpSource' = [cpSource EXCEPT ![backup_file[p]] = CpArgument(p)]
    /\ Goto(p, "waitpid")
    /\ UNCHANGED <<fsVars, callVars, maskVars, fdVars, ghostVars>>

ForkFails(p) == pc[p] = "fork" /\ ErrorSpm(p) /\ UNCHANGED cpVars

\* waitpid gives the status of a cp that has exited with 0.
CopyDone(p) == cp[backup_file[p]] = "exited0"

WaitpidCopied(p) ==
    /\ pc[p] = "waitpid"
    /\ CopyDone(p)
    /\ Goto(p, "rename")
    /\ UNCHANGED <<fsVars, callVars, maskVars, cpVars, fdVars, ghostVars>>

\* cp exits with another status, or is killed by a signal.
WaitpidFailed(p) ==
    /\ pc[p] = "waitpid"
    /\ cp[backup_file[p]] = "failed"
    /\ ErrorSpm(p) /\ UNCHANGED cpVars

\* waitpid returns -1: interrupted by a handler, or the child was reaped by
\* the program itself.  cp may still be running.
WaitpidError(p) == pc[p] = "waitpid" /\ ErrorSpm(p) /\ UNCHANGED cpVars

\* rename(backup_file, canonical), then the mask is restored
RenameOver(p) ==
    /\ pc[p] = "rename"
    /\ dir' = [dir EXCEPT ![canonical[p]] = dir[backup_file[p]],
                          ![backup_file[p]] = None]
    /\ RestoreMask(p)
    /\ Pass(p)
    /\ UNCHANGED <<outside, kind, data, req, s, cpVars, fdVars, ghostVars>>

RenameFails(p) == pc[p] = "rename" /\ ErrorSpm(p) /\ UNCHANGED cpVars

----------------------------------------------------------------------------
(* The cp children; they run with COWDANCER_IGNORE.                        *)

CpEnds(t, status) ==
    /\ cp[t] = "running"
    /\ cp' = [cp EXCEPT ![t] = status]
    /\ cpSource' = [cpSource EXCEPT ![t] = None]
    /\ UNCHANGED <<dir, outside, pc, callVars, maskVars, fdVars, ghostVars>>

CpExits0(t) ==
    /\ CpEnds(t, "exited0")
    /\ Bound(cpSource[t])
    /\ data' = [data EXCEPT ![dir[t]] = data[dir[cpSource[t]]]]
    /\ kind' = [kind EXCEPT ![dir[t]] = kind[dir[cpSource[t]]]]

\* cp finds no source, runs out of space or is killed.
CpFails(t) == CpEnds(t, "failed") /\ UNCHANGED <<data, kind>>

----------------------------------------------------------------------------
(* The real libc function, then what the program does with the descriptor. *)

Change(i, p) == data' = [data EXCEPT ![i] = @ \cup {Author(p)}]

\* The call is over; its names matter until the descriptor is closed.
Opened(p, i, forWriting) ==
    /\ fd' = [fd EXCEPT ![p] = i]
    /\ writable' = [writable EXCEPT ![p] = forWriting]
    /\ Goto(p, "idle") /\ req' = Forget(req, p)
    /\ rivals' = [rivals EXCEPT ![p] = Breakers(Target(p))]
    /\ UNCHANGED <<outside, s, canonical, backup_file, maskVars, cpVars, unseen, calls>>

LibcOpen(p) ==
    /\ pc[p] = "libc" /\ Opens(req[p]) /\ Bound(Target(p))
    /\ Opened(p, dir[Target(p)], OpensForWriting(req[p]))
    /\ IF Truncates(req[p]) THEN Change(dir[Target(p)], p) ELSE UNCHANGED data
    /\ UNCHANGED <<dir, kind>>

LibcCreate(p, i) ==
    /\ pc[p] = "libc" /\ Creates(req[p]) /\ ~Bound(Target(p))
    /\ Free(i)
    /\ Opened(p, i, OpensForWriting(req[p]))
    /\ dir' = [dir EXCEPT ![Target(p)] = i]
    /\ kind' = [kind EXCEPT ![i] = "reg"]
    /\ data' = [data EXCEPT ![i] = {Author(p)}]

LibcAttributes(p) ==
    /\ pc[p] = "libc" /\ ChangesAttributes(req[p]) /\ Bound(Target(p))
    /\ Change(dir[Target(p)], p)
    /\ Finish(p)
    /\ UNCHANGED <<dir, outside, kind, maskVars, cpVars, fdVars>>

LibcFails(p) ==
    pc[p] = "libc" /\ Refuse(p) /\ UNCHANGED <<maskVars, cpVars>>

Write(p) ==
    /\ pc[p] = "idle" /\ fd[p] # None /\ writable[p]
    /\ Change(fd[p], p)
    /\ UNCHANGED <<dir, outside, kind, pc, callVars, maskVars, cpVars, fdVars,
                   ghostVars>>

\* check_fd_inode_and_warn warns at most; the descriptor's inode is changed.
FdCall(p, r) ==
    /\ pc[p] = "idle" /\ fd[p] # None
    /\ r.fn \in FdCalls
    /\ writable[p] <=> ~ModeHas(r, "O_RDONLY")
    /\ Change(fd[p], p)
    /\ UNCHANGED <<dir, outside, kind, pc, callVars, maskVars, cpVars, fdVars,
                   ghostVars>>

Close(p) ==
    /\ pc[p] = "idle" /\ fd[p] # None
    /\ fd' = Forget(fd, p)
    /\ writable' = [writable EXCEPT ![p] = FALSE]
    /\ Finish(p)
    /\ UNCHANGED <<fsVars, maskVars, cpVars>>

----------------------------------------------------------------------------
(* Calls the library does not intercept, and the other tree.               *)

Unlink(p, n) ==
    /\ pc[p] = "idle" /\ calls < MaxCalls
    /\ n \in Removable /\ Bound(n)
    /\ dir' = [dir EXCEPT ![n] = None]
    /\ rivals' = Disturb(p, {n})
    /\ calls' = calls + 1
    /\ UNCHANGED <<outside, kind, data, pc, callVars, maskVars, cpVars, fdVars, unseen>>

\* Those whose call is past its check, when a file that must be copied is put
\* under the name libc will open for them.
Sidestepped(from, to) ==
    {q \in Procs : pc[q] = "libc" /\ Target(q) = to /\ MustCopy(dir[from])}

Rename(p, from, to) ==
    /\ pc[p] = "idle" /\ calls < MaxCalls
    /\ {from, to} \subseteq Removable \ LinkPaths
    /\ Bound(from) /\ dir[from] # dir[to]
    /\ dir' = [dir EXCEPT ![to] = dir[from], ![from] = None]
    /\ rivals' = Disturb(p, {from, to})
    /\ unseen' = unseen \cup Sidestepped(from, to)
    /\ calls' = calls + 1
    /\ UNCHANGED <<outside, kind, data, pc, callVars, maskVars, cpVars, fdVars>>

\* The original tree is updated or removed while the session runs.
OutsideUnlink(i) ==
    /\ i \in outside
    /\ outside' = outside \ {i}
    /\ UNCHANGED <<dir, kind, data, pc, callVars, maskVars, cpVars, fdVars,
                   ghostVars>>

----------------------------------------------------------------------------
CheckStep(p) ==
    \/ LStat(p) \/ CanonicalizeFileName(p) \/ Stat(p)
    \/ \E t \in Temps, i \in Inodes : Mkstemp(p, t, i)
    \/ MkstempFails(p)
    \/ BlockSigchld(p) \/ BlockSigchldFails(p)
    \/ Fork(p) \/ ForkFails(p)
    \/ WaitpidCopied(p) \/ WaitpidFailed(p) \/ WaitpidError(p)
    \/ RenameOver(p) \/ RenameFails(p)

LibcStep(p) ==
    \/ LibcOpen(p) \/ LibcAttributes(p) \/ LibcFails(p)
    \/ \E i \in Inodes : LibcCreate(p, i)

ProgramStep(p) ==
    \/ \E r \in Requests, n \in Paths : Call(p, r, n)
    \/ \E r \in Requests : FdCall(p, r)
    \/ Write(p) \/ Close(p)
    \/ \E n \in Paths : Unlink(p, n)
    \/ \E from, to \in Paths : Rename(p, from, to)

Next ==
    \/ \E p \in Procs : CheckStep(p) \/ LibcStep(p) \/ ProgramStep(p)
    \/ \E t \in Temps : CpExits0(t) \/ CpFails(t)
    \/ \E i \in Inodes : OutsideUnlink(i)

Spec == Init /\ [][Next]_vars

----------------------------------------------------------------------------
(* Properties.                                                             *)

\* cow-shell.1:12-15: an inode that existed when the session started, and that
\* the other tree still links, is changed by no program that the library
\* watches, whatever the interleaving of the calls and whichever of them fail.
\* Excepted is the work of None: check_inode_and_copy lets a call pass whose
\* lstat, canonicalize_file_name or stat fails for any reason (cowdancer.c
\* 270-282), and does not see a file that is renamed to the name after the look.
OriginalsIntact == \A i \in outside : data[i] \subseteq Ignoring \cup {None}

\* Every path out of check_inode_and_copy, the four error labels included,
\* leaves the caller's signal mask as the call found it.
MaskRestored == \A p \in Procs : pc[p] \in {"idle", "lstat", "libc"} =>
                                   (blocked[p] <=> p \in Blocking)

\* While a cp runs, also one whose waitpid was interrupted and which nobody
\* waits for any more, no program can see the file it is writing.
CopyUnseen == \A t \in Temps : cp[t] = "running" =>
                 /\ Bound(t)
                 /\ dir[t] \notin outside
                 /\ \A n \in Names \ {t} : dir[n] # dir[t]
                 /\ \A p \in Procs : fd[p] # dir[t]

\* What a program has opened for writing, with a look of the library at it, stays
\* the file its name shows, unless the name is removed, or was in the middle of
\* being broken by another process at the open: a call that starts later finds
\* one link and leaves it alone.
WritesLand == \A p \in Seen :
                 fd[p] # None /\ writable[p] /\ rivals[p] = {} =>
                     fd[p] = dir[Final(s[p])]

\* Of those who have changed an inode, the ones the library has looked at.
ByWatched(d) == d \ (Ignoring \cup {None})

\* Breaking a link is invisible: when nobody else used the name during the
\* call, the file under the name has the same kind after rename, and the same
\* content but for what those have written meanwhile, by another name, whom the
\* library does not watch or has not looked at.
BreakInvisible ==
    [][\A p \in Procs :
         pc[p] = "rename" /\ pc'[p] = "libc" /\ rivals[p] = {} =>
             LET n == canonical[p]
             IN  /\ ByWatched(data'[dir'[n]]) = ByWatched(data[dir[n]])
                 /\ kind'[dir'[n]] = kind[dir[n]]]_vars

----------------------------------------------------------------------------
(* What OriginalsIntact needs, and the code cannot do without.             *)

\* Symbolic links stay symbolic links.
LinksStable == /\ Removable \cap LinkPaths = {}
               /\ \A n \in LinkPaths : FirstInode[n] # None

\* The library sees every call that can modify a file, and no descriptor that
\* is open for reading only is given to fchown or fchmod.
RequestsCovered == \A r \in Requests :
                      /\ Modifies(r) => Intercepts(r)
                      /\ r.fn \in FdCalls => ~ModeHas(r, "O_RDONLY")
=============================================================================
