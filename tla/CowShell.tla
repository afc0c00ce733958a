------------------------------ MODULE CowShell ------------------------------
(***************************************************************************)
(* cow-shell (cow-shell.c): the life of ./.ilist, the file that tells the  *)
(* library which inodes to protect.  A session makes the file, or takes    *)
(* the one it finds, and becomes the user's program; the processes of the  *)
(* program map the file (load_ilist); a daemon is to remove it afterwards. *)
(* Several sessions may be started in one directory.  Nothing is locked:   *)
(* one action is one system call on the file, or one process's end.        *)
(*                                                                         *)
(* The file is written by a few calls of write, the first of which holds   *)
(* the header; its content is the set of the calls whose data it holds.    *)
(***************************************************************************)
EXTENDS Integers, FiniteSets, FiniteSetsExt

CONSTANTS
    Sessions,     \* cow-shell processes started in the directory
    Reusing,      \* those whose environment has COWDANCER_REUSE=yes
    Chunks,       \* how many calls of write a list takes
    Files,        \* inodes for list files
    None

ASSUME SessionAssumption == /\ Reusing \subseteq Sessions
                            /\ None \notin Files /\ Files # {}
ASSUME ChunkAssumption == Chunks \in Nat \ {0}

VARIABLES
    host,         \* fixed: is the directory "/", is the user root
    file,         \* the inode ./.ilist names, or None
    content,      \* what a list file holds
    pc,           \* what a cow-shell does next
    out, written, \* its open list file, and the calls of write made so far
    alive,        \* its program: "main", or the processes "main" has left
    foreign,      \* sessions whose main process has become another user's
    views,        \* the lists its processes have mapped
    deleter,      \* the daemon it forked
    overlapped,   \* history: sessions got in each other's way
    sound         \* history: it started without a list, or with a whole one

sessionVars == <<pc, out, written>>
ghostVars == <<overlapped, sound>>
vars == <<host, file, content, sessionVars, alive, foreign, views, deleter, ghostVars>>

TypeOK ==
    /\ host \in [atRoot : BOOLEAN, superuser : BOOLEAN]
    /\ file \in Files \cup {None}
    /\ content \in [Files -> SUBSET (1..Chunks)]
    /\ pc \in [Sessions -> {"idle", "unlink", "find", "fopen", "write", "setenv",
                            "fork", "exec", "run", "failed", "killed"}]
    /\ out \in [Sessions -> Files \cup {None}]
    /\ written \in [Sessions -> 0..Chunks]
    /\ alive \in [Sessions -> {"none", "main", "orphans"}]
    /\ foreign \subseteq Sessions
    /\ views \in [Sessions -> SUBSET [file : Files, len : 0..Chunks]]
    /\ deleter \in [Sessions -> {"none", "forked", "watching", "watchingInit",
                                 "gone"}]
    /\ overlapped \in BOOLEAN
    /\ sound \in [Sessions -> BOOLEAN]

\* The directory may hold a list that an earlier session has left behind.
Init ==
    /\ host \in [atRoot : BOOLEAN, superuser : BOOLEAN]
    /\ file \in {None, CHOOSE f \in Files : TRUE}
    /\ content = [f \in Files |-> IF f = file THEN 1..Chunks ELSE {}]
    /\ pc = [s \in Sessions |-> "idle"]
    /\ out = [s \in Sessions |-> None]
    /\ written = [s \in Sessions |-> 0]
    /\ alive = [s \in Sessions |-> "none"]
    /\ foreign = {}
    /\ views = [s \in Sessions |-> {}]
    /\ deleter = [s \in Sessions |-> "none"]
    /\ overlapped = FALSE
    /\ sound = [s \in Sessions |-> TRUE]

Whole(f) == f # None /\ content[f] = 1..Chunks
Goto(s, l) == pc' = [pc EXCEPT ![s] = l]
Creating(s) == pc[s] \in {"unlink", "find", "fopen", "write"}
\* The process that was started as cow-shell, and is the program after exec.
Lives(s) == Creating(s) \/ pc[s] \in {"setenv", "fork", "exec"} \/ alive[s] = "main"
\* In "/" the daemon is the one that takes the list away.
Present(s) == \/ Lives(s) \/ alive[s] = "orphans"
              \/ host.atRoot /\ deleter[s] \notin {"none", "gone"}

----------------------------------------------------------------------------
(* Seeded faults: what the definitions below would be with a plausible bug. *)

\* the result of ilistcreate is not looked at
IgnoresResult(s) == "setenv"
\* the daemon unlinks when kill succeeds
WaitsForNothing(s) == Lives(s)
\* only ESRCH, not EPERM, ends the loop
WaitsOnEperm(s) == deleter[s] = "watching" /\ ~Lives(s)
\* a write is counted twice
CountsTwice(s) == written[s] + 2

----------------------------------------------------------------------------
(* main, ilistcreate and set_env_vars                                      *)

\* stat of ./.ilist succeeds, in a session that may reuse it
Reuses(s) == s \in Reusing /\ file # None

Start(s) ==
    /\ pc[s] = "idle"
    /\ Goto(s, IF Reuses(s) THEN "setenv" ELSE "unlink")
    /\ sound' = [sound EXCEPT ![s] = Reuses(s) => Whole(file)]
    /\ overlapped' = \/ overlapped
                     \/ \E q \in Sessions \ {s} :
                          /\ Present(q)
                          /\ \/ ~Reuses(s) \/ Creating(q)
                             \/ host.atRoot /\ q \notin Reusing
    /\ UNCHANGED <<host, foreign, file, content, out, written, alive, views, deleter>>

UnlinkList(s) ==
    /\ pc[s] = "unlink"
    /\ file' = None
    /\ Goto(s, "find")
    /\ UNCHANGED <<host, foreign, content, out, written, alive, views, deleter, ghostVars>>

\* popen, fscanf until the end, pclose, qsort
FindList(s) ==
    /\ pc[s] = "find"
    /\ Goto(s, "fopen")
    /\ UNCHANGED <<host, foreign, file, content, out, written, alive, views, deleter, ghostVars>>

\* fopen(ilistpath, "w"), of a new file or of one another session has made
FopenList(s, f) ==
    /\ pc[s] = "fopen"
    /\ IF file = None
       THEN \A q \in Sessions : out[q] # f /\ \A v \in views[q] : v.file # f
       ELSE f = file
    /\ file' = f
    /\ content' = [content EXCEPT ![f] = {}]
    /\ out' = [out EXCEPT ![s] = f]
    /\ Goto(s, "write")
    /\ UNCHANGED <<host, foreign, written, alive, views, deleter, ghostVars>>

WrittenAfter(s) == written[s] + 1

\* The buffer is flushed, for the last time by fclose.
WriteChunk(s) ==
    /\ pc[s] = "write"
    /\ LET k == WrittenAfter(s)
       IN  /\ content' = [content EXCEPT ![out[s]] = @ \cup {k}]
           /\ written' = [written EXCEPT ![s] = k]
           /\ IF k < Chunks
              THEN UNCHANGED <<pc, out>>
              ELSE Goto(s, "setenv") /\ out' = [out EXCEPT ![s] = None]
    /\ UNCHANGED <<host, foreign, file, alive, views, deleter, ghostVars>>

\* what main does when ilistcreate has returned 1
AfterFailure(s) == "failed"

\* calloc, popen, find, fopen, fwrite or fclose fails.  What has been written
\* stays in the file.
IlistCreateFails(s) ==
    /\ pc[s] \in {"find", "fopen", "write"}
    /\ Goto(s, AfterFailure(s))
    /\ out' = [out EXCEPT ![s] = None]
    /\ UNCHANGED <<host, foreign, file, content, written, alive, views, deleter, ghostVars>>

\* canonicalize_file_name finds the list; setenv is not made for its NULL.
SetEnvVars(s) ==
    /\ pc[s] = "setenv"
    /\ Goto(s, IF file = None THEN "killed"
               ELSE IF s \in Reusing THEN "exec" ELSE "fork")
    /\ UNCHANGED <<host, foreign, file, content, out, written, alive, views, deleter, ghostVars>>

\* ilist_deleter; the program runs without it when fork fails
ForkDeleter(s, forked) ==
    /\ pc[s] = "fork"
    /\ deleter' = [deleter EXCEPT ![s] = IF forked THEN "forked" ELSE "none"]
    /\ Goto(s, "exec")
    /\ UNCHANGED <<host, foreign, file, content, out, written, alive, views, ghostVars>>

Exec(s) ==
    /\ pc[s] = "exec"
    /\ Goto(s, "run")
    /\ alive' = [alive EXCEPT ![s] = "main"]
    /\ UNCHANGED <<host, foreign, file, content, out, written, views, deleter, ghostVars>>

\* unlink fails with another error than ENOENT, or no exec succeeds.
Fails(s) ==
    /\ pc[s] \in {"unlink", "exec"}
    /\ Goto(s, "failed")
    /\ UNCHANGED <<host, foreign, file, content, out, written, alive, views, deleter, ghostVars>>

Killed(s) ==
    /\ Lives(s) /\ alive[s] # "main"
    /\ Goto(s, "killed")
    /\ out' = [out EXCEPT ![s] = None]
    /\ UNCHANGED <<host, foreign, file, content, written, alive, views, deleter, ghostVars>>

----------------------------------------------------------------------------
(* The processes of the program, and load_ilist in each of them.           *)

\* load_ilist returns 0.  Every call of write ends at an entry's end, so the
\* size of any part of the file is one the loader expects.  An empty file is
\* not refused for its size either: the length wraps around, the map fails, and
\* the header that is looked at was never read.
Accepted(c) == 1 \in c \/ c = {}

LoadList(s) ==
    /\ alive[s] # "none" /\ file # None
    /\ Accepted(content[file])
    /\ views' = [views EXCEPT ![s] = @ \cup
                   {[file |-> file, len |-> Max(content[file] \cup {0})]}]
    /\ UNCHANGED <<host, foreign, file, content, sessionVars, alive, deleter, ghostVars>>

\* The process cow-shell became gives up its user (setuid, or a setuid program
\* that does), after which only root may send it a signal.
ChangesUser(s) ==
    /\ alive[s] = "main"
    /\ foreign' = foreign \cup {s}
    /\ UNCHANGED <<host, file, content, sessionVars, alive, views, deleter, ghostVars>>

OutOfReach(s) == s \in foreign /\ ~host.superuser

\* The process cow-shell became exits; others may stay in the background.
MainExits(s, left) ==
    /\ alive[s] = "main"
    /\ alive' = [alive EXCEPT ![s] = left]
    /\ foreign' = foreign \ {s}
    /\ views' = IF left = "none" THEN [views EXCEPT ![s] = {}] ELSE views
    /\ UNCHANGED <<host, file, content, sessionVars, deleter, ghostVars>>

OrphansExit(s) ==
    /\ alive[s] = "orphans"
    /\ alive' = [alive EXCEPT ![s] = "none"]
    /\ views' = [views EXCEPT ![s] = {}]
    /\ UNCHANGED <<host, foreign, file, content, sessionVars, deleter, ghostVars>>

----------------------------------------------------------------------------
(* ilist_deleter                                                           *)

\* getppid, which is 1 when the session has ended already; then daemon, which
\* changes to "/".
DeleterStarts(s) ==
    /\ deleter[s] = "forked"
    /\ deleter' = [deleter EXCEPT ![s] = IF Lives(s) THEN "watching"
                                                     ELSE "watchingInit"]
    /\ UNCHANGED <<host, foreign, file, content, sessionVars, alive, views, ghostVars>>

DaemonFails(s) ==
    /\ deleter[s] = "forked"
    /\ deleter' = [deleter EXCEPT ![s] = "gone"]
    /\ UNCHANGED <<host, foreign, file, content, sessionVars, alive, views, ghostVars>>

\* kill(parent_pid, 0) < 0: no such process, or not allowed, which need not
\* mean that the session has ended.
KillFails(s) == \/ deleter[s] = "watching" /\ (~Lives(s) \/ OutOfReach(s))
                \/ deleter[s] = "watchingInit" /\ ~host.superuser

\* unlink("./.ilist"), in "/"
DeleterUnlinks(s) ==
    /\ deleter[s] \in {"watching", "watchingInit"}
    /\ KillFails(s)
    /\ deleter' = [deleter EXCEPT ![s] = "gone"]
    /\ file' = IF host.atRoot THEN None ELSE file
    /\ UNCHANGED <<host, foreign, content, sessionVars, alive, views, ghostVars>>

----------------------------------------------------------------------------
ShellStep(s) ==
    \/ Start(s) \/ UnlinkList(s) \/ FindList(s)
    \/ \E f \in Files : FopenList(s, f)
    \/ WriteChunk(s) \/ IlistCreateFails(s) \/ SetEnvVars(s)
    \/ \E forked \in BOOLEAN : ForkDeleter(s, forked)
    \/ Exec(s) \/ Fails(s) \/ Killed(s)

ProgramStep(s) ==
    \/ LoadList(s) \/ ChangesUser(s)
    \/ \E left \in {"none", "orphans"} : MainExits(s, left)
    \/ OrphansExit(s)

DeleterStep(s) == DeleterStarts(s) \/ DaemonFails(s) \/ DeleterUnlinks(s)

Next == \E s \in Sessions : ShellStep(s) \/ ProgramStep(s) \/ DeleterStep(s)

Spec == Init /\ [][Next]_vars

\* The daemon is scheduled and its sleep ends.  Nothing obliges a program to
\* exit, or the user to start a session.
FairSpec == Spec /\ \A s \in Sessions : WF_vars(DeleterStep(s))

----------------------------------------------------------------------------
(* Properties.                                                             *)

\* cow-shell.1:12-15: a process of a session, one left in the background
\* included, works with no list or with the whole list, whatever failed while
\* the list was made; provided that no other session made or removed the list
\* meanwhile, and that a list that was reused was whole.
WholeList == \A s \in Sessions : ~overlapped /\ sound[s] =>
    \A v \in views[s] : Whole(v.file) /\ v.len = Chunks

\* cow-shell.c:38 takes any error of kill for the end of the session.
Refused(s) == host.atRoot /\ deleter[s] = "gone" /\ OutOfReach(s)

\* As long as the program runs, a new process of it finds the list, so that its
\* calls do not fail with ENOMEM: neither the failures of a session nor a daemon
\* that polls too early takes the list away.  Excepted is the program in "/"
\* that has become another user's, whose daemon has been refused.
ListAvailable == \A s \in Sessions :
    ~overlapped /\ sound[s] /\ alive[s] = "main" /\ ~Refused(s) => Whole(file)

\* No daemon is left behind by a session that has ended, unless the session
\* was faster than the daemon's getppid and the user is root.
DeleterEnds == \A s \in Sessions :
    deleter[s] # "none" /\ ~Lives(s) ~>
        \/ deleter[s] = "gone"
        \/ deleter[s] = "watchingInit" /\ host.superuser
=============================================================================
