---------------------------- MODULE Qemubuilder ----------------------------
(***************************************************************************)
(* qemubuilder (qemubuilder.c, with qemuarch.c and file.c): sessions that    *)
(* work on one base image inside a virtual machine.                         *)
(*                                                                         *)
(* create installs a system into the image in two stages, the second inside *)
(* qemu; the other operations run a script in qemu on an overlay of the     *)
(* image, and those that save commit the overlay to the image afterwards.   *)
(* The script is handed over on a work device, a file that is mounted on    *)
(* the build place before and after qemu has it.  Each command can fail;    *)
(* most of their results are dropped.                                      *)
(*                                                                         *)
(* qemu's console reaches fork_qemu through a socket as a stream of bytes,   *)
(* here three pieces: two halves of the words that end the run, and the exit *)
(* code after them.  A read returns any beginning of what has been sent, as *)
(* the buffer of 4096 bytes may end anywhere.                              *)
(***************************************************************************)
EXTENDS Integers, Sequences, FiniteSets

CONSTANTS
    Sessions,   \* qemubuilder processes; the build place is named by the pid
    Ops,        \* the operations they are started with
    Creators,   \* bound: the one session, if any, that is started to create
    MaxMishaps, \* bound: failures of all sessions that the code passes over
    Archs,      \* the values of ARCHITECTURE
    HostArch,   \* what dpkg --print-architecture says
    KvmExists,  \* TRUE: `which kvm' succeeds
    Codes,      \* what atoi may make of the bytes after the words
    None

ASSUME OpAssumption ==
    /\ None \notin Sessions
    /\ Ops \subseteq {"build", "login", "execute", "update", "create"}
ASSUME CreatorAssumption ==
    Creators \subseteq Sessions /\ \A s, t \in Creators : s = t
ASSUME CodeAssumption == MaxMishaps \in Nat /\ Codes \subseteq Nat /\ 0 \in Codes

VARIABLES
    pc,       \* the command a session is about to run
    op,       \* its operation
    saves,    \* whether the operation saves what the guest did
    ret,      \* the value it will return
    files,    \* which of its files and directories there are on the host
    mounts,   \* what is mounted on its build place, the last one on top
    staged,   \* the script is on the work device
    qemu,     \* its child process
    guest,    \* how far the script inside has come
    sent,     \* pieces of the console's stream that were sent
    got,      \* and read
    code,     \* exit_code of fork_qemu
    base,     \* pc->basepath: how much of a system it holds, and the sessions
              \* whose guests' work is in it
    overlay,  \* <buildplace>.cowdev
    mishap    \* history: what went wrong with a result that nobody looked at

vars == <<pc, op, saves, ret, files, mounts, staged, qemu, guest, sent, got, code,
          base, overlay, mishap>>

\* The stream of the console.
EndOfWork == 1   \* "END OF WORK", and what was written before
ExitCode == 2    \* " EXIT CODE="
Number == 3
Pieces == 3

Pending == -2
Mishaps == {"mount", "umount", "select"}
Images == {"none", "blank", "first", "partial", "system"}
Files == {"place", "litter", "work", "overlay"}
\* The commands of cpbuilder_create and of run_second_stage_script, in order.
Steps == {"idle", "unlinkbase", "makebase", "place", "mountbase", "debootstrap",
          "umountbase", "umountout", "device", "mount", "scripts", "umount", "overlay",
          "fork", "hear", "wait", "commit", "remount", "collect", "clean", "done"}

TypeOK ==
    /\ pc \in [Sessions -> Steps]
    /\ op \in [Sessions -> Ops \cup {None}]
    /\ saves \in [Sessions -> BOOLEAN]
    /\ ret \in [Sessions -> Codes \cup {-1, 0, 1}]
    /\ files \in [Sessions -> SUBSET Files]
    /\ mounts \in [Sessions -> Seq({"base", "work"})]
    /\ staged \in [Sessions -> BOOLEAN]
    /\ qemu \in [Sessions -> {"none", "exited", "running", "killed", "ended", "reaped"}]
    /\ guest \in [Sessions -> {"none", "booting", "writing", "ok", "failed"}]
    /\ sent \in [Sessions -> 0..Pieces]
    /\ got \in [Sessions -> 0..Pieces]
    /\ \A s \in Sessions : got[s] <= sent[s]
    /\ code \in [Sessions -> Codes \cup {-1, Pending}]
    /\ base \in [image : Images, work : SUBSET Sessions]
    /\ overlay \in [Sessions -> {"none", "clean", "written"}]
    /\ mishap \in [Sessions -> SUBSET Mishaps]

Init ==
    /\ pc = [s \in Sessions |-> "idle"]
    /\ op = [s \in Sessions |-> None]
    /\ saves = [s \in Sessions |-> FALSE]
    /\ ret = [s \in Sessions |-> 0]
    /\ files = [s \in Sessions |-> {}]
    /\ mounts = [s \in Sessions |-> <<>>]
    /\ staged = [s \in Sessions |-> FALSE]
    /\ qemu = [s \in Sessions |-> "none"]
    /\ guest = [s \in Sessions |-> "none"]
    /\ sent = [s \in Sessions |-> 0]
    /\ got = [s \in Sessions |-> 0]
    /\ code = [s \in Sessions |-> Pending]
    /\ base \in [image : {"none", "system"}, work : {{}}]
    /\ overlay = [s \in Sessions |-> "none"]
    /\ mishap = [s \in Sessions |-> {}]

----------------------------------------------------------------------------
(* Seeded faults: what the definitions below would be with a plausible bug. *)

\* waitpid is left out after kill
DoesNotWait(s) == UNCHANGED qemu
\* kill is left out before waitpid
KillsNothing(s) == UNCHANGED qemu
\* qemu is given the base image instead of the overlay
WritesBase(s) == "base"
\* debootstrap's failure goes to out, not to umount_out
AfterDebootstrapOut(ok) == IF ok THEN "umountbase" ELSE "done"
\* read counts what it returned, not what was there before
CountsAgain(s, n) == got[s] + n + 1
\* the words are recognised by their first half
TakesHalf(s, n) == EndOfWork \in (got[s] + 1)..(got[s] + n)

----------------------------------------------------------------------------
(* The tables of qemuarch.c; None for a NULL. *)
qemu_arch_qemu(arch) ==
    CASE arch \in {"arm", "armel", "armhf"} -> "qemu-system-arm"
      [] arch = "mips" -> "qemu-system-mips"
      [] arch = "mipsel" -> "qemu-system-mipsel"
      [] arch \in {"i386", "amd64", "hurd-i386"} ->
            IF KvmExists /\ HostArch \in {arch, "amd64"} THEN "kvm"
            ELSE IF HostArch = "i386" /\ arch = "i386" THEN "qemu"
            ELSE "qemu-system-x86_64"
      [] arch = "powerpc" -> "qemu-system-ppc"
      [] arch = "sparc" -> "qemu-system-sparc"
      [] OTHER -> None

qemu_arch_qemumachine(arch) ==
    CASE arch \in {"arm", "armel"} -> "versatilepb"
      [] arch = "armhf" -> "virt"
      [] arch \in {"i386", "hurd-i386", "amd64"} -> "pc"
      [] arch \in {"mips", "mipsel"} -> "malta"
      [] arch = "powerpc" -> "prep"
      [] arch = "sparc" -> "SS-5"
      [] OTHER -> None

----------------------------------------------------------------------------
Goto(s, l) == pc' = [pc EXCEPT ![s] = l]
Return(s, r) == Goto(s, "done") /\ ret' = [ret EXCEPT ![s] = r]
Mishap(s, m) ==
    /\ Cardinality({k \in Sessions \X Mishaps : k[2] \in mishap[k[1]]}) < MaxMishaps
    /\ mishap' = [mishap EXCEPT ![s] = @ \cup {m}]

machineVars == <<qemu, guest, sent, got, code>>
jobVars == <<op, saves>>
Creates(s) == op[s] = "create"

\* Only update saves always; login and execute do with --save-after-login.
Saves(o) == CASE o = "update" -> {TRUE}
              [] o \in {"login", "execute"} -> BOOLEAN
              [] OTHER -> {FALSE}

Start(s, o, v) ==
    /\ pc[s] = "idle"
    /\ (o = "create") <=> s \in Creators
    /\ op' = [op EXCEPT ![s] = o]
    /\ saves' = [saves EXCEPT ![s] = v]
    /\ Goto(s, IF o = "create" THEN "unlinkbase" ELSE "place")
    /\ UNCHANGED <<ret, files, mounts, staged, machineVars, base, overlay, mishap>>

\* unlink and rmdir of basepath, whoever uses it
UnlinkBase(s) ==
    /\ pc[s] = "unlinkbase"
    /\ base' = [image |-> "none", work |-> {}]
    /\ Goto(s, "makebase")
    /\ UNCHANGED <<jobVars, ret, files, mounts, staged, machineVars, overlay, mishap>>

\* create_ext3_block_device: create_sparse_file, mke2fs, tune2fs.
MakeBase(s, ok) ==
    /\ pc[s] = "makebase"
    /\ base' = [base EXCEPT !.image = IF ok THEN "blank" ELSE "partial"]
    /\ IF ok THEN Goto(s, "place") /\ UNCHANGED ret ELSE Return(s, -1)
    /\ UNCHANGED <<jobVars, files, mounts, staged, machineVars, overlay, mishap>>

\* mkdir(buildplace); do_fsck, whose result nobody looks at
Place(s, ok) ==
    /\ pc[s] = "place"
    /\ IF ok
       THEN /\ files' = [files EXCEPT ![s] = @ \cup {"place"}]
            /\ Goto(s, IF Creates(s) THEN "mountbase" ELSE "device")
            /\ UNCHANGED ret
       ELSE Return(s, 1) /\ UNCHANGED files
    /\ UNCHANGED <<jobVars, mounts, staged, machineVars, base, overlay, mishap>>

MountBase(s, ok) ==
    /\ pc[s] = "mountbase"
    /\ ok => base.image # "none"
    /\ mounts' = [mounts EXCEPT ![s] = IF ok THEN Append(@, "base") ELSE @]
    /\ IF ok THEN Goto(s, "debootstrap") /\ UNCHANGED ret ELSE Return(s, 1)
    /\ UNCHANGED <<jobVars, files, staged, machineVars, base, overlay, mishap>>

AfterDebootstrap(ok) == IF ok THEN "umountbase" ELSE "umountout"

\* debootstrap --foreign, and then the devices, the first-stage script and the
\* proxy's file.
Debootstrap(s, ok) ==
    /\ pc[s] = "debootstrap"
    /\ Goto(s, AfterDebootstrap(ok))
    /\ ret' = [ret EXCEPT ![s] = IF ok THEN 0 ELSE 1]
    /\ base' = [base EXCEPT !.image = IF @ = "none" THEN @
                                      ELSE IF ok THEN "first" ELSE "partial"]
    /\ UNCHANGED <<jobVars, files, mounts, staged, machineVars, overlay, mishap>>

Pop(q) == SubSeq(q, 1, Len(q) - 1)

\* loop_umount(buildplace): the last mount goes, if there is one and it can.
Umounted(s, ok) ==
    /\ mounts' = [mounts EXCEPT ![s] = IF ok /\ @ # <<>> THEN Pop(@) ELSE @]
    /\ IF ~ok /\ mounts[s] # <<>> THEN Mishap(s, "umount") ELSE UNCHANGED mishap

UmountBase(s, ok) ==
    /\ pc[s] \in {"umountbase", "umountout"}
    /\ Umounted(s, ok)
    /\ Goto(s, IF pc[s] = "umountbase" THEN "device" ELSE "done")
    /\ UNCHANGED <<jobVars, ret, files, staged, machineVars, base, overlay>>

\* The work device; that it could not be made shows when it is mounted.
MakeDevice(s) ==
    /\ pc[s] = "device"
    /\ files' = [files EXCEPT ![s] = @ \cup {"work"}]
    /\ Goto(s, "mount")
    /\ UNCHANGED <<jobVars, ret, mounts, staged, machineVars, base, overlay, mishap>>

\* loop_mount(work device), whose result is dropped, before qemu and after it
MountWork(s, ok) ==
    /\ pc[s] \in {"mount", "remount"}
    /\ mounts' = [mounts EXCEPT ![s] = IF ok THEN Append(@, "work") ELSE @]
    /\ IF ok THEN UNCHANGED mishap ELSE Mishap(s, "mount")
    /\ Goto(s, IF pc[s] = "mount" THEN "scripts" ELSE "collect")
    /\ UNCHANGED <<jobVars, ret, files, staged, machineVars, base, overlay>>

\* pbuilder-run, run-copyfiles, the copied files and host command 1, into
\* whatever is on the build place: the directory itself if nothing is.
Scripts(s) ==
    /\ pc[s] = "scripts"
    /\ staged' = [staged EXCEPT ![s] = mounts[s] # <<>>
                                       /\ mounts[s][Len(mounts[s])] = "work"]
    /\ files' = [files EXCEPT ![s] = IF mounts[s] = <<>> THEN @ \cup {"litter"} ELSE @]
    /\ Goto(s, "umount")
    /\ UNCHANGED <<jobVars, ret, mounts, machineVars, base, overlay, mishap>>

\* rmdir fails on a mount point and on a directory with files in it.
Rmdir(s, ms) == IF ms = <<>> /\ "litter" \notin files[s]
                THEN files[s] \ {"place"} ELSE files[s]

UmountWork(s, ok) ==
    /\ pc[s] = "umount"
    /\ Umounted(s, ok)
    /\ files' = [files EXCEPT ![s] = IF Creates(s) THEN Rmdir(s, mounts'[s]) ELSE @]
    /\ Goto(s, IF Creates(s) THEN "fork" ELSE "overlay")
    /\ UNCHANGED <<jobVars, ret, staged, machineVars, base, overlay>>

\* qemu-img create -b basepath, whose result is overwritten
MakeOverlay(s, ok) ==
    /\ pc[s] = "overlay"
    /\ ok => base.image # "none"
    /\ IF ok THEN /\ overlay' = [overlay EXCEPT ![s] = "clean"]
                  /\ files' = [files EXCEPT ![s] = @ \cup {"overlay"}]
             ELSE UNCHANGED <<overlay, files>>
    /\ Goto(s, "fork")
    /\ UNCHANGED <<jobVars, ret, mounts, staged, machineVars, base, mishap>>

----------------------------------------------------------------------------
(* fork_qemu *)
Disk(s) == IF Creates(s) THEN "base" ELSE "overlay"
DiskThere(s) == IF Disk(s) = "base" THEN base.image # "none" ELSE overlay[s] # "none"

After(s) == IF Creates(s) THEN "clean" ELSE IF saves[s] THEN "commit" ELSE "remount"
\* create returns what fork_qemu does, the others drop it.
Leave(s, c) ==
    /\ code' = [code EXCEPT ![s] = c]
    /\ ret' = IF Creates(s) THEN [ret EXCEPT ![s] = c] ELSE ret
    /\ Goto(s, After(s))

\* There is a system to boot, and a script for it.
Boots(s) == /\ staged[s]
            /\ base.image \in IF Creates(s) THEN {"first"} ELSE {"first", "system"}

\* The child has no emulator or no machine for the architecture, execvp fails,
\* or qemu cannot open the disk: exit(1), which the parent does not ask for.
\* Nor does it when fork fails: -1 is not 0, so it goes into the loop.
ForkQemu(s, a, runs) ==
    /\ pc[s] = "fork"
    /\ runs => /\ qemu_arch_qemu(a) # None /\ qemu_arch_qemumachine(a) # None
               /\ DiskThere(s)
    /\ qemu' = [qemu EXCEPT ![s] = IF runs THEN "running" ELSE "exited"]
    /\ guest' = [guest EXCEPT ![s] = IF runs /\ Boots(s) THEN "booting" ELSE @]
    /\ Goto(s, "hear")
    /\ UNCHANGED <<jobVars, ret, files, mounts, staged, sent, got, code,
                   base, overlay, mishap>>

\* socketpair fails.
SocketFails(s) ==
    /\ pc[s] = "fork"
    /\ Leave(s, -1)
    /\ UNCHANGED <<jobVars, files, mounts, staged, qemu, guest, sent, got,
                   base, overlay, mishap>>

Recognised(s, n) == {EndOfWork, ExitCode} \subseteq (got[s] + 1)..(got[s] + n)
Read(s, n) == got[s] + n
\* atoi: the script says `$1' between single quotes, which is 0; if the read
\* ends before, atoi goes on into what an earlier read has left in the buffer.
Numbers(s, n) == IF got[s] + n = Number THEN {0} ELSE Codes
Kill(s) == qemu' = [qemu EXCEPT ![s] = IF @ = "running" THEN "killed" ELSE @]

\* read returns n pieces.  At the end of the console it returns 0, again and
\* again: no step at all.
Hear(s, n, c) ==
    /\ pc[s] = "hear"
    /\ n \in 1..(sent[s] - got[s])
    /\ got' = [got EXCEPT ![s] = Read(s, n)]
    /\ IF Recognised(s, n)
       THEN /\ c \in Numbers(s, n)
            /\ code' = [code EXCEPT ![s] = c]
            /\ Kill(s)
            /\ Goto(s, "wait")
       ELSE c = 0 /\ UNCHANGED <<code, qemu, pc>>
    /\ UNCHANGED <<jobVars, ret, files, mounts, staged, guest, sent, base, overlay, mishap>>

\* waitpid
Reap(s) == qemu[s] = "ended" /\ qemu' = [qemu EXCEPT ![s] = "reaped"]

Wait(s) ==
    /\ pc[s] = "wait"
    /\ Reap(s)
    /\ Leave(s, code[s])
    /\ UNCHANGED <<jobVars, files, mounts, staged, guest, sent, got, base, overlay, mishap>>

\* select returns -1: the loop is left and qemu goes on.
SelectFails(s) ==
    /\ pc[s] = "hear"
    /\ Leave(s, -1)
    /\ Mishap(s, "select")
    /\ UNCHANGED <<jobVars, files, mounts, staged, qemu, guest, sent, got, base, overlay>>

----------------------------------------------------------------------------
(* Inside qemu. *)
On(s) == qemu[s] \in {"running", "killed"}

\* The guest changes its disk; the overlay may have been deleted.
Written(s) == IF Disk(s) = "base"
              THEN /\ base' = [base EXCEPT !.work = @ \cup {s}]
                   /\ UNCHANGED overlay
              ELSE /\ overlay' = [overlay EXCEPT ![s] = IF @ = "none" THEN @ ELSE "written"]
                   /\ UNCHANGED base

\* It runs the script.
GuestStarts(s) ==
    /\ On(s) /\ guest[s] = "booting"
    /\ guest' = [guest EXCEPT ![s] = "writing"]
    /\ Written(s)
    /\ UNCHANGED <<pc, jobVars, ret, files, mounts, staged, qemu, sent, got, code, mishap>>

\* The script is through, with sync.  Only create's asks whether its commands
\* have failed.
GuestFinishes(s, ok) ==
    /\ On(s) /\ guest[s] = "writing"
    /\ ok \/ Creates(s)
    /\ guest' = [guest EXCEPT ![s] = IF ok THEN "ok" ELSE "failed"]
    /\ base' = IF Creates(s)
               THEN [base EXCEPT !.image = IF ok THEN "system" ELSE "partial"] ELSE base
    /\ UNCHANGED <<pc, jobVars, ret, files, mounts, staged, qemu, sent, got, code,
                   overlay, mishap>>

\* The words come at the end of the script.
GuestSays(s) ==
    /\ On(s)
    /\ guest[s] \in {"ok", "failed"}
    /\ sent[s] < Pieces
    /\ sent' = [sent EXCEPT ![s] = @ + 1]
    /\ UNCHANGED <<pc, jobVars, ret, files, mounts, staged, qemu, guest, got, code,
                   base, overlay, mishap>>

\* The guest halts, qemu fails, or the kill takes effect.
QemuEnds(s) ==
    /\ On(s)
    /\ qemu' = [qemu EXCEPT ![s] = "ended"]
    /\ UNCHANGED <<pc, jobVars, ret, files, mounts, staged, guest, sent, got, code,
                   base, overlay, mishap>>

----------------------------------------------------------------------------
\* qemu-img commit, whatever became of the guest
Commit(s, ok) ==
    /\ pc[s] = "commit"
    /\ ok => base.image # "none" /\ overlay[s] # "none"
    /\ base' = IF ok /\ overlay[s] = "written"
               THEN [base EXCEPT !.work = @ \cup {s}] ELSE base
    /\ Goto(s, "remount")
    /\ UNCHANGED <<jobVars, ret, files, mounts, staged, machineVars, overlay, mishap>>

\* Host command 2, which is given what is on the build place, and umount
Collect(s, ok) ==
    /\ pc[s] = "collect"
    /\ Umounted(s, ok)
    /\ Goto(s, "clean")
    /\ UNCHANGED <<jobVars, ret, files, staged, machineVars, base, overlay>>

\* rmdir and the two unlinks; create has removed its directory before.
Clean(s) ==
    /\ pc[s] = "clean"
    /\ files' = [files EXCEPT ![s] =
                    (IF Creates(s) THEN @ ELSE Rmdir(s, mounts[s])) \ {"work", "overlay"}]
    /\ overlay' = [overlay EXCEPT ![s] = "none"]
    /\ IF Creates(s) THEN Goto(s, "done") /\ UNCHANGED ret ELSE Return(s, 0)
    /\ UNCHANGED <<jobVars, mounts, staged, machineVars, base, mishap>>

Command(s) ==
    \/ UnlinkBase(s) \/ MakeDevice(s) \/ Scripts(s) \/ Clean(s)
    \/ \E ok \in BOOLEAN :
          \/ MakeBase(s, ok) \/ Place(s, ok) \/ MountBase(s, ok) \/ Debootstrap(s, ok)
          \/ UmountBase(s, ok) \/ MountWork(s, ok) \/ UmountWork(s, ok)
          \/ MakeOverlay(s, ok) \/ Commit(s, ok) \/ Collect(s, ok)
    \/ \E a \in Archs, runs \in BOOLEAN : ForkQemu(s, a, runs)
    \/ SocketFails(s)
    \/ \E n \in 1..Pieces, c \in Codes : Hear(s, n, c)
    \/ Wait(s)

Guest(s) == \/ GuestStarts(s) \/ GuestSays(s)
            \/ \E ok \in BOOLEAN : GuestFinishes(s, ok)

Next == \E s \in Sessions :
    \/ \E o \in Ops : \E v \in Saves(o) : Start(s, o, v)
    \/ Command(s) \/ SelectFails(s) \/ Guest(s) \/ QemuEnds(s)

\* The commands and system calls of a session return; a qemu that was sent
\* SIGTERM ends.  Nothing is assumed of what the guest does.
Fairness == \A s \in Sessions :
    /\ WF_vars(Command(s))
    /\ WF_vars(qemu[s] = "killed" /\ QemuEnds(s))

Spec == Init /\ [][Next]_vars /\ Fairness

----------------------------------------------------------------------------
\* No image is used by the host and by qemu at once: while a session's qemu is
\* on, nothing is mounted on its build place, and its disks are not committed,
\* remounted or deleted; fork_qemu has ended it before.  Excepted are a failed
\* umount and a failed select, which the code passes over.
ImagesAtRest ==
    \A s \in Sessions :
        On(s) /\ mishap[s] \cap {"umount", "select"} = {} =>
            mounts[s] = <<>> /\ pc[s] \in {"hear", "wait"}

\* The base image holds the work of a guest only when it was created by it or
\* when the session was to save it, and then only of a guest that has come to
\* the end of its script.  Excepted is a session whose select has failed: the code
\* commits its overlay all the same, with whatever a guest half way has written.
SavedWhole ==
    \A s \in base.work :
        \/ Creates(s)
        \/ saves[s] /\ (guest[s] \in {"ok", "failed"} \/ "select" \in mishap[s])

\* A session that returns has left nothing mounted, and when it returns 0 no
\* build place, work device or overlay either, unless a mount or umount failed.
NothingLeft ==
    \A s \in Sessions :
        pc[s] = "done" /\ mishap[s] \cap {"mount", "umount"} = {} =>
            mounts[s] = <<>> /\ (ret[s] = 0 => files[s] = {})

\* A read has ended between the two halves of the words (qemubuilder.c:231).
Split(s) == got[s] >= EndOfWork /\ pc[s] = "hear"

\* Once the guest has sent the words, the session ends, unless a read has split
\* them: then it waits for ever (qemubuilder.c:192-252).
Answered ==
    \A s \in Sessions : (pc[s] = "hear" /\ sent[s] >= ExitCode) ~> (pc[s] = "done" \/ Split(s))

\* fork_qemu runs qemu the way its comment says.
Machine(s) == CASE qemu[s] \in {"none", "exited"} -> "off"
                [] On(s) -> "on"
                [] OTHER -> "ended"
Answer(s) == IF pc[s] = "wait" THEN Pending ELSE code[s]

Run(s) == INSTANCE QemuRun WITH
    machine <- Machine(s), said <- sent[s] >= ExitCode, answer <- Answer(s)

\* For every session Run(s)!Spec, the quantifier moved inwards.
ForkQemuRuns ==
    /\ \A s \in Sessions : Run(s)!Init
    /\ [][\A s \in Sessions : [Run(s)!Next]_(Run(s)!vars)]_vars

\* "return 0 on success, nonzero on failure" (qemubuilder.c, above
\* cpbuilder_create): when create returns 0, the second stage has succeeded.
CreateReported ==
    \A s \in Sessions :
        pc[s] = "done" /\ Creates(s) /\ ret[s] = 0 => guest[s] = "ok"
=============================================================================
