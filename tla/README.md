# Verification of cowdancer

cowdancer gives a program its own copy of a directory tree without copying it.
`cp -al` makes a tree whose files are hard links to the files of the original;
`cow-shell` starts a program in that tree with `libcowdancer.so` preloaded; and
the library, before it lets an `open`, `creat`, `fopen`, `chown`, `lchown` or
`chmod` reach a file that is still shared, replaces the file's name by a copy
("breaking the link"). `cowbuilder` uses this to run pbuilder, the Debian package
builder, in throw-away copies of a base system, and `qemubuilder` does the same
with disk images.

These modules describe the program as it is in the source, with TLC
configurations that check them on small instances and proofs for every size.
Everything is translated from the C code; what the code calls but does not
contain (the kernel, `cp`, libc's `bsearch`, pbuilder) is modelled by what the
code relies on, and marked external in PROJECT.json.

## Inventory

| Component | State it keeps | Operations | Interacts with |
|---|---|---|---|
| libcowdancer, copy-on-write (`cowdancer.c` 248-735) | names and inodes of the tree; the locals of a call; the signal mask; `cp` children | the wrappers, `check_inode_and_copy`, `check_fd_inode_and_warn` | the file system, shared with every other process; `cp`, forked per call |
| libcowdancer, initialization (`cowdancer.c` 25-246) | `initialized`, `ilist`, `ilist_len`, `origlibc_*` | `initialize_functions`, `load_ilist`, the constructor | all threads of a process, without a lock; the file `.ilist` |
| ilist (`ilistcreate.c`, `ilist.h`) | an array of (device, inode), growing, then sorted | reading find's output, `qsort`, `bsearch`, `compare_ilist` | written by cow-shell and cowbuilder, read by the library |
| cow-shell (`cow-shell.c`) | the file `./.ilist`; a daemon | make or reuse the list, exec, remove the list | other sessions in the directory; the library in each process |
| cowbuilder (`cowbuilder.c`, `cowbuilder_util.c`, `forkexec.c`) | the base tree, one build place per process, the tree moved aside | build, login, execute, update, create | other cowbuilders, through the base; pbuilder and cow-shell in the chroot; mounts of the host |
| parameter (`parameter.c`, `parameter.h`) | the configuration, two bounded arrays of file names, pbuilder's bounded argument vector | reading three files and the options, dispatch | starts the operations, which fill the vector further |
| qemubuilder (`qemubuilder.c`) | the base image, per process a build place, a work device, an overlay, mounts, a qemu child and its console | create, build, login, execute, update through a virtual machine | qemu over a socket, which carries its console; other qemubuilders, through the base image |
| its helpers (`file.c`, `qemuarch.c`, `qemuipsanitize.c`) | none | copies, sparse files, tables, a string rewriting | called by qemubuilder |
| initrd, qemutool | none that is shared | the first process in the virtual machine | |

What is hard in it: everything that is shared is shared without a lock. A wrapper
makes up to a dozen system calls between looking at a name and using it, while
threads, other processes, its own `cp` child and the original tree's owner move
on; each call can fail, and after each failure something has to be undone. The
library initializes itself with a flag and a spin loop. The list is a file that
several sessions may find, reuse, truncate and remove. cowbuilder is a sequence
of commands, each of which can fail or be the last before a kill, with `rm -rf`
among them.

What makes each component correct:

* copy-on-write: an inode of the other tree is not changed by a call the library has seen; a call leaves the
  caller's signal mask as it was; nobody sees a half-made copy; what a program
  writes is what others see under the name; breaking a link changes nothing else.
* initialization: whoever is told "done" finds a whole list and all pointers;
  every call returns.
* ilist: every entry fits, and an inode is found exactly when it is listed.
* cow-shell: a process works with the whole list or fails its calls; the list is
  there as long as the program is; the daemon waits long enough, and not for ever.
* parameter: pbuilder is given the words that were asked for; what the user said
  early is still heeded late; a file that is missing does not hide one that is there.
* qemubuilder: an image is never used by the host and by qemu at once; the base
  changes only by what was to be saved; nothing is left behind; the answer of
  `fork_qemu` is the guest's; a guest that says it is done ends the session.
* cowbuilder: what is mounted survives; only a successful saving session changes
  the base; a whole base survives every failure; a failure to save is reported;
  sessions do not disturb one another.

## Modules

Every module has one action per operation, system call or command, with the
code's names where there are names. `pc` says what a process does next. A
section "Seeded faults" in each module holds variants of single definitions with
a plausible bug; replacing the definition by the variant must break the property
PROJECT.json pairs it with, which shows that the property depends on that code.

**CopyOnWrite** (`cowdancer.c` 248-735, run by MCCopyOnWrite). `dir` maps names to
inodes, `outside` is the set of inodes the other tree still links, `data[i]` the
set of processes that have changed inode `i` (all that the properties ask of
contents and attributes). A call goes through `Call` (the wrapper), `LStat`,
`CanonicalizeFileName`, `Stat`, `Mkstemp`, `BlockSigchld`, `Fork`, one of the
three results of `waitpid`, `RenameOver`, and a libc action; each system call may
fail, whatever the names, and goes to the label the code goes to. For the first
three that is `return 0`: `cowdancer.c` 270-282 take every failure of lstat,
canonicalize_file_name and stat for "does not exist" and let the call pass, so
after ENOMEM or EACCES libc is called on a file nobody has looked at (`LookFails`).
`unseen` is history: the processes whose call came to libc in this way, or had a
protected file renamed to its name after the look (`Sidestepped`); what they change is
recorded as the work of `None`. The `cp` child is an actor of its own and
outlives an interrupted `waitpid`. `Unlink`, `Rename` and `OutsideUnlink` are what the
library does not see; `Removable` says which names programs remove and move.
Descriptors stay open after a call and are written through later. `rivals` is
history: who else used the names of a call; two properties speak of calls without
rivals.

**LibraryInit** (`cowdancer.c` 43-246). One action per read or write of
`initialized`, `ilist`, `ilist_len` and the pointers; the two reads of `initialized`
at the end (loop, verdict) are two actions. `Lists` are the versions of the file,
each with a length of its own, and `local` is the one a thread has loaded: threads
that initialize at once may have loaded different ones, and each stores its own.
`StoreVisible` is one of the last three stores becoming visible to others. Nothing
in the source orders these, so they may come in any order unless `InOrder` is TRUE,
which is what amd64 does with stores the compiler emits in the order of the source. The
file may appear, change, break and vanish; failed loads lose descriptors up to a limit.

**IlistSearch** (`ilistcreate.c` 20-124, `bsearch` as glibc does it). Differences
are converted to an int of `2 * Half` values as the assignment at line 118 does.
`Qsort` is a constant operator constrained by what the C standard promises: it
permutes, and orders when the comparison is consistent. MCIlistSearch gives it
glibc's merge sort, and TLC checks that assumption. **ProtectedInodes** is what the
list is for, a set that is filled once and then asked; `IsASet` says that the array
with its search implements it.

**CowShell** (`cow-shell.c`, `ilistcreate.c` 77-106, `load_ilist`). `content` is
the set of the `write` calls whose data a list file holds. A second writer
truncates the file under the first, whose next write leaves a hole. `views` are
the mappings of the session's processes; they show what the file holds now.
The deleter is followed from `fork` through `getppid`, `daemon` (which changes to
`/`) and its polling to `unlink`. `foreign` are the sessions whose program has changed
its user: `kill` on one of these fails with EPERM for a daemon that is not root's, and
`cow-shell.c` 38 ends the loop on that as on ESRCH (`KillFails`).

**CowBuilder** (`cowbuilder.c` 57-664, `cowbuilder_util.c`, `forkexec.c`). A tree
is a record: complete or not, whose work it contains, what its `.ilist` says, and
whether something of the host is mounted below it. `rename` moves the record,
`RmRf` empties what is mounted, and `damaged` says which of the five commands that
remove a tree has done so. Each forked command is an action with a result;
`Crash` ends a session between any two. A session may find the build place of an earlier
process of its number, with a mount in it or without (`LeftTree`). When the unlink of
the `.ilist` that `cp -al` brought along fails, for another reason than ENOENT, the code
prints a message and goes on with it (`UnlinkIlistFails`, `cowbuilder.c` 196-202);
`misled` is history, the sessions that have. `MtabReadable` stands for mtab being there
and spelling the build place as the configuration does: `check_mountpoint` compares
strings, so that a symbolic link in the path hides the mount from it. `Protected` and `Worked` say what the
other modules establish: a program under cow-shell with a proper list changes its
own tree only, one with an old or half list, or with none, changes all the trees
that share the files. `overlapped` is history: two sessions that save, or a create
beside anything, were running together, which the code does not arrange for and
`cowbuilder.c` 592-594 advises against.

**CommandLine** (`parameter.c`, `parameter.h`, the parameters of `cowbuilder.c`). The
three standard files, one action per kind of option, the checks before the dispatch,
and the words of each operation. `asked` is the sequence of arguments given to
`PBUILDER_ADD_PARAM`, and `AddWord` or `DropWord` handles one of them at a time
against `line` and `offset`; what comes next waits until all are handled, as the
program does. update asks in two parts, because it looks at the line between them.
A file is loaded as bash's exit code and a set of fields; `past` is history.
Allocation failures and what the words say are left out.

**Qemubuilder** (`qemubuilder.c`, tables of `qemuarch.c`, run by MCQemubuilder). `pc`
goes through the commands of `cpbuilder_create` or `run_second_stage_script`, which
share most of their steps. `base` and `overlay` say how much of a system the images
hold and which sessions' guests have written to them; `mounts` is the stack of what
is on the build place; `files` what has to be removed, `litter` standing for files
that were written to the bare directory when a mount had failed. `fork_qemu` is
`ForkQemu`, `Hear`, `Wait` and two error exits. The console is a stream of three
pieces, the two halves of the words and the number, and `Hear` reads any prefix of
what has been sent. qemu and the guest are actors of their own: the guest may boot,
write, finish, say its words or stop anywhere, and qemu may end at any time. Results
that the code drops are recorded in `mishap`, which bounds them and names the
exceptions of the properties. **QemuRun** is what the comment above `fork_qemu`
promises: an answer that is no error comes after the guest's words and after the end
of the machine. `ForkQemuRuns` says that each session implements it.

**CopyOnWrite_proof**, **LibraryInit_proof**, **IlistSearch_proof**,
**CowShell_proof**, **CowBuilder_proof**, **CommandLine_proof** and
**Qemubuilder_proof** hold the theorems about the modules they are named after.

How they fit: IlistSearch says that `MustCopy` of CopyOnWrite ("the inode is in the
ilist") is what `bsearch` computes; LibraryInit and CowShell say which list a
process searches; CommandLine ends where an operation of CowBuilder executes
pbuilder; CowBuilder builds on the promise of CopyOnWrite through `Protected`.
Qemubuilder shares parameter.c with cowbuilder and nothing else. They are not composed into one specification: the only state the
others share is the list, whole or not, and each module covers both cases.

## Runs

| Run | Question | Bounds |
|---|---|---|
| cow_core | Do the five promises of the library hold under every interleaving and failure? | 2 processes, 3 calls together, a file with two names, a link to one of them and an unused name, 2 fresh inodes, 2 temporary names |
| cow_update_mode | ... also for `fopen(name, "r+")`? No. | the same |
| init | Is what threads see during initialization whole, and does every call return if no two initialize at once? | 3 threads, changes of the file and calls bounded in init.cfg |
| init_hang | Does every call return? No. | as init.cfg, see init_hang.cfg |
| ilist_search | Is an inode found exactly when listed, as in a set? | all lists of up to 5 of 6 entries, ints of 3 bits, 2 places at first |
| ilist_wide | ... also when inode numbers are far apart? No. | one device, 5 numbers |
| shell | Does a process work with the whole list, and does the daemon behave? | 2 sessions, lists of 3 writes, 3 list files |
| builder | Do the five promises of cowbuilder hold? | 2 sessions, each one operation |
| builder_mount | Does what is mounted survive a failing update? No. | as builder |
| cmdline | Does pbuilder get the words it should, whatever the options and files? | 4 options, 2 arguments, 9 places for words, 3 input files |
| qemu | Do the promises of qemubuilder hold beside another session? | 2 sessions, one that creates, one failure that the code passes over |
| qemu_create | Does create report that its second stage has failed? No. | 1 session |

"No" runs check one property each and TLC finds the counterexample; what the
property quotes and where the code departs from it is under "findings" in
PROJECT.json.

Why the bounds are enough. In cow_core the shortest stories behind every property
need one call in the middle of breaking a link while another looks at, breaks,
opens or removes the same name, and a third to look at the result; the link and
its target give both ways to one inode, and two temporary names let one be left
behind and another be made. Fresh inodes `f1`, `f2` and temporary names are
interchangeable, which the symmetry set uses. (The properties with symmetry are
invariants and one action property; none is a liveness property.) One process runs with SIGCHLD blocked
from the start, so that restoring and unblocking differ. Requests are one for each
behaviour of the wrappers; those that differ in name only are left to the proof,
which covers all. The second name of the file keeps it one to be copied when the
other tree no longer links it (`Hardlinked`), and lets a call come to a file whose link
is being broken at another name; by it, too, a call that was let through can write to
what cp is copying. The file and the unused name can be renamed to each other, so that a
protected file comes to a name that has been looked at. In init two versions of the
file and two changes let threads load different ones; three threads are needed for the two races that need a
waiter, a failing and a succeeding initializer. In ilist_search an array of two
grows twice and every search path of `bsearch` in five entries is taken. In shell
three writes allow a file without its header, one cut in the middle and one with
a hole. In builder two sessions are one that saves and one that is disturbed, and
the longest history that matters (a leftover tree, a save, a kill between its
renames) is one operation per session. The constants that say what may go wrong
are set to what the code is written for: mtab readable, cow-shell used for update,
no loadable half list (`Truncates`), pbuilder leaving mounts only in the operations
that look for them, pbuilder killed by a signal only where nothing is saved. The build place that an
earlier process has left is mounted in half of the initial states. With
each of the constants widened TLC finds OnlyInstalled, HostIntact or BaseKept violated;
builder_mount is one of these, the others are hazards with a note in PROJECT.json.

In cmdline nine places just hold `pbuilder`, the operation, the words that login or
update add themselves, and the NULL; with options, and for the other operations, the
line overflows among the user's words, the operation's or at the NULL; three options
with a value leave no place for an `--override-config` after them; three
places for input files are filled, and overfilled, by four options. In qemu the
session that creates removes and rebuilds the image under the one that logs in,
which saves or does not; one failure that the code passes over (`MaxMishaps`) is one
that the properties have to except, more of them at once except more; and
three pieces allow a read to end before, inside, between and after the words. The
architectures are one with an emulator and one without. login stands for build and
execute, which take the same steps, and, when it saves, for update.

The size of the passing runs, in distinct states: cow_core 1.7 million (the longest,
a minute and a half), init 518,500, shell 588,432, builder 217,939, cmdline 469,162.

More departures of the code from what it says were found with these modules and have
no run of their own; the first five are what properties and theorems except, each by
name:
* check_inode_and_copy fails open (`cowdancer.c` 270-282): a call whose look failed
  writes to a protected file. With `unseen` left empty in `LookFails`, OriginalsIntact,
  WritesLand and BreakInvisible are all violated.
* a protected file that is renamed to the name between the look and libc's open is
  opened unprotected (`cowdancer.c` 437, and the same in the other wrappers).
* threads that load different versions of the list can leave one's list with another's
  length (`cowdancer.c` 133-134); and with `InOrder = FALSE` in init.cfg PublishedWhole is
  violated, since neither `volatile` nor a barrier orders the stores.
* in `/`, a user's daemon removes the list of a running program that has changed its
  user (`cow-shell.c` 38).
* a failed unlink of the base's list (`cowbuilder.c` 196-202) is only reported: pbuilder
  then runs with a list that protects other inodes, and writes into the base; and
  cowcopy's `rm -rf` (183) goes through whatever is mounted in a leftover build place.
* with `Removable = {"link"}` in cow_core.cfg OriginalsIntact is violated: one process
  replaces a hard-linked symbolic link by a file while another's lchown is breaking it;
  the rename (`cowdancer.c` 382) brings the link back between the first one's check and
  its open, which follows it.
* `SuccessMeansLoaded` of LibraryInit, under `Spec` and the constants of init.cfg with
  two threads: a waiter leaves the loop because another's load has failed, a third
  initialization sets the flag to 1, and the second read (`cowdancer.c` 231) takes it
  for success.
* `UpdateReported` of CowBuilder, under builder.cfg: `cpbuilder_update` drops the
  result of saveupdate (660) and returns 0.

Deadlock is not checked where a run may end: programs make a bounded number of
calls, sessions one operation.

Fairness. `init` and `init_hang` assume weak fairness of each thread's steps inside
the library: the kernel schedules runnable threads, and the spin loop yields. No
thread has to call a wrapper. `shell` assumes it of the deleter daemon's steps, a
process of its own that sleeps a second at a time; no program has to exit. `qemu` assumes weak
fairness of each session's commands and system calls, which return, and that a qemu
that was sent SIGTERM ends; nothing of what the guest does, so that `Answered` begins
at the guest's words. It has to except a read that ends between the two halves of
the words: then fork_qemu never sees them, and waits for ever. It waits for ever, too,
when qemu ends without the words, does not start, or cannot be forked (-1 is not 0, so
the parent's loop is entered; the branch at 363 is never reached). The
other runs check safety only and assume nothing.

## Proofs

`tlapm CopyOnWrite_proof.tla` proves, for any number of processes, names, inodes
and calls, under the named assumptions of CopyOnWrite on its constants:

* `TypesCorrect`, `TypeOKCorrect`: types, with what a call's locals hold at each
  stage (`LocalsOK`), which TypeOK alone does not say and every later proof needs.
* `MaskCorrect`: `[]MaskRestored`. The property speaks of the ends of a call; the
  inductive `MaskInv` adds that in between `omask` is the caller's mask.
* `CopiesUnseen`: `[]CopyUnseen`. It needs `PrivateInv` (`TemporariesPrivate`): a
  bound temporary name is the only way to its inode, it stays bound while its cp
  runs, no two calls hold the same one, and a call at `rename` has a cp that has
  exited with 0. That failed calls leave the file behind is what keeps a name that
  an orphaned cp writes from being made again.
* `OriginalsStayIntact`: `[]OriginalsIntact`, assuming `LinksStable` (every symbolic
  link is there at the start, and no program unlinks or renames one) and
  `RequestsCovered` (every modifying call is intercepted; no fchown or fchmod of a
  read-only descriptor). It begins with what a step can do to names: `NamesStep` says
  that every step of the model binds a free name to a new inode, unbinds one, moves
  one, or does nothing, and that a move of a file to be copied puts the calls that are
  past their look into `unseen`. The invariant, `TargetInv`, has four parts besides the
  property. `LinksInv`: what is renamed over a link is a link, because cp had finished.
  `CanonInv`: the canonical name is the one libc will end at. `TwinsInv`: no step gives
  an inode a second name, so a file that need not be copied never will. `ClearInv`: the
  target of a call that the library has let pass after a look, and a writable
  descriptor of one, need no copy. So the decision, once right, stays right however
  long libc's own call is delayed. cow_update_mode, and its variant with
  `Removable = {"link"}`, show that neither hypothesis can be dropped. The theorem says
  nothing of what `None` has written, that is, of the calls the library let through
  without a look and those that were sidestepped.
* `WritesLandCorrect`: `[]WritesLand`, and `BreakInvisibleCorrect`: `BreakInvisible`,
  an action property, under the same two hypotheses. They need, besides TargetInv,
  `MeetInv`: whoever has a descriptor or a call on a name of mine is in my `rivals`, which
  is what makes "nobody else used the name" usable. `LandInv`: a writable descriptor is the
  file under the name it was opened by, and nobody is at work to replace it; for
  WritesLand alone would not exclude a thread that is three steps before its rename. For
  BreakInvisible, `CopyInv`: while a link is broken without rivals nobody whom the
  library has looked at can write to the file, and the copy that cp has completed has its
  content and kind. Processes without the library (`Ignoring`) and calls that were let
  through may be there, and may write to the file; `ByWatched` leaves their work out.

`tlapm LibraryInit_proof.tla` proves, for any number of threads, of calls and of
changes of the file (`LibInv`):

* `TypeOKCorrect`.
* `PublishedWholeCorrect`: `[]PublishedWhole`, assuming `InOrder`. The invariant
  (`LoadedInv`) adds, for a thread between its stores, that what it has loaded is
  among `loaded`, and that its list comes after its length and its flag after both.
* `PointersReadyCorrect`: `[]PointersReady`. PointersReady says nothing of a thread
  in the loop, which may leave it after somebody's failure; what carries it is
  that the constructor runs alone and does not return before `dlsym`, not even
  with an error, so that outside of it everything has been looked up.

`tlapm IlistSearch_proof.tla` proves, for any width of `int`, first capacity,
devices, inode numbers and number of lines:

* `TypeOKCorrect` and `RoomForNextCorrect`: the bounds of the search stay inside the
  array, and the doubling comes in time for the next entry.
* `FoundIffListedCorrect`: `[]FoundIffListed`, assuming `Consistent(Entry)`, that all
  differences of inode and of device numbers fit an `int`. `compare_ilist` is then an
  order (`CompareOrder`), the array is in that order (from the contract of qsort),
  and every place that holds the key stays between `l` and `u`. ilist_wide shows
  that the assumption cannot be dropped.
* `IsASetCorrect`: `IsASet`, the refinement of ProtectedInodes, under the same
  assumption: reading a line fills the set, sorting closes it, and the answer is
  membership.

`tlapm CommandLine_proof.tla` proves, for any sizes of the arrays and any options:

* `TypeOKCorrect`, `LineFaithfulCorrect`, `LineTerminatedCorrect`. The properties look
  at the finished line; the inductive `LineInv` adds that what has been handled is
  the beginning of `asked`, that `asked` holds no NULL before an operation has put
  one at its end, and that this NULL is the last word asked for. So a line that
  is not full ends with it, and a full one with that of the last `DropWord`.
* `ConfigurationFoundCorrect`: `config_ok` is 0 exactly when some file was loaded, in
  whatever order the good and the missing ones come (`ConfigInv`); a broken one ends
  the process.
* `InputsKeptCorrect`: the array holds the files given so far, in their order, and
  while options are read has a free place at its end (`InputsInv`), which is what
  `size_of_ntarray` stops at (`FirstNull`).
* `OverrideHeededCorrect`: on the line that update executes, `--distribution` is there
  only beside an `--override-config`, and is there beside one if update's next word,
  `--no-targz`, is. The property is about the finished line, the program looks at the
  one it has so far: `OverrideInv` adds that update asks for `--distribution` exactly
  when the other word is on the line, that nothing puts that word there afterwards, and
  that `--no-targz` is asked for later (`TargzAfter`), so that a full line drops it first.
  It needs `DistributionAssumption`: no option of the program is passed on as
  `--distribution` or `--no-targz`, which the source keeps for itself (`parameter.c`
  435-438).

`tlapm CowShell_proof.tla` proves, for any number of sessions, of writes and of list
files, with one invariant, `ShellInv`:

* `TypeOKCorrect`.
* `WholeListCorrect`, `ListAvailableCorrect` (which excepts, as `Refused`, the program in
  `/` whose daemon has met EPERM): the properties speak of what programs and
  their views see; the invariant adds who may be there. `AloneShape`: as long as two
  sessions have not got in each other's way, one that makes the list is alone, and one
  whose daemon will remove it is. `ListShape`: the file that is being written holds
  the writes 1 to `written`, so that it is whole at the last one, and nobody opens it again.
  `LocalShape`: a daemon that waits for init to be its parent has no program any more.

`tlapm CowBuilder_proof.tla` proves, for any number of sessions with any operations, any
of them killed between two commands:

* `TypeOKCorrect` and `SaveReportedCorrect`, with no hypothesis. `TypeInv` says which
  operation comes to which stage, that the build place exists in those that use it, and
  that nobody passes the renames without having been installed.
* `OnlyInstalledCorrect`: assuming `ListsTold` (a failing ilistcreate leaves no list
  that loads, and update runs under cow-shell). No session but those in `misled` starts
  pbuilder with a list of another tree (`ListInv`); so its work stays in its own
  (`Worked`), and what the base holds is of those installed, of its creators, or of the
  misled (`SavedInv`). It does not assume that sessions are kept apart.
* `RunningUndisturbedCorrect`: an action property, from ListInv under the same hypothesis
  and with the same exception: only a misled session's work comes into another's tree.
* `HostIntactCorrect`: assuming `MountsSeen` (mtab can be read; pbuilder leaves no mount
  in update and create). `MountInv` says which trees have nothing mounted below them
  while a session is about to remove them or to move them: the build place at `rmbuild`,
  the base while a copy of it is on its way to replace it, the tree moved aside until it
  is removed. Of the build place at `rm` it says nothing: an earlier process may have left
  a mount there, and HostIntact excepts that command.
* `BaseKeptCorrect`: assuming `SavingSurvives` (pbuilder is not killed by a signal in the
  operations that save). There is always a whole tree with the work of all that have been
  installed: the base, or between the two renames the tree aside (`BaseHeld`); whoever saves
  works on a whole copy of it (`WorksOnCopy`). The first rename may be the last step of a
  session; then the tree stays where it is, and BaseKept counts it.

HostIntact and BaseKept speak of histories without `overlapped`; `ApartInv` turns that
into what the proofs need: one that saves runs beside no other that saves, a create beside
none and on no base. The three hypotheses are the settings of builder.cfg, stated
for any constants. Each is needed: builder_mount and the paragraph on bounds above say
what TLC finds without it.

`tlapm Qemubuilder_proof.tla` proves, for any number of sessions, failures and codes:

* `TypeOKCorrect`.
* `ImagesAtRestCorrect`, `SavedWholeCorrect`, `NothingLeftCorrect`. They are corollaries
  of one invariant, `QemuInv`, with four parts for each session: what is mounted at
  each command (`MountShape`), where qemu can be (`MachineShape`: none before the
  fork, none on after fork_qemu but through a failed select), whose work the images
  can hold (`WorkShape`), and what is on the host (`FilesShape`). Another session's
  step leaves all of a session alone but its work in the base, which `create` removes
  (`Same`, `OthersKeepShape`).
* `ForkQemuRunsCorrect`: each session implements QemuRun. `Hear` that recognises the
  words is a stutter there, for the answer is given only with `Wait`; `MachineShape`
  says that the words were sent and that qemu was told to end.

Model-checked only: liveness. SerialCallsReturn, DeleterEnds and Answered, and the
violated CallsReturn, need fairness and ENABLED, which are beyond the prover, and stay
with TLC. Every invariant and every safety action property that a passing run checks is
a theorem.

## Not modelled

* `flock` (changes no inode), allocation failures of `strdup` and `asprintf` in
  cowbuilder, messages, and everything under `COWDANCER_DEBUG`.
* `canonicalize_file_name` through more than one link: a link leads to a name that
  is no link. Directories: names are final components of a path.
* `break_cowlink` in cowbuilder, whose results are ignored: it changes which inodes
  three debconf files share, and CowBuilder looks at whole trees.
* Of parameter.c: the shell script that prints a configuration file's values, and
  `dumpconfig`.
* Of qemubuilder: a qemubuilder that is killed (nothing looks at what it leaves), two
  creates at once, a guest that prints the words before its script is through, waitpid
  and read giving -1 in `fork_qemu` (250-253 and 231; no handler is installed that could
  interrupt them, and the child and the socket are there), and what
  other sessions read from a base image that is being remade under them. The scripts
  are what they do to the disk and say at the end.
* `file.c`: `copy_file` (45-96) is a loop of read and write. It takes a short write for
  success. A failing read gives (size_t)-1, which the loop takes for data; only
  because write refuses that length does the copy fail. `create_sparse_file` (103-148)
  makes a file one byte shorter than asked for, since it subtracts the last byte
  twice (115 and 130). Byte counts are all there is to say, and nothing depends
  on them. `qemuipsanitize.c` rewrites a string. The tables of `qemuarch.c` for
  terminals, disks and devices.
* `qemuinit`, the shell scripts, the test drivers.
* A program that reaps the library's cp child itself is the error return of waitpid.
* A process number that is used again while cow-shell's daemon polls it.

## Plan

1. Done: CopyOnWrite, LibraryInit, IlistSearch, CowShell, CowBuilder, CommandLine and
   Qemubuilder, with proofs of all their invariants and safety action properties; the
   abstract specifications ProtectedInodes and QemuRun with their refinements.
2. An abstract specification of a session (two trees that do not share anything;
   a call changes one file of one tree), implemented by CopyOnWrite for names that
   are not contended; then the refinement as a theorem, for which `TargetInv`,
   `LandInv` and `CopyInv` are the parts.
3. An abstract specification of cowbuilder (a base that sessions replace as a
   whole), implemented by CowBuilder under the hypotheses of `BaseKeptCorrect`.
4. `break_cowlink` as an action of CowBuilder with shared debconf files.
