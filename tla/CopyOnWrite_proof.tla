------------------------- MODULE CopyOnWrite_proof -------------------------
(***************************************************************************)
(* Proofs about CopyOnWrite for any number of processes, names, inodes and *)
(* calls.                                                                  *)
(***************************************************************************)
EXTENDS CopyOnWrite, TLAPS

USE DEF LinkPaths, Names

----------------------------------------------------------------------------
(* Type correctness.  What a local variable of check_inode_and_copy holds  *)
(* depends on how far the call has come.                                   *)

Holding == {"sigprocmask", "fork", "waitpid", "rename"}
Breaking == {"mkstemp"} \cup Holding
Found == {"stat"} \cup Breaking

LocalsOK ==
    /\ \A p \in Procs : pc[p] # "idle" => s[p] \in Paths /\ req[p] \in Requests
    /\ \A p \in Procs : pc[p] \in Found => canonical[p] \in Paths
    /\ \A p \in Procs : pc[p] \in Holding => backup_file[p] \in Temps
    /\ \A t \in Temps : cp[t] = "running" => cpSource[t] \in Paths
    /\ \A p \in Procs : fd[p] # None => pc[p] = "idle" /\ s[p] \in Paths
    /\ \A p \in Procs : writable[p] => fd[p] # None

TypeInv == TypeOK /\ LocalsOK

\* The history variables keep their types.
LEMMA GhostTypes ==
  ASSUME TypeOK, NEW p \in Procs, NEW S
  PROVE  /\ Meet(p, S) \in [Procs -> SUBSET Procs]
         /\ Disturb(p, S) \in [Procs -> SUBSET Procs]
         /\ \A n : Breakers(n) \in SUBSET Procs
  BY DEF TypeOK, Meet, Disturb, Breakers, UsersOf

\* The kernel ends at a name of the program's.
LEMMA ResolveType ==
  ASSUME NEW r, NEW n \in Paths
  PROVE  Resolve(r, n) \in Paths
  BY PathAssumption DEF Resolve, Final

\* A lookup that fails, and one that does not, leave the history its type.
LEMMA LookTypes ==
  ASSUME TypeInv, NEW p \in Procs, CheckStep(p)
  PROVE  unseen' \in SUBSET {q \in Procs : pc'[q] = "libc" \/ fd'[q] # None}
  <1> USE DEF TypeInv, TypeOK, LocalsOK, Goto, Pass, LookFails, Finish, Refuse, ErrorSpm,
              Found, Breaking, Holding, fsVars, callVars, maskVars, cpVars, fdVars,
              ghostVars
  <1>1. fd' = fd /\ pc[p] \notin {"idle", "libc"} /\ p \notin unseen
        /\ \A q \in Procs \ {p} : pc'[q] = pc[q]
    BY DEF CheckStep, LStat, CanonicalizeFileName, Stat, Decide, Mkstemp, MkstempFails,
           BlockSigchld, BlockSigchldFails, Fork, ForkFails, WaitpidCopied,
           WaitpidFailed, WaitpidError, RenameOver, RenameFails
  <1>2. \/ unseen' \subseteq unseen
        \/ unseen' \subseteq unseen \cup {p} /\ pc'[p] = "libc"
    BY DEF CheckStep, LStat, CanonicalizeFileName, Stat, Mkstemp, MkstempFails,
           BlockSigchld, BlockSigchldFails, Fork, ForkFails, WaitpidCopied,
           WaitpidFailed, WaitpidError, RenameOver, RenameFails
  <1> QED BY <1>1, <1>2

\* The first state has the types, and no call is under way in it.
LEMMA InitTypes == Init => TypeInv
  BY PathAssumption, InodeAssumption, ParameterAssumption
  DEF Init, TypeInv, TypeOK, LocalsOK, Found, Breaking, Holding

\* A program's call of a wrapper.
LEMMA CallTypes ==
  ASSUME TypeInv, NEW p \in Procs, NEW r \in Requests, NEW n \in Paths, Call(p, r, n)
  PROVE  TypeInv'
  <1>1. Meet(p, Footprint(n)) \in [Procs -> SUBSET Procs]
    BY GhostTypes DEF TypeInv
  <1>2. calls + 1 \in 0..MaxCalls
    BY ParameterAssumption DEF TypeInv, TypeOK, Call, CanCall
  <1>3. pc' \in [Procs -> {"idle", "lstat", "canonicalize", "stat", "mkstemp",
                           "sigprocmask", "fork", "waitpid", "rename", "libc"}]
    BY DEF TypeInv, TypeOK, Call, Goto
  <1>4. unseen' \in SUBSET {q \in Procs : pc'[q] = "libc" \/ fd'[q] # None}
    BY DEF TypeInv, TypeOK, Call, CanCall, Goto, fdVars
  <1>5. TypeOK'
    BY <1>1, <1>2, <1>3, <1>4
    DEF TypeInv, TypeOK, Call, fsVars, maskVars, cpVars, fdVars
  <1>6. LocalsOK'
    BY DEF TypeInv, TypeOK, LocalsOK, Call, CanCall, Goto, Found, Breaking, Holding,
           cpVars, fdVars
  <1> QED BY <1>5, <1>6 DEF TypeInv

\* The steps of check_inode_and_copy.
LEMMA CheckTypes ==
  ASSUME TypeInv, NEW p \in Procs, CheckStep(p)
  PROVE  TypeInv'
  <1>0. unseen' \in SUBSET {q \in Procs : pc'[q] = "libc" \/ fd'[q] # None}
    BY LookTypes
  <1> USE DEF TypeInv, TypeOK, LocalsOK, Goto, Forget, Found, Breaking, Holding,
              fsVars, callVars, maskVars, cpVars, fdVars, ghostVars
  <1>1. CASE LStat(p)
    <2>1. s[p] \in Paths /\ fd[p] = None
      BY <1>1 DEF LStat
    <2>2. CASE Goto(p, "mkstemp") /\ canonical' = [canonical EXCEPT ![p] = s[p]]
               /\ UNCHANGED backup_file
      BY <1>0, <1>1, <2>1, <2>2 DEF LStat
    <2>3. CASE Goto(p, "canonicalize") /\ UNCHANGED <<canonical, backup_file>>
      BY <1>0, <1>1, <2>1, <2>3 DEF LStat
    <2>4. CASE Pass(p)
      BY <1>0, <1>1, <2>1, <2>4 DEF LStat, Pass
    <2> QED BY <1>1, <2>2, <2>3, <2>4 DEF LStat, LookFails, Decide
  <1>2. CASE CanonicalizeFileName(p)
    BY <1>0, <1>2, ResolveType DEF CanonicalizeFileName, LookFails, Pass, Target
  <1>3. CASE Stat(p)
    <2>1. canonical[p] \in Paths
      BY <1>3 DEF Stat
    <2>2. Pass(p) \/ (Goto(p, "mkstemp") /\ canonical' = canonical
                                       /\ UNCHANGED backup_file)
      BY <1>3, <2>1 DEF Stat, LookFails, Decide
    <2> QED BY <1>0, <1>3, <2>1, <2>2 DEF Stat, Pass
  <1>4. ASSUME NEW t \in Temps, NEW i \in Inodes, Mkstemp(p, t, i)
        PROVE  TypeInv'
    BY <1>0, <1>4 DEF Mkstemp
  <1>5. CASE MkstempFails(p)
    BY <1>0, <1>5 DEF MkstempFails, Refuse, Finish
  <1>6. CASE BlockSigchld(p)
    BY <1>0, <1>6 DEF BlockSigchld
  <1>7. CASE BlockSigchldFails(p)
    BY <1>0, <1>7 DEF BlockSigchldFails, Refuse, Finish
  <1>8. CASE Fork(p)
    BY <1>0, <1>8 DEF Fork, CpArgument
  <1>9. CASE ForkFails(p)
    BY <1>0, <1>9 DEF ForkFails, ErrorSpm, RestoreMask, Refuse, Finish
  <1>10. CASE WaitpidCopied(p)
    BY <1>0, <1>10 DEF WaitpidCopied
  <1>11. CASE WaitpidFailed(p)
    BY <1>0, <1>11 DEF WaitpidFailed, ErrorSpm, RestoreMask, Refuse, Finish
  <1>12. CASE WaitpidError(p)
    BY <1>0, <1>12 DEF WaitpidError, ErrorSpm, RestoreMask, Refuse, Finish
  <1>13. CASE RenameOver(p)
    BY <1>0, <1>13 DEF RenameOver, RestoreMask, Pass
  <1>14. CASE RenameFails(p)
    BY <1>0, <1>14 DEF RenameFails, ErrorSpm, RestoreMask, Refuse, Finish
  <1> QED BY <1>1, <1>2, <1>3, <1>4, <1>5, <1>6, <1>7, <1>8, <1>9, <1>10, <1>11,
             <1>12, <1>13, <1>14 DEF CheckStep

\* The steps of libc, of the programs, of cp and of the other tree.
LEMMA OtherTypes ==
  ASSUME TypeInv, Next, ~\E p \in Procs : CheckStep(p)
  PROVE  TypeInv'
  <1> USE DEF TypeInv, TypeOK, LocalsOK, Goto, Forget, Found, Breaking, Holding,
              fsVars, callVars, maskVars, cpVars, fdVars, ghostVars
  <1>1. ASSUME NEW p \in Procs, LibcStep(p) PROVE TypeInv'
    <2>1. CASE LibcOpen(p)
      <3>1. dir[Target(p)] \in Inodes
        BY <2>1, ResolveType DEF LibcOpen, Target, Bound
      <3>2. data' \in [Inodes -> SUBSET (Procs \cup {None})]
        BY <2>1, <3>1 DEF LibcOpen, Change, Author
      <3>3. fd' \in [Procs -> Inodes \cup {None}]
        BY <2>1, <3>1 DEF LibcOpen, Opened
      <3>4. writable' \in [Procs -> BOOLEAN]
        BY <2>1 DEF LibcOpen, Opened, OpensForWriting
      <3>5. rivals' \in [Procs -> SUBSET Procs]
        BY <2>1, GhostTypes DEF LibcOpen, Opened
      <3>6. fd'[p] # None /\ s[p] \in Paths /\ \A q \in Procs \ {p} : fd'[q] = fd[q]
        BY <2>1, <3>1, InodeAssumption DEF LibcOpen, Opened
      <3>7. unseen' \in SUBSET {q \in Procs : pc'[q] = "libc" \/ fd'[q] # None}
        BY <2>1, <3>6 DEF LibcOpen, Opened
      <3>8. \A q \in Procs : writable'[q] => fd'[q] # None
        BY <2>1, <3>6 DEF LibcOpen, Opened
      <3> QED BY <2>1, <3>2, <3>3, <3>4, <3>5, <3>6, <3>7, <3>8 DEF LibcOpen, Opened
    <2>2. ASSUME NEW i \in Inodes, LibcCreate(p, i) PROVE TypeInv'
      <3>1. Target(p) \in Paths /\ Author(p) \in Procs \cup {None}
        BY <2>2, ResolveType DEF LibcCreate, Target, Author
      <3>2. writable' \in [Procs -> BOOLEAN]
        BY <2>2 DEF LibcCreate, Opened, OpensForWriting
      <3>3. rivals' \in [Procs -> SUBSET Procs]
        BY <2>2, GhostTypes DEF LibcCreate, Opened
      <3> QED BY <2>2, <3>1, <3>2, <3>3, InodeAssumption DEF LibcCreate, Opened
    <2>3. CASE LibcAttributes(p)
      BY <2>3, ResolveType DEF LibcAttributes, Finish, Change, Target, Author
    <2>4. CASE LibcFails(p)
      BY <2>4 DEF LibcFails, Refuse, Finish
    <2> QED BY <1>1, <2>1, <2>2, <2>3, <2>4 DEF LibcStep
  <1>2. ASSUME NEW p \in Procs, ProgramStep(p) PROVE TypeInv'
    <2>1. ASSUME NEW r \in Requests, NEW n \in Paths, Call(p, r, n) PROVE TypeInv'
      BY <2>1, CallTypes
    <2>2. ASSUME NEW r \in Requests, FdCall(p, r) PROVE TypeInv'
      BY <2>2 DEF FdCall, Change, Author
    <2>3. CASE Write(p)
      BY <2>3 DEF Write, Change, Author
    <2>4. CASE Close(p)
      BY <2>4 DEF Close, Finish
    <2>5. ASSUME NEW n \in Paths, Unlink(p, n) PROVE TypeInv'
      BY <2>5, GhostTypes, ParameterAssumption DEF Unlink
    <2>6. ASSUME NEW from \in Paths, NEW to \in Paths, Rename(p, from, to)
          PROVE  TypeInv'
      BY <2>6, GhostTypes, ParameterAssumption DEF Rename, Sidestepped
    <2> QED BY <1>2, <2>1, <2>2, <2>3, <2>4, <2>5, <2>6 DEF ProgramStep
  <1>3. ASSUME NEW t \in Temps, CpExits0(t) \/ CpFails(t) PROVE TypeInv'
    <2>1. CASE CpFails(t)
      BY <2>1 DEF CpFails, CpEnds
    <2>2. CASE CpExits0(t)
      <3>1. dir[cpSource[t]] \in Inodes
        BY <2>2 DEF CpExits0, CpEnds, Bound
      <3>2. data' \in [Inodes -> SUBSET (Procs \cup {None})] /\ kind' \in [Inodes -> {"reg", "lnk"}]
        BY <2>2, <3>1 DEF CpExits0
      <3> QED BY <2>2, <3>2 DEF CpExits0, CpEnds
    <2> QED BY <1>3, <2>1, <2>2
  <1>4. ASSUME NEW i \in Inodes, OutsideUnlink(i) PROVE TypeInv'
    BY <1>4 DEF OutsideUnlink
  <1> QED BY <1>1, <1>2, <1>3, <1>4 DEF Next

\* A step that changes nothing.
LEMMA TypesStutter == TypeInv /\ UNCHANGED vars => TypeInv'
  BY DEF TypeInv, TypeOK, LocalsOK, vars, fsVars, callVars, maskVars, cpVars,
         fdVars, ghostVars

\* Every variable keeps its type, and a call that is under way has its names.
THEOREM TypesCorrect == Spec => []TypeInv
  <1>1. TypeInv /\ [Next]_vars => TypeInv'
    BY CheckTypes, OtherTypes, TypesStutter DEF Next
  <1> QED BY InitTypes, <1>1, PTL DEF Spec

\* The type invariant that the runs check.
THEOREM TypeOKCorrect == Spec => []TypeOK
  <1>1. TypeInv => TypeOK
    BY DEF TypeInv
  <1> QED BY TypesCorrect, <1>1, PTL

----------------------------------------------------------------------------
(* The signal mask.  Between sigprocmask and the rename the mask is the    *)
(* library's, and omask is the one the caller had.                         *)

Masked == {"fork", "waitpid", "rename"}

MaskInv == \A p \in Procs :
    /\ pc[p] \in Masked => (omask[p] <=> p \in Blocking)
    /\ pc[p] \notin Masked => (blocked[p] <=> p \in Blocking)

\* The programs start with the mask they inherit.
LEMMA InitMask == Init => MaskInv
  BY DEF Init, MaskInv, Masked

\* A step that leaves the masks alone and does not enter or leave the part of
\* the call that runs under the library's mask.
LEMMA MaskFrame ==
  ASSUME MaskInv, UNCHANGED maskVars,
         \A p \in Procs : pc'[p] \in Masked <=> pc[p] \in Masked
  PROVE  MaskInv'
  BY DEF MaskInv, maskVars

\* check_inode_and_copy blocks SIGCHLD once, and no way out leaves it blocked.
LEMMA CheckMask ==
  ASSUME TypeInv, MaskInv, NEW p \in Procs, CheckStep(p)
  PROVE  MaskInv'
  <1> USE DEF Masked, Goto
  <1>0. pc \in [Procs -> {"idle", "lstat", "canonicalize", "stat", "mkstemp",
                         "sigprocmask", "fork", "waitpid", "rename", "libc"}]
        /\ blocked \in [Procs -> BOOLEAN] /\ omask \in [Procs -> BOOLEAN]
    BY DEF TypeInv, TypeOK
  <1>1. CASE LStat(p)
    BY <1>0, <1>1, MaskFrame DEF LStat, LookFails, Pass, Decide
  <1>2. CASE CanonicalizeFileName(p)
    BY <1>0, <1>2, MaskFrame DEF CanonicalizeFileName, LookFails, Pass
  <1>3. CASE Stat(p)
    BY <1>0, <1>3, MaskFrame DEF Stat, LookFails, Pass, Decide
  <1>4. ASSUME NEW t \in Temps, NEW i \in Inodes, Mkstemp(p, t, i)
        PROVE  MaskInv'
    BY <1>0, <1>4, MaskFrame DEF Mkstemp
  <1>5. CASE MkstempFails(p)
    BY <1>0, <1>5, MaskFrame DEF MkstempFails, Refuse, Finish
  <1>6. CASE BlockSigchld(p)
    BY <1>0, <1>6 DEF BlockSigchld, MaskInv
  <1>7. CASE BlockSigchldFails(p)
    BY <1>0, <1>7, MaskFrame DEF BlockSigchldFails, Refuse, Finish
  <1>8. CASE Fork(p)
    BY <1>0, <1>8, MaskFrame DEF Fork
  <1>9. CASE WaitpidCopied(p)
    BY <1>0, <1>9, MaskFrame DEF WaitpidCopied
  <1>10. CASE RenameOver(p)
    BY <1>0, <1>10 DEF RenameOver, RestoreMask, Pass, MaskInv
  <1>11. ASSUME pc[p] \in Masked, ErrorSpm(p)
         PROVE  MaskInv'
    BY <1>0, <1>11 DEF ErrorSpm, Refuse, Finish, RestoreMask, MaskInv
  <1>12. CASE ForkFails(p) \/ WaitpidFailed(p) \/ WaitpidError(p) \/ RenameFails(p)
    BY <1>11, <1>12 DEF ForkFails, WaitpidFailed, WaitpidError, RenameFails
  <1> QED BY <1>1, <1>2, <1>3, <1>4, <1>5, <1>6, <1>7, <1>8, <1>9, <1>10, <1>12
             DEF CheckStep

\* Nothing else touches a mask.
LEMMA OtherMask ==
  ASSUME TypeInv, MaskInv, Next, ~\E p \in Procs : CheckStep(p)
  PROVE  MaskInv'
  <1> USE DEF Masked, Goto
  <1>0. pc \in [Procs -> {"idle", "lstat", "canonicalize", "stat", "mkstemp",
                         "sigprocmask", "fork", "waitpid", "rename", "libc"}]
    BY DEF TypeInv, TypeOK
  <1>1. ASSUME NEW p \in Procs, LibcStep(p) PROVE MaskInv'
    BY <1>0, <1>1, MaskFrame
    DEF LibcStep, LibcOpen, LibcCreate, LibcAttributes, LibcFails, Opened, Refuse,
        Finish
  <1>2. ASSUME NEW p \in Procs, ProgramStep(p) PROVE MaskInv'
    BY <1>0, <1>2, MaskFrame
    DEF ProgramStep, Call, CanCall, FdCall, Write, Close, Finish, Unlink, Rename
  <1>3. ASSUME NEW t \in Temps, CpExits0(t) \/ CpFails(t) PROVE MaskInv'
    BY <1>3, MaskFrame DEF CpExits0, CpFails, CpEnds
  <1>4. ASSUME NEW i \in Inodes, OutsideUnlink(i) PROVE MaskInv'
    BY <1>4, MaskFrame DEF OutsideUnlink
  <1> QED BY <1>1, <1>2, <1>3, <1>4 DEF Next

\* Every path out of check_inode_and_copy restores the caller's signal mask,
\* however many processes there are and whichever calls fail.
THEOREM MaskCorrect == Spec => []MaskRestored
  <1>1. TypeInv /\ MaskInv /\ [Next]_vars => MaskInv'
    <2>1. TypeInv /\ MaskInv /\ Next => MaskInv'
      BY CheckMask, OtherMask DEF Next
    <2>2. MaskInv /\ UNCHANGED vars => MaskInv'
      BY MaskFrame DEF vars, maskVars
    <2> QED BY <2>1, <2>2
  <1>2. MaskInv => MaskRestored
    BY DEF MaskInv, MaskRestored, Masked
  <1> QED BY InitMask, TypesCorrect, <1>1, <1>2, PTL DEF Spec

----------------------------------------------------------------------------
(* Temporary files.  A temporary name that is bound belongs to one call at *)
(* most, and nothing else leads to its inode.  That the name outlives the  *)
(* cp that writes it is why no other call can be given it by mkstemp.      *)

Secret(t) == /\ dir[t] \notin outside
             /\ \A n \in Names \ {t} : dir[n] # dir[t]
             /\ \A p \in Procs : fd[p] # dir[t]

PrivateInv ==
    /\ \A t \in Temps : Bound(t) => Secret(t)
    /\ \A t \in Temps : cp[t] = "running" => Bound(t)
    /\ \A p \in Procs : pc[p] \in Holding => Bound(backup_file[p])
    /\ \A p, q \in Procs : /\ pc[p] \in Holding /\ pc[q] \in Holding
                           /\ backup_file[p] = backup_file[q]
                           => p = q
    /\ \A p \in Procs : pc[p] = "rename" => cp[backup_file[p]] = "exited0"

\* There is no temporary file at first.
LEMMA InitPrivate == Init => PrivateInv
  BY PathAssumption DEF Init, PrivateInv, Bound, Holding

\* Steps that bind no name, open nothing and start no cp.
LEMMA PrivateFrame ==
  ASSUME PrivateInv, dir' = dir, outside' \subseteq outside, cp' = cp,
         \A p \in Procs : fd'[p] \in {fd[p], None},
         \A p \in Procs : pc'[p] \in Holding =>
                             pc[p] \in Holding /\ backup_file'[p] = backup_file[p],
         \A p \in Procs : pc'[p] = "rename" => pc[p] = "rename"
  PROVE  PrivateInv'
  BY DEF PrivateInv, Bound, Secret, Holding

\* mkstemp makes a file nobody knows; only rename, after cp, shows it.
LEMMA CheckPrivate ==
  ASSUME TypeInv, PrivateInv, NEW p \in Procs, CheckStep(p)
  PROVE  PrivateInv'
  <1> USE DEF Holding, Goto, Forget, callVars, fdVars, cpVars, fsVars
  <1>0. TypeOK /\ LocalsOK
    BY DEF TypeInv
  <1>1. CASE LStat(p)
    BY <1>0, <1>1, PrivateFrame DEF LStat, LookFails, Pass, Decide, TypeOK
  <1>2. CASE CanonicalizeFileName(p)
    BY <1>0, <1>2, PrivateFrame DEF CanonicalizeFileName, LookFails, Pass, TypeOK
  <1>3. CASE Stat(p)
    BY <1>0, <1>3, PrivateFrame DEF Stat, LookFails, Pass, Decide, TypeOK
  <1>4. ASSUME NEW t \in Temps, NEW i \in Inodes, Mkstemp(p, t, i)
        PROVE  PrivateInv'
    <2>1. /\ dir' = [dir EXCEPT ![t] = i] /\ backup_file' = [backup_file EXCEPT ![p] = t]
          /\ pc' = [pc EXCEPT ![p] = "sigprocmask"]
          /\ UNCHANGED <<outside, cp, fd>> /\ dir[t] = None
      BY <1>4 DEF Mkstemp, TempFor, Bound
    <2>2. /\ i # None /\ i \notin outside
          /\ \A n \in Names : dir[n] # i
          /\ \A q \in Procs : fd[q] # i
      BY <1>4, InodeAssumption DEF Mkstemp, Free
    <2>3. \A u \in Temps : Bound(u)' => Secret(u)'
      BY <1>0, <2>1, <2>2 DEF PrivateInv, Secret, Bound, TypeOK
    <2>4. \A q \in Procs : pc[q] \in Holding => backup_file[q] # t
      BY <2>1 DEF PrivateInv, Bound
    <2> QED BY <1>0, <2>1, <2>2, <2>3, <2>4 DEF PrivateInv, Bound, TypeOK, LocalsOK
  <1>5. CASE MkstempFails(p)
    BY <1>0, <1>5, PrivateFrame DEF MkstempFails, Refuse, Finish, TypeOK
  <1>6. CASE BlockSigchld(p)
    BY <1>0, <1>6, PrivateFrame DEF BlockSigchld, TypeOK
  <1>7. CASE BlockSigchldFails(p)
    BY <1>0, <1>7, PrivateFrame DEF BlockSigchldFails, Refuse, Finish, TypeOK
  <1>8. CASE Fork(p)
    <2>1. \A q \in Procs : pc'[q] = "rename" =>
            pc[q] = "rename" /\ backup_file[q] # backup_file[p]
      BY <1>0, <1>8 DEF Fork, PrivateInv, TypeOK
    <2> QED BY <1>0, <1>8, <2>1 DEF Fork, PrivateInv, Secret, Bound, TypeOK
  <1>9. CASE WaitpidCopied(p)
    BY <1>0, <1>9 DEF WaitpidCopied, CopyDone, PrivateInv, Secret, Bound, TypeOK
  <1>10. CASE RenameOver(p)
    <2> DEFINE t == backup_file[p]
               c == canonical[p]
    <2>1. /\ t \in Temps /\ c \in Paths /\ t # c /\ pc[p] = "rename"
      BY <1>0, <1>10, PathAssumption DEF RenameOver, LocalsOK, Found, Breaking
    <2>2. /\ dir' = [dir EXCEPT ![c] = dir[t], ![t] = None]
          /\ pc' = [pc EXCEPT ![p] = "libc"]
          /\ backup_file' = [backup_file EXCEPT ![p] = None]
          /\ UNCHANGED <<outside, cp, fd>>
      BY <1>10 DEF RenameOver, Pass
    <2>3. Bound(t) /\ Secret(t) /\ cp[t] = "exited0"
      BY <2>1 DEF PrivateInv
    <2>4. \A u \in Temps : u # t => dir'[u] = dir[u]
      BY <1>0, <2>1, <2>2, PathAssumption DEF TypeOK
    <2>5. \A u \in Temps : Bound(u)' => u # t /\ Secret(u)'
      <3>1. \A n \in Names : dir'[n] \in {dir[n], dir[t], None} /\ (dir'[n] = dir[t] => n = c)
        BY <1>0, <2>1, <2>2, <2>3 DEF TypeOK, Secret, Bound
      <3> QED BY <1>0, <2>1, <2>2, <2>3, <2>4, <3>1, PathAssumption
              DEF PrivateInv, Secret, Bound, TypeOK
    <2>6. \A q \in Procs : pc'[q] \in Holding =>
            /\ pc[q] \in Holding /\ q # p /\ backup_file'[q] = backup_file[q]
            /\ backup_file[q] # t /\ backup_file[q] \in Temps
      BY <1>0, <2>1, <2>2 DEF PrivateInv, TypeOK, LocalsOK
    <2>7. \A q \in Procs : pc'[q] = "rename" => pc[q] = "rename"
      BY <1>0, <2>2 DEF TypeOK
    <2>8. \A u \in Temps : cp'[u] = "running" => Bound(u)'
      BY <2>2, <2>3, <2>4 DEF PrivateInv, Bound
    <2>9. \A q \in Procs : pc'[q] \in Holding => Bound(backup_file[q])'
      <3> SUFFICES ASSUME NEW q \in Procs, pc'[q] \in Holding
                   PROVE  Bound(backup_file[q])'
        OBVIOUS
      <3>1. backup_file'[q] = backup_file[q] /\ dir'[backup_file[q]] = dir[backup_file[q]]
        BY <2>4, <2>6
      <3> QED BY <2>6, <3>1 DEF PrivateInv, Bound
    <2> QED BY <2>2, <2>5, <2>6, <2>7, <2>8, <2>9 DEF PrivateInv
  <1>11. ASSUME ErrorSpm(p), UNCHANGED cpVars PROVE PrivateInv'
    BY <1>0, <1>11, PrivateFrame DEF ErrorSpm, Refuse, Finish, TypeOK
  <1>12. CASE ForkFails(p) \/ WaitpidFailed(p) \/ WaitpidError(p) \/ RenameFails(p)
    BY <1>11, <1>12 DEF ForkFails, WaitpidFailed, WaitpidError, RenameFails
  <1> QED BY <1>1, <1>2, <1>3, <1>4, <1>5, <1>6, <1>7, <1>8, <1>9, <1>10, <1>12
             DEF CheckStep

\* A step that binds names of the programs, or opens them: it may move an inode
\* between them, or bind a free one, and a descriptor gets what a name shows.
LEMMA PrivateProgram ==
  ASSUME TypeInv, PrivateInv, UNCHANGED <<outside, cp>>,
         \A t \in Temps : dir'[t] = dir[t],
         \A n \in Paths : \/ \E m \in Paths : dir'[n] = dir[m]
                          \/ dir'[n] = None
                          \/ Free(dir'[n]),
         \A p \in Procs : \/ fd'[p] \in {fd[p], None}
                          \/ \E n \in Paths : fd'[p] = dir[n]
                          \/ Free(fd'[p]),
         \A p \in Procs : pc'[p] \in Holding =>
                             pc'[p] = pc[p] /\ backup_file'[p] = backup_file[p]
  PROVE  PrivateInv'
  <1>1. \A t \in Temps : Bound(t)' => Secret(t)'
    <2> SUFFICES ASSUME NEW t \in Temps, Bound(t)' PROVE Secret(t)'
      OBVIOUS
    <2>1. Bound(t) /\ Secret(t) /\ dir'[t] = dir[t] /\ ~Free(dir[t])
      BY DEF PrivateInv, Bound, Free
    <2>2. \A n \in Names \ {t} : dir'[n] # dir[t]
      BY <2>1, PathAssumption DEF Secret, Bound
    <2>3. \A p \in Procs : fd'[p] # dir[t]
      BY <2>1, PathAssumption DEF Secret, Bound
    <2> QED BY <2>1, <2>2, <2>3 DEF Secret
  <1>2. \A t \in Temps : Bound(t)' <=> Bound(t)
    BY DEF Bound
  <1>3. \A p \in Procs : pc'[p] \in Holding =>
          backup_file[p] \in Temps /\ pc[p] = pc'[p]
                                   /\ backup_file'[p] = backup_file[p]
    BY DEF TypeInv, LocalsOK
  <1>4. \A p \in Procs : pc'[p] \in Holding => Bound(backup_file[p])'
    BY <1>3 DEF PrivateInv, Bound
  <1>5. \A p \in Procs : pc'[p] = "rename" => cp'[backup_file'[p]] = "exited0"
    BY <1>3 DEF PrivateInv, Holding
  <1> QED BY <1>1, <1>2, <1>3, <1>4, <1>5 DEF PrivateInv

\* libc, cp and the other tree.
LEMMA OtherPrivate ==
  ASSUME TypeInv, PrivateInv, Next, ~\E p \in Procs : CheckStep(p)
  PROVE  PrivateInv'
  <1> USE DEF Holding, Goto, Forget, callVars, fdVars, cpVars, fsVars
  <1>0. TypeOK /\ LocalsOK
    BY DEF TypeInv
  <1>1. ASSUME NEW p \in Procs, LibcStep(p) PROVE PrivateInv'
    <2>0. pc[p] = "libc" /\ Target(p) \in Paths
      BY <1>0, <1>1, ResolveType
      DEF LibcStep, LibcOpen, LibcCreate, LibcAttributes, LibcFails, LocalsOK, Target
    <2>1. CASE LibcOpen(p)
      BY <1>0, <2>0, <2>1, PrivateProgram DEF LibcOpen, Opened, TypeOK
    <2>2. ASSUME NEW i \in Inodes, LibcCreate(p, i) PROVE PrivateInv'
      BY <1>0, <2>0, <2>2, PrivateProgram, PathAssumption DEF LibcCreate, Opened, TypeOK
    <2>3. CASE LibcAttributes(p)
      BY <1>0, <2>3, PrivateFrame DEF LibcAttributes, Finish, TypeOK
    <2>4. CASE LibcFails(p)
      BY <1>0, <2>4, PrivateFrame DEF LibcFails, Refuse, Finish, TypeOK
    <2> QED BY <1>1, <2>1, <2>2, <2>3, <2>4 DEF LibcStep
  <1>2. ASSUME NEW p \in Procs, ProgramStep(p) PROVE PrivateInv'
    <2>1. ASSUME NEW r \in Requests, NEW n \in Paths, Call(p, r, n) PROVE PrivateInv'
      BY <1>0, <2>1, PrivateFrame DEF Call, TypeOK
    <2>2. ASSUME NEW r \in Requests, FdCall(p, r) PROVE PrivateInv'
      BY <2>2, PrivateFrame DEF FdCall
    <2>3. CASE Write(p)
      BY <2>3, PrivateFrame DEF Write
    <2>4. CASE Close(p)
      BY <1>0, <2>4, PrivateFrame DEF Close, Finish, TypeOK
    <2>5. ASSUME NEW n \in Paths, Unlink(p, n) PROVE PrivateInv'
      BY <1>0, <2>5, PrivateProgram, PathAssumption DEF Unlink, TypeOK
    <2>6. ASSUME NEW from \in Paths, NEW to \in Paths, Rename(p, from, to)
          PROVE  PrivateInv'
      BY <1>0, <2>6, PrivateProgram, PathAssumption DEF Rename, TypeOK
    <2> QED BY <1>2, <2>1, <2>2, <2>3, <2>4, <2>5, <2>6 DEF ProgramStep
  <1>3. ASSUME NEW t \in Temps, CpExits0(t) \/ CpFails(t) PROVE PrivateInv'
    <2>1. \E status \in {"exited0", "failed"} : CpEnds(t, status)
      BY <1>3 DEF CpExits0, CpFails
    <2>2. /\ cp[t] = "running" /\ UNCHANGED <<dir, outside, pc, fd, backup_file>>
          /\ \A u \in Temps \ {t} : cp'[u] = cp[u]
          /\ cp'[t] \in {"exited0", "failed"}
      BY <1>0, <2>1 DEF CpEnds, TypeOK
    <2> QED BY <1>0, <2>2 DEF PrivateInv, Secret, Bound, LocalsOK
  <1>4. ASSUME NEW i \in Inodes, OutsideUnlink(i) PROVE PrivateInv'
    BY <1>4, PrivateFrame DEF OutsideUnlink
  <1> QED BY <1>1, <1>2, <1>3, <1>4 DEF Next

\* A temporary file has one name, its call's or a dead call's, and no descriptor,
\* whatever becomes of the call that made it.
THEOREM TemporariesPrivate == Spec => []PrivateInv
  <1>1. TypeInv /\ PrivateInv /\ [Next]_vars => PrivateInv'
    <2>1. TypeInv /\ PrivateInv /\ Next => PrivateInv'
      BY CheckPrivate, OtherPrivate DEF Next
    <2>2. PrivateInv /\ UNCHANGED vars => PrivateInv'
      BY DEF vars, fsVars, callVars, cpVars, fdVars, PrivateInv, Secret, Bound
    <2> QED BY <2>1, <2>2
  <1> QED BY InitPrivate, TypesCorrect, <1>1, PTL DEF Spec

\* While a cp runs, waited for or not, no program sees the file it is writing.
THEOREM CopiesUnseen == Spec => []CopyUnseen
  <1>1. PrivateInv => CopyUnseen
    BY DEF PrivateInv, Secret, CopyUnseen
  <1> QED BY TemporariesPrivate, <1>1, PTL

----------------------------------------------------------------------------
(* Symbolic links.  lchown breaks the hard link of a symbolic link, so the *)
(* name is bound anew; what it is bound to is a copy of the link, and      *)
(* therefore a link again, because cp has ended before the rename.         *)

LinksInv ==
    /\ \A n \in LinkPaths : IsLink(n)
    /\ \A p \in Procs : /\ pc[p] = "waitpid"
                        /\ cp[backup_file[p]] = "running"
                        => cpSource[backup_file[p]] = canonical[p]
    /\ \A p \in Procs : /\ pc[p] \in {"waitpid", "rename"}
                        /\ cp[backup_file[p]] = "exited0"
                        /\ canonical[p] \in LinkPaths
                        => kind[dir[backup_file[p]]] = "lnk"

\* The tree cow-shell starts with.
LEMMA InitLinks == LinksStable /\ Init => LinksInv
  BY PathAssumption, InodeAssumption
  DEF Init, LinksInv, LinksStable, IsLink, Bound

\* Steps that leave links, bound temporary files and the cps alone.
LEMMA LinksFrame ==
  ASSUME TypeInv, PrivateInv, LinksInv, UNCHANGED cpVars,
         \A n \in LinkPaths : dir'[n] = dir[n],
         \A t \in Temps : Bound(t) => dir'[t] = dir[t],
         \A n \in Names : Bound(n) => kind'[dir[n]] = kind[dir[n]],
         \A p \in Procs : pc'[p] \in {"waitpid", "rename"} =>
            /\ pc'[p] = pc[p] /\ backup_file'[p] = backup_file[p]
            /\ canonical'[p] = canonical[p]
  PROVE  LinksInv'
  <1>1. \A n \in LinkPaths : IsLink(n)'
    BY PathAssumption DEF LinksInv, IsLink, Bound
  <1>2. \A p \in Procs : pc'[p] \in {"waitpid", "rename"} =>
          backup_file[p] \in Temps /\ Bound(backup_file[p])
    BY DEF TypeInv, LocalsOK, PrivateInv, Holding
  <1> QED BY <1>1, <1>2 DEF LinksInv, cpVars

\* Breaking a link replaces a file by a file and a symbolic link by one.
LEMMA CheckLinks ==
  ASSUME TypeInv, PrivateInv, LinksInv, NEW p \in Procs, CheckStep(p)
  PROVE  LinksInv'
  <1> USE DEF Goto, Forget, callVars, fdVars, cpVars, fsVars
  <1>0. TypeOK /\ LocalsOK
    BY DEF TypeInv
  <1>1. CASE LStat(p)
    BY <1>0, <1>1, LinksFrame DEF LStat, LookFails, Pass, Decide, TypeOK
  <1>2. CASE CanonicalizeFileName(p)
    BY <1>0, <1>2, LinksFrame DEF CanonicalizeFileName, LookFails, Pass, TypeOK
  <1>3. CASE Stat(p)
    BY <1>0, <1>3, LinksFrame DEF Stat, LookFails, Pass, Decide, TypeOK
  <1>4. ASSUME NEW t \in Temps, NEW i \in Inodes, Mkstemp(p, t, i)
        PROVE  LinksInv'
    BY <1>0, <1>4, LinksFrame, PathAssumption DEF Mkstemp, TempFor, Free, TypeOK
  <1>5. ASSUME Refuse(p), UNCHANGED cpVars PROVE LinksInv'
    BY <1>0, <1>5, LinksFrame DEF Refuse, Finish, TypeOK
  <1>6. CASE BlockSigchld(p)
    BY <1>0, <1>6, LinksFrame DEF BlockSigchld, TypeOK
  <1>7. CASE Fork(p)
    <2>1. \A q \in Procs : q # p /\ pc[q] \in Holding =>
            backup_file[q] # backup_file[p] /\ backup_file[q] \in Temps
      BY <1>0, <1>7 DEF Fork, PrivateInv, LocalsOK, Holding
    <2>2. backup_file[p] \in Temps
      BY <1>0, <1>7 DEF Fork, LocalsOK, Holding
    <2>3. /\ pc' = [pc EXCEPT ![p] = "waitpid"]
          /\ cp' = [cp EXCEPT ![backup_file[p]] = "running"]
          /\ cpSource' = [cpSource EXCEPT ![backup_file[p]] = canonical[p]]
          /\ UNCHANGED <<dir, kind, canonical, backup_file>>
      BY <1>7 DEF Fork, CpArgument
    <2>4. \A n \in LinkPaths : IsLink(n)'
      BY <2>3 DEF LinksInv, IsLink, Bound
    <2>5. \A q \in Procs : q # p /\ pc'[q] \in {"waitpid", "rename"} =>
            /\ pc'[q] = pc[q]
            /\ cp'[backup_file[q]] = cp[backup_file[q]]
            /\ cpSource'[backup_file[q]] = cpSource[backup_file[q]]
      BY <1>0, <2>1, <2>2, <2>3 DEF TypeOK, Holding
    <2>6. pc'[p] = "waitpid" /\ cp'[backup_file[p]] = "running"
                            /\ cpSource'[backup_file[p]] = canonical[p]
      BY <1>0, <2>2, <2>3 DEF TypeOK
    <2> QED BY <2>3, <2>4, <2>5, <2>6 DEF LinksInv
  <1>8. CASE WaitpidCopied(p)
    BY <1>0, <1>8 DEF WaitpidCopied, LinksInv, IsLink, Bound, TypeOK
  <1>9. CASE RenameOver(p)
    <2> DEFINE t == backup_file[p]
               c == canonical[p]
    <2>1. /\ t \in Temps /\ c \in Paths /\ t # c /\ Bound(t) /\ cp[t] = "exited0"
          /\ pc[p] = "rename"
      BY <1>0, <1>9, PathAssumption
      DEF RenameOver, LocalsOK, Found, Breaking, Holding, PrivateInv
    <2>2. /\ dir' = [dir EXCEPT ![c] = dir[t], ![t] = None]
          /\ pc' = [pc EXCEPT ![p] = "libc"]
          /\ backup_file' = [backup_file EXCEPT ![p] = None]
          /\ canonical' = [canonical EXCEPT ![p] = None]
          /\ UNCHANGED <<kind, cp, cpSource>>
      BY <1>9 DEF RenameOver, Pass
    <2>3. \A n \in LinkPaths : IsLink(n)'
      BY <1>0, <2>1, <2>2, PathAssumption DEF LinksInv, IsLink, Bound, TypeOK
    <2>4. \A q \in Procs : pc'[q] \in {"waitpid", "rename"} =>
            /\ pc'[q] = pc[q] /\ backup_file'[q] = backup_file[q]
            /\ canonical'[q] = canonical[q]
            /\ backup_file[q] \in Temps /\ backup_file[q] # t
      BY <1>0, <2>1, <2>2 DEF PrivateInv, LocalsOK, Holding, TypeOK
    <2>5. \A u \in Temps : u # t => dir'[u] = dir[u]
      BY <1>0, <2>1, <2>2, PathAssumption DEF TypeOK
    <2>6. \A q \in Procs : pc'[q] \in {"waitpid", "rename"} =>
            dir'[backup_file'[q]] = dir[backup_file[q]]
      BY <2>4, <2>5
    <2>7. UNCHANGED <<kind, cp, cpSource>>
      BY <2>2
    <2>8. \A q \in Procs : pc'[q] \in {"waitpid", "rename"} =>
            /\ pc'[q] = pc[q] /\ backup_file'[q] = backup_file[q]
            /\ canonical'[q] = canonical[q]
      BY <2>4
    <2> QED BY <2>3, <2>6, <2>7, <2>8 DEF LinksInv
  <1> QED BY <1>1, <1>2, <1>3, <1>4, <1>5, <1>6, <1>7, <1>8, <1>9
          DEF CheckStep, MkstempFails, BlockSigchldFails, ForkFails, WaitpidFailed,
              WaitpidError, RenameFails, ErrorSpm

\* libc, the programs, cp and the other tree.
LEMMA OtherLinks ==
  ASSUME LinksStable, TypeInv, PrivateInv, LinksInv, Next,
         ~\E p \in Procs : CheckStep(p)
  PROVE  LinksInv'
  <1> USE DEF Goto, Forget, callVars, fdVars, cpVars, fsVars
  <1>0. TypeOK /\ LocalsOK
    BY DEF TypeInv
  <1>1. ASSUME NEW p \in Procs, LibcStep(p) PROVE LinksInv'
    <2>1. CASE LibcOpen(p)
      BY <1>0, <2>1, LinksFrame DEF LibcOpen, Opened, TypeOK
    <2>2. ASSUME NEW i \in Inodes, LibcCreate(p, i) PROVE LinksInv'
      <3>1. Target(p) \in Paths /\ ~Bound(Target(p)) /\ Target(p) \notin LinkPaths
        BY <1>0, <2>2, ResolveType DEF LibcCreate, LocalsOK, Target, LinksInv, IsLink
      <3> QED BY <1>0, <2>2, <3>1, LinksFrame, PathAssumption
              DEF LibcCreate, Opened, Free, TypeOK
    <2>3. CASE LibcAttributes(p) \/ LibcFails(p)
      BY <1>0, <2>3, LinksFrame DEF LibcAttributes, LibcFails, Refuse, Finish, TypeOK
    <2> QED BY <1>1, <2>1, <2>2, <2>3 DEF LibcStep
  <1>2. ASSUME NEW p \in Procs, ProgramStep(p) PROVE LinksInv'
    <2>1. ASSUME NEW r \in Requests, NEW n \in Paths, Call(p, r, n) PROVE LinksInv'
      BY <1>0, <2>1, LinksFrame DEF Call, TypeOK
    <2>2. ASSUME NEW r \in Requests, FdCall(p, r) PROVE LinksInv'
      BY <2>2, LinksFrame DEF FdCall
    <2>3. CASE Write(p) \/ Close(p)
      BY <1>0, <2>3, LinksFrame DEF Write, Close, Finish, TypeOK
    <2>4. ASSUME NEW n \in Paths, Unlink(p, n) PROVE LinksInv'
      BY <1>0, <2>4, LinksFrame, PathAssumption DEF Unlink, LinksStable, TypeOK
    <2>5. ASSUME NEW from \in Paths, NEW to \in Paths, Rename(p, from, to)
          PROVE  LinksInv'
      BY <1>0, <2>5, LinksFrame, PathAssumption DEF Rename, TypeOK
    <2> QED BY <1>2, <2>1, <2>2, <2>3, <2>4, <2>5 DEF ProgramStep
  <1>3. ASSUME NEW t \in Temps, CpExits0(t) PROVE LinksInv'
    <2>1. /\ cp[t] = "running" /\ Secret(t) /\ Bound(t) /\ cpSource[t] \in Paths
          /\ cp' = [cp EXCEPT ![t] = "exited0"]
          /\ cpSource' = [cpSource EXCEPT ![t] = None]
          /\ kind' = [kind EXCEPT ![dir[t]] = kind[dir[cpSource[t]]]]
          /\ UNCHANGED <<dir, pc, backup_file, canonical>>
      BY <1>0, <1>3 DEF CpExits0, CpEnds, PrivateInv, LocalsOK
    <2>2. \A n \in Names : n # t /\ Bound(n) => kind'[dir[n]] = kind[dir[n]]
      BY <1>0, <2>1 DEF Secret, TypeOK, Bound
    <2>3. \A n \in LinkPaths : IsLink(n)'
      BY <2>1, <2>2, PathAssumption DEF LinksInv, IsLink, Bound
    <2>4. \A p \in Procs : pc[p] \in {"waitpid", "rename"} =>
            backup_file[p] \in Temps /\ Bound(backup_file[p])
      BY <1>0 DEF LocalsOK, PrivateInv, Holding
    <2>5. \A p \in Procs : pc[p] \in {"waitpid", "rename"} /\ backup_file[p] = t =>
            pc[p] = "waitpid" /\ cpSource[t] = canonical[p]
      BY <2>1 DEF PrivateInv, LinksInv
    <2>6. kind'[dir[t]] = kind[dir[cpSource[t]]]
      BY <1>0, <2>1 DEF TypeOK, Bound
    <2> QED BY <1>0, <2>1, <2>2, <2>3, <2>4, <2>5, <2>6 DEF LinksInv, IsLink, TypeOK
  <1>4. ASSUME NEW t \in Temps, CpFails(t) PROVE LinksInv'
    BY <1>0, <1>4 DEF CpFails, CpEnds, LinksInv, IsLink, Bound, LocalsOK, Holding, TypeOK
  <1>5. ASSUME NEW i \in Inodes, OutsideUnlink(i) PROVE LinksInv'
    BY <1>5, LinksFrame DEF OutsideUnlink
  <1> QED BY <1>1, <1>2, <1>3, <1>4, <1>5 DEF Next

----------------------------------------------------------------------------
(* Where a call ends.  As long as links stay links, a call has one target  *)
(* from beginning to end.                                                  *)

Canon(p) == IF FollowsLinks(req[p]) /\ s[p] \in LinkPaths
            THEN LinkTo[s[p]] ELSE s[p]

CanonInv == \A p \in Procs : pc[p] \in Found => canonical[p] = Canon(p)

\* Resolving the pathname of a call gives its target.
LEMMA OneTarget ==
  ASSUME LinksInv, NEW p \in Procs
  PROVE  /\ Target(p) = Canon(p)
         /\ ~(IsLink(s[p]) /\ FollowsLinks(req[p])) => s[p] = Canon(p)
  BY DEF LinksInv, Target, Resolve, Final, Canon

\* canonicalize_file_name gives a name.
LEMMA CanonType ==
  ASSUME TypeInv, NEW p \in Procs, pc[p] # "idle"
  PROVE  Canon(p) \in Paths
  BY PathAssumption DEF TypeInv, LocalsOK, Canon

----------------------------------------------------------------------------
(* The step of a process, as the others see it.                            *)

ProcStep(p) == CheckStep(p) \/ LibcStep(p) \/ ProgramStep(p)

\* The step of p leaves the others where they are in their calls.
Unmoved(p) == \A q \in Procs \ {p} :
    /\ pc'[q] = pc[q] /\ s'[q] = s[q] /\ req'[q] = req[q]
    /\ canonical'[q] = canonical[q] /\ backup_file'[q] = backup_file[q]
    /\ fd'[q] = fd[q] /\ writable'[q] = writable[q]

\* A process changes the local variables of its own call only.
LEMMA OthersUnmoved ==
  ASSUME TypeInv, NEW p \in Procs, ProcStep(p)
  PROVE  Unmoved(p)
  <1> USE DEF Goto, Forget, Unmoved, callVars, fdVars
  <1>0. TypeOK
    BY DEF TypeInv
  <1>1. CASE CheckStep(p)
    BY <1>0, <1>1
    DEF CheckStep, LStat, CanonicalizeFileName, Stat, LookFails, Decide, Pass, Mkstemp,
        MkstempFails, Refuse, Finish, BlockSigchld, BlockSigchldFails, Fork, ForkFails,
        WaitpidCopied, WaitpidFailed, WaitpidError, RenameOver, RenameFails, ErrorSpm,
        TypeOK
  <1>2. CASE LibcStep(p)
    BY <1>0, <1>2
    DEF LibcStep, LibcOpen, LibcCreate, LibcAttributes, LibcFails, Opened, Refuse, Finish,
        TypeOK
  <1>3. CASE ProgramStep(p)
    <2>1. CASE \E r \in Requests, n \in Paths : Call(p, r, n)
      BY <1>0, <2>1 DEF Call, TypeOK
    <2>2. CASE Close(p)
      BY <1>0, <2>2 DEF Close, Finish, TypeOK
    <2>3. CASE UNCHANGED <<pc, callVars, fdVars>>
      BY <2>3
    <2> QED BY <1>3, <2>1, <2>2, <2>3 DEF ProgramStep, FdCall, Write, Unlink, Rename
  <1> QED BY <1>1, <1>2, <1>3 DEF ProcStep

\* A process that the library has not looked at remains one for as long as its
\* call or its descriptor lasts.
LEMMA UnseenStays ==
  ASSUME TypeInv, NEW p \in Procs, ProcStep(p), NEW q \in unseen,
         q # p \/ (writable[p] /\ writable'[p])
  PROVE  q \in unseen'
  <1>0. TypeOK /\ LocalsOK
    BY DEF TypeInv
  <1>1. \/ unseen \subseteq unseen'
        \/ unseen' = unseen \ {p} /\ (pc[p] # "idle" \/ Close(p))
    BY DEF ProcStep, CheckStep, LStat, CanonicalizeFileName, Stat, LookFails, Mkstemp,
           MkstempFails, Refuse, Finish, BlockSigchld, BlockSigchldFails, Fork, ForkFails,
           WaitpidCopied, WaitpidFailed, WaitpidError, RenameOver, RenameFails, ErrorSpm,
           LibcStep, LibcOpen, LibcCreate, LibcAttributes, LibcFails, Opened, ProgramStep,
           Call, FdCall, Write, Close, Unlink, Rename, ghostVars
  <1>2. Close(p) => ~writable'[p]
    BY <1>0 DEF Close, TypeOK
  <1>3. writable[p] => pc[p] = "idle"
    BY <1>0 DEF LocalsOK
  <1> QED BY <1>1, <1>2, <1>3

\* Found by the check is the target of the call.
LEMMA CanonStep ==
  ASSUME TypeInv, LinksInv, CanonInv, NEW p \in Procs, ProcStep(p)
  PROVE  CanonInv'
  <1> USE DEF Goto, Forget, callVars, Found, Breaking, Holding
  <1>0. TypeOK /\ Unmoved(p) /\ Target(p) = Canon(p)
    BY OthersUnmoved, OneTarget DEF TypeInv
  <1>1. pc'[p] \in Found => /\ s'[p] = s[p] /\ req'[p] = req[p]
                            /\ canonical'[p] = Canon(p)
    <2>1. CASE LStat(p)
      BY <1>0, <2>1, OneTarget DEF LStat, LookFails, Pass, Decide, TypeOK
    <2>2. CASE CanonicalizeFileName(p)
      BY <1>0, <2>2 DEF CanonicalizeFileName, LookFails, Pass, TypeOK
    <2>3. CASE Stat(p)
      BY <1>0, <2>3 DEF Stat, LookFails, Pass, Decide, CanonInv, TypeOK
    <2>4. CASE RenameOver(p)
      BY <1>0, <2>4 DEF RenameOver, Pass, TypeOK
    <2>5. ASSUME Refuse(p) PROVE pc'[p] \notin Found
      BY <1>0, <2>5 DEF Refuse, Finish, TypeOK
    <2>6. CASE CheckStep(p)
      BY <1>0, <2>1, <2>2, <2>3, <2>4, <2>5, <2>6
      DEF CheckStep, Mkstemp, MkstempFails, BlockSigchld, BlockSigchldFails, Fork,
          ForkFails, WaitpidCopied, WaitpidFailed, WaitpidError, RenameFails, ErrorSpm,
          CanonInv, TypeOK
    <2>7. CASE LibcStep(p)
      BY <1>0, <2>7
      DEF LibcStep, LibcOpen, LibcCreate, LibcAttributes, LibcFails, Opened, Refuse, Finish,
          TypeOK
    <2>8. CASE ProgramStep(p)
      <3>1. CASE \E r \in Requests, n \in Paths : Call(p, r, n)
        BY <1>0, <3>1 DEF Call, TypeOK
      <3>2. pc[p] = "idle"
        BY <2>8 DEF ProgramStep, Call, CanCall, FdCall, Write, Close, Unlink, Rename
      <3>3. CASE Close(p)
        BY <1>0, <3>3 DEF Close, Finish, TypeOK
      <3>4. CASE pc' = pc
        BY <3>2, <3>4
      <3> QED BY <2>8, <3>1, <3>3, <3>4 DEF ProgramStep, FdCall, Write, Unlink, Rename
    <2> QED BY <2>6, <2>7, <2>8 DEF ProcStep
  <1>2. \A q \in Procs : pc'[q] \in Found => canonical'[q] = Canon(q)'
    BY <1>0, <1>1 DEF Unmoved, CanonInv, Canon
  <1> QED BY <1>2 DEF CanonInv

----------------------------------------------------------------------------
(* Names.  No step gives an inode a second name in the tree of the session *)
(* that had none: a name is bound to a new file, unbound, or takes over    *)
(* the inode of another.  So an inode that need not be copied never will,  *)
(* and a name comes to lead to one that must only if a program moves it    *)
(* there, past whoever is about to enter libc.                             *)

Placed(n, i) == Free(i) /\ ~Bound(n) /\ dir' = [dir EXCEPT ![n] = i]
Moved(f, n) == /\ f # n /\ Bound(f)
               /\ dir' = [dir EXCEPT ![n] = dir[f], ![f] = None]
               /\ MustCopy(dir[f]) =>
                    \A q \in Procs : pc[q] = "libc" /\ Target(q) = n => q \in unseen'

DirStep ==
    /\ outside' \subseteq outside
    /\ \/ dir' = dir
       \/ \E n \in Names, i \in Inodes : Placed(n, i)
       \/ \E n \in Names : dir' = [dir EXCEPT ![n] = None]
       \/ \E f, n \in Names : Moved(f, n)

\* An inode with two names is one of the tree that the session started with.
TwinsInv == \A m, n \in Names :
               m # n /\ Bound(m) /\ dir[m] = dir[n] => dir[m] \in Ilist

\* What MustCopy says of i after the step.
NowCopied(i) ==
    /\ i \in Ilist
    /\ i \in outside' \/ \E m, n \in Names : m # n /\ dir'[m] = i /\ dir'[n] = i
InUse(i) == \/ \E n \in Names : dir[n] = i
            \/ \E p \in Procs : fd[p] = i

\* Every step changes the names in one of these ways.
LEMMA NamesStep ==
  ASSUME TypeInv, PrivateInv, Next
  PROVE  DirStep
  <1>0. TypeOK /\ LocalsOK
    BY DEF TypeInv
  <1>1. ASSUME NEW p \in Procs, CheckStep(p)
        PROVE  DirStep
    <2>1. ASSUME NEW t \in Temps, NEW i \in Inodes, Mkstemp(p, t, i)
          PROVE  DirStep
      BY <2>1 DEF Mkstemp, TempFor, DirStep, Placed
    <2>2. CASE RenameOver(p)
      <3>1. /\ backup_file[p] \in Temps /\ Bound(backup_file[p])
            /\ Secret(backup_file[p]) /\ canonical[p] \in Paths
        BY <1>0, <2>2
        DEF RenameOver, LocalsOK, Holding, PrivateInv, Found, Breaking
      <3>2. ~MustCopy(dir[backup_file[p]]) /\ backup_file[p] # canonical[p]
        BY <3>1, PathAssumption DEF MustCopy, Hardlinked, Secret
      <3> QED BY <2>2, <3>1, <3>2 DEF RenameOver, DirStep, Moved
    <2>3. CASE UNCHANGED <<dir, outside>>
      BY <2>3 DEF DirStep
    <2> QED BY <1>1, <2>1, <2>2, <2>3
            DEF CheckStep, LStat, CanonicalizeFileName, Stat, MkstempFails, Refuse,
                BlockSigchld, BlockSigchldFails, Fork, ForkFails, WaitpidCopied,
                WaitpidFailed, WaitpidError, RenameFails, ErrorSpm, fsVars
  <1>2. ASSUME NEW p \in Procs, LibcStep(p)
        PROVE  DirStep
    <2>1. ASSUME NEW i \in Inodes, LibcCreate(p, i)
          PROVE  DirStep
      <3>1. Target(p) \in Names /\ outside' = outside
        BY <1>0, <2>1, ResolveType DEF LibcCreate, LocalsOK, Target, Opened
      <3> QED BY <2>1, <3>1 DEF LibcCreate, DirStep, Placed
    <2> QED BY <1>2, <2>1
            DEF LibcStep, LibcOpen, LibcAttributes, LibcFails, Opened, Refuse, fsVars,
                DirStep
  <1>3. ASSUME NEW p \in Procs, ProgramStep(p)
        PROVE  DirStep
    <2>1. ASSUME NEW n \in Paths, Unlink(p, n)
          PROVE  DirStep
      BY <2>1 DEF Unlink, DirStep
    <2>2. ASSUME NEW from \in Paths, NEW to \in Paths, Rename(p, from, to)
          PROVE  DirStep
      BY <2>2 DEF Rename, Sidestepped, DirStep, Moved
    <2> QED BY <1>3, <2>1, <2>2
            DEF ProgramStep, Call, FdCall, Write, Close, fsVars, DirStep
  <1>4. ASSUME NEW t \in Temps, CpExits0(t) \/ CpFails(t)
        PROVE  DirStep
    BY <1>4 DEF CpExits0, CpFails, CpEnds, DirStep
  <1>5. ASSUME NEW i \in Inodes, OutsideUnlink(i)
        PROVE  DirStep
    BY <1>5 DEF OutsideUnlink, DirStep
  <1> QED BY <1>1, <1>2, <1>3, <1>4, <1>5 DEF Next

\* None of these ways makes a second name of an inode that had one.
LEMMA TwinsBefore ==
  ASSUME TypeOK, DirStep, NEW m \in Names, NEW n \in Names, m # n,
         dir'[m] # None, dir'[m] = dir'[n]
  PROVE  \E k, l \in Names : k # l /\ dir[k] = dir'[m] /\ dir[l] = dir'[m]
  <1>1. CASE dir' = dir
    BY <1>1
  <1>2. ASSUME NEW k \in Names, NEW i \in Inodes, Placed(k, i)
        PROVE  dir[m] = dir'[m] /\ dir[n] = dir'[m]
    BY <1>2 DEF Placed, Free, TypeOK
  <1>3. ASSUME NEW k \in Names, dir' = [dir EXCEPT ![k] = None]
        PROVE  dir[m] = dir'[m] /\ dir[n] = dir'[m]
    BY <1>3 DEF TypeOK
  <1>4. ASSUME NEW f \in Names, NEW k \in Names, Moved(f, k)
        PROVE  \E x, y \in Names : x # y /\ dir[x] = dir'[m] /\ dir[y] = dir'[m]
    <2>1. \A x \in Names : dir'[x] = IF x = f THEN None
                                     ELSE IF x = k THEN dir[f] ELSE dir[x]
      BY <1>4 DEF Moved, TypeOK
    <2>2. m # f /\ n # f
      BY <2>1
    <2> QED BY <2>1, <2>2
  <1> QED BY <1>1, <1>2, <1>3, <1>4 DEF DirStep

\* So whatever has two names is listed.
LEMMA TwinsKept ==
  ASSUME TypeOK, TwinsInv, DirStep
  PROVE  TwinsInv'
  <1> SUFFICES ASSUME NEW m \in Names, NEW n \in Names, m # n, dir'[m] # None,
                      dir'[m] = dir'[n]
               PROVE  dir'[m] \in Ilist
    BY DEF TwinsInv, Bound
  <1>1. PICK k \in Names, l \in Names : k # l /\ dir[k] = dir'[m] /\ dir[l] = dir'[m]
    BY TwinsBefore
  <1> QED BY <1>1 DEF TwinsInv, Bound

\* An inode that is used and need not be copied stays so.
LEMMA UsedStaysClear ==
  ASSUME TypeOK, DirStep, NEW i, ~MustCopy(i)
  PROVE  ~NowCopied(i)
  <1> SUFFICES ASSUME i \in Ilist, i \notin outside',
                      NEW m \in Names, NEW n \in Names, m # n,
                      dir'[m] = i, dir'[n] = i
               PROVE  Hardlinked(i)
    BY DEF NowCopied, MustCopy, Hardlinked, DirStep
  <1>1. i # None
    BY InodeAssumption
  <1> QED BY <1>1, TwinsBefore DEF Hardlinked

\* A name that leads to no inode that must be copied comes to one only under
\* the eyes of nobody.
LEMMA NameStaysClear ==
  ASSUME TypeOK, DirStep, NEW n \in Names, ~MustCopy(dir[n]), NowCopied(dir'[n])
  PROVE  \A q \in Procs : pc[q] = "libc" /\ Target(q) = n => q \in unseen'
  <1>1. dir'[n] \in Ilist /\ dir'[n] # None
    BY InodeAssumption DEF NowCopied
  <1>2. dir'[n] # dir[n]
    BY UsedStaysClear
  <1>3. ASSUME NEW k \in Names, NEW i \in Inodes, Placed(k, i)
        PROVE  FALSE
    <2>1. k = n /\ dir'[n] = i
      BY <1>2, <1>3 DEF Placed, TypeOK
    <2>2. ~MustCopy(i)
      BY <1>3 DEF Placed, Free, MustCopy, Hardlinked
    <2> QED BY <2>1, <2>2, UsedStaysClear
  <1>4. ASSUME NEW k \in Names, dir' = [dir EXCEPT ![k] = None]
        PROVE  FALSE
    BY <1>1, <1>2, <1>4 DEF TypeOK
  <1>5. ASSUME NEW f \in Names, NEW k \in Names, Moved(f, k)
        PROVE  \A q \in Procs : pc[q] = "libc" /\ Target(q) = n => q \in unseen'
    <2>1. k = n /\ dir'[n] = dir[f]
      BY <1>1, <1>2, <1>5 DEF Moved, TypeOK
    <2>2. MustCopy(dir[f])
      BY <2>1, UsedStaysClear
    <2> QED BY <1>5, <2>1, <2>2 DEF Moved
  <1> QED BY <1>2, <1>3, <1>4, <1>5 DEF DirStep

----------------------------------------------------------------------------
(* Harmless targets.  Nobody would be sent to copy what a watched call     *)
(* comes to, or what it has opened for writing: neither the other tree nor *)
(* a second name here leads to it.                                         *)

Watched(p) == p \in Seen /\ Modifies(req[p])

ClearInv ==
    /\ \A p \in Procs : pc[p] = "libc" /\ Watched(p) => ~MustCopy(dir[Canon(p)])
    /\ \A p \in Seen : writable[p] => ~MustCopy(fd[p])

\* What the others have found stays harmless.
LEMMA ClearOthers ==
  ASSUME TypeInv, LinksInv, DirStep, ClearInv, NEW p \in Procs, ProcStep(p),
         pc'[p] = "libc" /\ Watched(p)' => ~NowCopied(dir'[Canon(p)']),
         p \in Seen' /\ writable'[p] => ~NowCopied(fd'[p])
  PROVE  ClearInv'
  <1>0. TypeOK /\ Unmoved(p)
    BY OthersUnmoved DEF TypeInv
  <1>1. ASSUME NEW q \in Procs, pc'[q] = "libc", Watched(q)'
        PROVE  ~NowCopied(dir'[Canon(q)'])
    <2>1. CASE q = p
      BY <1>1, <2>1
    <2>2. CASE q # p
      <3>1. pc[q] = "libc" /\ Watched(q) /\ Canon(q)' = Canon(q) /\ q \notin unseen'
        BY <1>0, <1>1, <2>2, UnseenStays DEF Unmoved, Watched, Seen, Canon
      <3>2. Canon(q) \in Names /\ ~MustCopy(dir[Canon(q)]) /\ Target(q) = Canon(q)
        BY <3>1, CanonType, OneTarget DEF ClearInv
      <3> QED BY <1>0, <3>1, <3>2, NameStaysClear
    <2> QED BY <2>1, <2>2
  <1>2. ASSUME NEW q \in Seen', writable'[q]
        PROVE  ~NowCopied(fd'[q])
    <2>1. CASE q = p
      BY <1>2, <2>1
    <2>2. CASE q # p
      <3>1. fd'[q] = fd[q] /\ ~MustCopy(fd[q])
        BY <1>0, <1>2, <2>2, UnseenStays DEF Unmoved, ClearInv, Seen
      <3> QED BY <1>0, <3>1, UsedStaysClear
    <2> QED BY <2>1, <2>2
  <1> QED BY <1>1, <1>2 DEF ClearInv, NowCopied, MustCopy, Hardlinked

\* A descriptor that is kept is harmless still.
LEMMA FdStaysClear ==
  ASSUME TypeInv, DirStep, ClearInv, NEW p \in Seen', ProcStep(p),
         writable[p], writable'[p], fd'[p] = fd[p]
  PROVE  ~NowCopied(fd'[p])
  <1>1. p \in Seen
    BY UnseenStays DEF Seen
  <1> QED BY <1>1, UsedStaysClear DEF ClearInv, TypeInv

\* The check lets a call pass when its target is harmless, or unseen.
LEMMA CheckClear ==
  ASSUME TypeInv, PrivateInv, LinksInv, CanonInv, ClearInv, DirStep,
         NEW p \in Procs, CheckStep(p)
  PROVE  ClearInv'
  <1> USE DEF Goto, Forget, callVars, fdVars, fsVars
  <1>0. TypeOK /\ LocalsOK /\ ProcStep(p) /\ None \notin Ilist
    BY InodeAssumption DEF TypeInv, ProcStep
  <1>1. fd'[p] = fd[p] /\ writable'[p] = writable[p]
    BY DEF CheckStep, LStat, CanonicalizeFileName, Stat, Mkstemp, MkstempFails, Refuse,
           BlockSigchld, BlockSigchldFails, Fork, ForkFails, WaitpidCopied, WaitpidFailed,
           WaitpidError, RenameOver, RenameFails, ErrorSpm
  <1>2. p \in Seen' /\ writable'[p] => ~NowCopied(fd'[p])
    BY <1>0, <1>1, FdStaysClear
  <1>3. pc[p] # "idle" /\ (pc'[p] = "libc" => s'[p] = s[p] /\ req'[p] = req[p])
    BY <1>0 DEF CheckStep, LStat, CanonicalizeFileName, Stat, Mkstemp, MkstempFails,
           Refuse, Finish, BlockSigchld, BlockSigchldFails, Fork, ForkFails,
           WaitpidCopied, WaitpidFailed, WaitpidError, RenameOver, RenameFails, ErrorSpm,
           TypeOK
  <1>4. pc'[p] = "libc" => Canon(p)' = Canon(p)
    BY <1>3 DEF Canon
  <1>5. Canon(p) \in Paths /\ Target(p) = Canon(p)
    BY <1>3, CanonType, OneTarget
  <1>6. ASSUME LookFails(p), dir' = dir, Watched(p)' PROVE ~NowCopied(dir'[Canon(p)])
    <2>1. ~Bound(Canon(p))
      BY <1>5, <1>6 DEF LookFails, Watched, Seen
    <2> QED BY <1>0, <1>6, <2>1 DEF Bound, NowCopied
  <1>7. ASSUME Decide(p, Canon(p)), dir' = dir, pc'[p] = "libc"
        PROVE  ~NowCopied(dir'[Canon(p)])
    <2>1. ~MustCopy(dir[Canon(p)])
      BY <1>0, <1>7 DEF Decide, TypeOK
    <2> QED BY <1>0, <1>7, <2>1, UsedStaysClear
  <1>8. ASSUME pc'[p] = "libc", Watched(p)' PROVE ~NowCopied(dir'[Canon(p)])
    <2>1. CASE LStat(p)
      BY <1>0, <1>6, <1>7, <1>8, <2>1, OneTarget DEF LStat, TypeOK
    <2>2. CASE CanonicalizeFileName(p)
      BY <1>0, <1>6, <1>8, <2>2 DEF CanonicalizeFileName, TypeOK
    <2>3. CASE Stat(p)
      <3>1. canonical[p] = Canon(p)
        BY <2>3 DEF Stat, CanonInv, Found
      <3> QED BY <1>6, <1>7, <1>8, <2>3, <3>1 DEF Stat
    <2>4. CASE RenameOver(p)
      <3>1. /\ backup_file[p] \in Temps /\ Secret(backup_file[p])
            /\ canonical[p] = Canon(p)
        BY <1>0, <2>4
        DEF RenameOver, LocalsOK, PrivateInv, CanonInv, Found, Breaking, Holding
      <3>2. backup_file[p] # Canon(p) /\ ~MustCopy(dir[backup_file[p]])
        BY <1>5, <3>1, PathAssumption DEF MustCopy, Hardlinked, Secret
      <3>3. dir'[Canon(p)] = dir[backup_file[p]]
        BY <1>0, <1>5, <2>4, <3>1, <3>2 DEF RenameOver, TypeOK
      <3> QED BY <1>0, <3>2, <3>3, UsedStaysClear
    <2> QED BY <1>0, <1>8, <2>1, <2>2, <2>3, <2>4
            DEF CheckStep, Mkstemp, MkstempFails, Refuse, Finish, BlockSigchld,
                BlockSigchldFails, Fork, ForkFails, WaitpidCopied, WaitpidFailed,
                WaitpidError, RenameFails, ErrorSpm, TypeOK
  <1>9. pc'[p] = "libc" /\ Watched(p)' => ~NowCopied(dir'[Canon(p)'])
    BY <1>4, <1>8
  <1> QED BY <1>0, <1>2, <1>9, ClearOthers

\* What libc opens for a watched call is its harmless target, or a new file.
LEMMA LibcClear ==
  ASSUME TypeInv, LinksInv, ClearInv, DirStep, NEW p \in Procs, LibcStep(p)
  PROVE  ClearInv'
  <1> USE DEF Goto, Forget, fdVars, fsVars
  <1>0. /\ TypeOK /\ LocalsOK /\ ProcStep(p) /\ pc[p] = "libc" /\ None \notin Ilist
        /\ Target(p) = Canon(p) /\ fd[p] = None /\ ~writable[p]
    BY OneTarget, InodeAssumption
    DEF TypeInv, LocalsOK, ProcStep, LibcStep, LibcOpen, LibcCreate, LibcAttributes, LibcFails
  <1>1. Canon(p) \in Paths
    BY <1>0, CanonType
  <1>2. pc'[p] # "libc"
    BY <1>0 DEF LibcStep, LibcOpen, LibcCreate, LibcAttributes, LibcFails, Opened,
                Refuse, Finish, TypeOK
  <1>3. ASSUME p \in Seen', writable'[p] PROVE ~NowCopied(fd'[p])
    <2>1. CASE LibcOpen(p)
      <3>1. Watched(p) /\ dir' = dir /\ fd'[p] = dir[Canon(p)]
        BY <1>0, <1>3, <2>1 DEF LibcOpen, Opened, Watched, Seen, Modifies, TypeOK
      <3>2. ~MustCopy(dir[Canon(p)])
        BY <1>0, <3>1 DEF ClearInv
      <3> QED BY <1>0, <3>1, <3>2, UsedStaysClear
    <2>2. ASSUME NEW i \in Inodes, LibcCreate(p, i) PROVE ~NowCopied(fd'[p])
      <3>1. ~MustCopy(i) /\ fd'[p] = i
        BY <1>0, <2>2 DEF LibcCreate, Opened, Free, MustCopy, Hardlinked, TypeOK
      <3> QED BY <1>0, <3>1, UsedStaysClear
    <2>3. CASE LibcAttributes(p) \/ LibcFails(p)
      BY <1>0, <1>3, <2>3 DEF LibcAttributes, LibcFails, Refuse
    <2> QED BY <1>0, <2>1, <2>2, <2>3 DEF LibcStep
  <1> QED BY <1>0, <1>2, <1>3, ClearOthers

\* Programs, cp and the other tree open nothing.
LEMMA OtherClear ==
  ASSUME RequestsCovered, TypeInv, LinksInv, ClearInv, DirStep, Next,
         ~\E p \in Procs : CheckStep(p) \/ LibcStep(p)
  PROVE  ClearInv'
  <1> USE DEF Goto, Forget, fdVars, fsVars, callVars
  <1>0. TypeOK
    BY DEF TypeInv
  <1>1. ASSUME NEW p \in Procs, ProgramStep(p)
        PROVE  ClearInv'
    <2>1. ProcStep(p)
      BY <1>1 DEF ProcStep
    <2>2. writable'[p] => writable[p] /\ fd'[p] = fd[p]
      BY <1>0, <1>1
      DEF ProgramStep, Call, FdCall, Write, Close, Unlink, Rename, TypeOK
    <2>3. p \in Seen' /\ writable'[p] => ~NowCopied(fd'[p])
      BY <2>1, <2>2, FdStaysClear
    <2>4. ASSUME pc'[p] = "libc" PROVE ~Watched(p)'
      <3>1. ASSUME NEW r \in Requests, NEW n \in Paths, Call(p, r, n)
            PROVE  ~Watched(p)'
        BY <1>0, <2>4, <3>1 DEF Call, Checked, RequestsCovered, Watched, Seen, TypeOK
      <3>2. CASE pc[p] = "idle" /\ pc' = pc
        BY <2>4, <3>2
      <3>3. CASE Close(p)
        BY <1>0, <2>4, <3>3 DEF Close, Finish, TypeOK
      <3> QED BY <1>1, <3>1, <3>2, <3>3 DEF ProgramStep, FdCall, Write, Unlink, Rename
    <2> QED BY <2>1, <2>3, <2>4, ClearOthers
  <1>2. ASSUME UNCHANGED <<dir, pc, callVars, fdVars, ghostVars>>
        PROVE  ClearInv'
    <2>1. \A i : ~MustCopy(i) => ~NowCopied(i)
      BY <1>0, UsedStaysClear
    <2> QED BY <1>2, <2>1 DEF ClearInv, Watched, Seen, Canon, NowCopied, MustCopy,
                              Hardlinked, ghostVars
  <1>3. ASSUME NEW t \in Temps, CpExits0(t) \/ CpFails(t) PROVE ClearInv'
    BY <1>2, <1>3 DEF CpExits0, CpFails, CpEnds
  <1>4. ASSUME NEW i \in Inodes, OutsideUnlink(i) PROVE ClearInv'
    BY <1>2, <1>4 DEF OutsideUnlink
  <1> QED BY <1>1, <1>3, <1>4 DEF Next

----------------------------------------------------------------------------
(* What is written, and by whom.                                           *)

\* What a step of q may write to under the eyes of the library: a new file, the
\* target of its call, or the file it has open for writing.
WritesTo(q, i) == \/ Free(i)
                  \/ pc[q] = "libc" /\ Watched(q) /\ i = dir[Canon(q)]
                  \/ q \in Seen /\ writable[q] /\ i = fd[q]

\* Elsewhere only processes add their work that nobody watches.
LEMMA WritesNowhereElse ==
  ASSUME RequestsCovered, TypeInv, LinksInv, NEW q \in Procs, ProcStep(q),
         NEW i \in Inodes, ~WritesTo(q, i)
  PROVE  /\ kind'[i] = kind[i]
         /\ data'[i] = data[i] \/ \E a \in Ignoring \cup {None} : data'[i] = data[i] \cup {a}
  <1>0. TypeOK /\ Target(q) = Canon(q)
    BY OneTarget DEF TypeInv
  <1>1. q \notin Seen => Author(q) \in Ignoring \cup {None}
    BY DEF Author, Seen
  <1>2. ASSUME NEW j, Change(j, q), kind' = kind,
               q \in Seen /\ j = i => WritesTo(q, i)
        PROVE  /\ kind'[i] = kind[i]
               /\ data'[i] = data[i] \/ \E a \in Ignoring \cup {None} :
                                           data'[i] = data[i] \cup {a}
    <2>1. j # i => data'[i] = data[i]
      BY <1>0, <1>2 DEF Change, TypeOK
    <2>2. j = i => data'[i] = data[i] \cup {Author(q)} /\ q \notin Seen
      BY <1>0, <1>2 DEF Change, TypeOK
    <2> QED BY <1>1, <1>2, <2>1, <2>2
  <1>3. CASE CheckStep(q)
    <2>1. CASE \E t \in Temps, j \in Inodes : Mkstemp(q, t, j)
      BY <1>0, <2>1 DEF Mkstemp, WritesTo, TypeOK
    <2>2. CASE UNCHANGED <<data, kind>>
      BY <2>2
    <2> QED BY <1>3, <2>1, <2>2
            DEF CheckStep, LStat, CanonicalizeFileName, Stat, MkstempFails, Refuse,
                BlockSigchld, BlockSigchldFails, Fork, ForkFails, WaitpidCopied,
                WaitpidFailed, WaitpidError, RenameOver, RenameFails, ErrorSpm, fsVars
  <1>4. CASE LibcStep(q)
    <2>1. CASE LibcOpen(q)
      BY <1>0, <1>2, <2>1 DEF LibcOpen, WritesTo, Watched, Modifies
    <2>2. CASE LibcAttributes(q)
      BY <1>0, <1>2, <2>2 DEF LibcAttributes, WritesTo, Watched, Modifies
    <2>3. CASE \E j \in Inodes : LibcCreate(q, j)
      BY <1>0, <2>3 DEF LibcCreate, WritesTo, TypeOK
    <2> QED BY <1>4, <2>1, <2>2, <2>3 DEF LibcStep, LibcFails, Refuse, fsVars
  <1>5. CASE ProgramStep(q)
    <2>1. CASE Write(q) \/ \E r \in Requests : FdCall(q, r)
      <3>1. writable[q] /\ Change(fd[q], q) /\ kind' = kind
        BY <2>1 DEF Write, FdCall, RequestsCovered
      <3> QED BY <1>2, <3>1 DEF WritesTo
    <2>2. CASE UNCHANGED <<data, kind>>
      BY <2>2
    <2> QED BY <1>5, <2>1, <2>2 DEF ProgramStep, Call, Close, Unlink, Rename, fsVars
  <1> QED BY <1>3, <1>4, <1>5 DEF ProcStep

----------------------------------------------------------------------------
(* The originals.  Who is watched writes to harmless files only.           *)

\* Steps in which no process writes.
LEMMA OriginalsFrame ==
  ASSUME OriginalsIntact, outside' \subseteq outside,
         \A i \in outside' : data'[i] = data[i]
  PROVE  OriginalsIntact'
  BY DEF OriginalsIntact

\* No step changes an original, but for what nobody watches.
LEMMA OriginalsStep ==
  ASSUME RequestsCovered, TypeInv, PrivateInv, LinksInv, ClearInv, DirStep, OriginalsIntact,
         Next
  PROVE  OriginalsIntact'
  <1>0. TypeOK /\ outside' \subseteq outside /\ outside \subseteq Ilist
        /\ Ilist \subseteq Inodes /\ None \notin Inodes
    BY InodeAssumption DEF TypeInv, TypeOK, DirStep
  <1>1. ASSUME NEW q \in Procs, ProcStep(q) PROVE OriginalsIntact'
    <2> SUFFICES ASSUME NEW i \in outside' PROVE data'[i] \subseteq Ignoring \cup {None}
      BY DEF OriginalsIntact
    <2>1. i \in outside /\ i \in Inodes /\ MustCopy(i) /\ ~Free(i)
      BY <1>0 DEF MustCopy, Hardlinked, Free
    <2>2. ~WritesTo(q, i)
      BY <2>1 DEF WritesTo, ClearInv
    <2>3. data[i] \subseteq Ignoring \cup {None}
      BY <2>1 DEF OriginalsIntact
    <2> QED BY <1>1, <2>1, <2>2, <2>3, WritesNowhereElse
  <1>2. ASSUME NEW t \in Temps, CpExits0(t) \/ CpFails(t) PROVE OriginalsIntact'
    <2>1. dir[t] \notin outside
      BY <1>2 DEF CpExits0, CpFails, CpEnds, PrivateInv, Secret
    <2>2. \A i \in outside' : data'[i] = data[i]
      BY <1>0, <1>2, <2>1 DEF CpExits0, CpFails, TypeOK
    <2> QED BY <1>0, <2>2, OriginalsFrame
  <1>3. ASSUME NEW i \in Inodes, OutsideUnlink(i) PROVE OriginalsIntact'
    BY <1>0, <1>3, OriginalsFrame DEF OutsideUnlink
  <1> QED BY <1>1, <1>2, <1>3 DEF Next, ProcStep

\* What is found so far holds at first, and in every state.
TargetInv == LinksInv /\ CanonInv /\ TwinsInv /\ ClearInv /\ OriginalsIntact

\* It holds at first.
LEMMA InitTargets == LinksStable /\ Init => TargetInv
  <1> SUFFICES ASSUME LinksStable, Init PROVE TargetInv
    OBVIOUS
  <1>1. LinksInv
    BY InitLinks
  <1>2. CanonInv /\ ClearInv
    BY DEF Init, CanonInv, ClearInv, Seen, Found, Breaking, Holding
  <1>3. TwinsInv
    BY PathAssumption, InodeAssumption DEF Init, TwinsInv, Bound
  <1>4. OriginalsIntact
    BY InodeAssumption DEF Init, OriginalsIntact
  <1> QED BY <1>1, <1>2, <1>3, <1>4 DEF TargetInv

\* Links stay links, a call has one target, no second names are made, who is
\* watched comes to harmless files, and the originals are out of reach.
LEMMA TargetInvCorrect ==
  ASSUME LinksStable, RequestsCovered
  PROVE  Spec => []TargetInv
  <1>1. TypeInv /\ PrivateInv /\ TargetInv /\ Next => TargetInv'
    <2> SUFFICES ASSUME TypeInv, PrivateInv, TargetInv, Next PROVE TargetInv'
      OBVIOUS
    <2>1. LinksInv /\ CanonInv /\ TwinsInv /\ ClearInv /\ OriginalsIntact /\ TypeOK
      BY DEF TargetInv, TypeInv
    <2>2. LinksInv'
      BY <2>1, CheckLinks, OtherLinks
    <2>3. DirStep /\ TwinsInv'
      BY <2>1, NamesStep, TwinsKept
    <2>4. CanonInv'
      <3>1. ASSUME UNCHANGED <<pc, callVars>> PROVE CanonInv'
        BY <2>1, <3>1 DEF CanonInv, Canon, callVars
      <3>2. ASSUME NEW t \in Temps, CpExits0(t) \/ CpFails(t) PROVE CanonInv'
        BY <3>1, <3>2 DEF CpExits0, CpFails, CpEnds
      <3>3. ASSUME NEW i \in Inodes, OutsideUnlink(i) PROVE CanonInv'
        BY <3>1, <3>3 DEF OutsideUnlink
      <3> QED BY <2>1, <3>2, <3>3, CanonStep DEF Next, ProcStep
    <2>5. ClearInv'
      BY <2>1, <2>3, CheckClear, LibcClear, OtherClear
    <2>6. OriginalsIntact'
      BY <2>1, <2>3, OriginalsStep
    <2> QED BY <2>2, <2>3, <2>4, <2>5, <2>6 DEF TargetInv
  <1>2. TargetInv /\ UNCHANGED vars => TargetInv'
    <2> SUFFICES ASSUME TargetInv, UNCHANGED vars PROVE TargetInv'
      OBVIOUS
    <2> USE DEF TargetInv, vars, fsVars, callVars, cpVars, fdVars, ghostVars
    <2>1. LinksInv'
      BY DEF LinksInv, IsLink, Bound
    <2>2. CanonInv' /\ TwinsInv' /\ OriginalsIntact'
      BY DEF CanonInv, Canon, TwinsInv, Bound, OriginalsIntact
    <2>3. ClearInv'
      BY DEF ClearInv, Watched, Seen, Canon, MustCopy, Hardlinked
    <2> QED BY <2>1, <2>2, <2>3
  <1> QED BY InitTargets, TypesCorrect, TemporariesPrivate, <1>1, <1>2, PTL DEF Spec

\* The promise of cow-shell, for any number of processes, names and calls: while
\* links stay links, and the library sees the calls that modify, no program it
\* watches and has looked at changes an inode of the other tree.
THEOREM OriginalsStayIntact ==
  ASSUME LinksStable, RequestsCovered
  PROVE  Spec => []OriginalsIntact
  <1>1. TargetInv => OriginalsIntact
    BY DEF TargetInv
  <1> QED BY TargetInvCorrect, <1>1, PTL

----------------------------------------------------------------------------
(* Who meets whom.                                                         *)

Using(p) == InCall(p) \/ fd[p] # None

\* Whoever uses a name of a call in progress is known to it as a rival.
MeetInv == \A p, q \in Procs :
    p # q /\ InCall(p) /\ Using(q) /\ Footprint(s[p]) \cap Footprint(s[q]) # {} =>
       q \in rivals[p]

\* Steps in which no call starts.
LEMMA MeetFrame ==
  ASSUME MeetInv, NEW p \in Procs, Unmoved(p),
         \A q \in Procs \ {p} : rivals[q] \subseteq rivals'[q],
         pc'[p] # "idle" => /\ pc[p] # "idle" /\ s'[p] = s[p] /\ fd'[p] = fd[p]
                            /\ rivals'[p] = rivals[p],
         fd'[p] # None => s'[p] = s[p] /\ (fd[p] # None \/ pc[p] # "idle")
  PROVE  MeetInv'
  <1>1. \A q \in Procs : Using(q)' => Using(q) /\ s'[q] = s[q]
    BY DEF Using, InCall, Unmoved
  <1>2. \A q \in Procs : InCall(q)' => /\ InCall(q) /\ s'[q] = s[q]
                                       /\ rivals[q] \subseteq rivals'[q]
    BY DEF InCall, Unmoved
  <1>3. \A q \in Procs : Footprint(s[q])' = Footprint(s'[q])
    BY DEF Footprint
  <1>4. ASSUME NEW q \in Procs, NEW r \in Procs, q # r, InCall(q)', Using(r)',
               Footprint(s'[q]) \cap Footprint(s'[r]) # {}
        PROVE  r \in rivals'[q]
    BY <1>1, <1>2, <1>4 DEF MeetInv
  <1> QED BY <1>3, <1>4 DEF MeetInv

\* Nobody uses a name at first.
LEMMA InitMeet == Init => MeetInv
  BY DEF Init, MeetInv, InCall, Using

\* The check and libc.
LEMMA CallMeet ==
  ASSUME TypeInv, MeetInv, NEW p \in Procs, CheckStep(p) \/ LibcStep(p)
  PROVE  MeetInv'
  <1> USE DEF Goto, Forget, callVars, fdVars, ghostVars, fsVars
  <1>0. TypeOK /\ LocalsOK /\ Unmoved(p)
    BY OthersUnmoved DEF TypeInv, ProcStep
  <1>1. pc[p] # "idle" /\ s[p] \in Paths /\ fd[p] = None
    BY <1>0 DEF CheckStep, LStat, CanonicalizeFileName, Stat, Mkstemp, MkstempFails,
           BlockSigchld, BlockSigchldFails, Fork, ForkFails, WaitpidCopied, WaitpidFailed,
           WaitpidError, RenameOver, RenameFails, LibcStep, LibcOpen, LibcCreate,
           LibcAttributes, LibcFails, LocalsOK
  <1>2. \A q \in Procs \ {p} : rivals[q] = rivals'[q]
    <2>1. CASE CheckStep(p)
      BY <1>0, <2>1
      DEF CheckStep, LStat, CanonicalizeFileName, Stat, Mkstemp, MkstempFails, Refuse,
          Finish, BlockSigchld, BlockSigchldFails, Fork, ForkFails, WaitpidCopied,
          WaitpidFailed, WaitpidError, RenameOver, RenameFails, ErrorSpm, TypeOK
    <2>2. CASE LibcStep(p)
      BY <1>0, <2>2
      DEF LibcStep, LibcOpen, LibcCreate, LibcAttributes, LibcFails, Opened, Refuse,
          Finish, TypeOK
    <2> QED BY <2>1, <2>2
  <1>3. \/ s'[p] = s[p] /\ fd'[p] = fd[p] /\ rivals'[p] = rivals[p]
        \/ pc'[p] = "idle" /\ fd'[p] = None
        \/ pc'[p] = "idle" /\ s'[p] = s[p]
    <2>1. CASE CheckStep(p)
      BY <1>0, <1>1, <2>1
      DEF CheckStep, LStat, CanonicalizeFileName, Stat, Mkstemp, MkstempFails, Refuse,
          Finish, BlockSigchld, BlockSigchldFails, Fork, ForkFails, WaitpidCopied,
          WaitpidFailed, WaitpidError, RenameOver, RenameFails, ErrorSpm, TypeOK
    <2>2. CASE LibcStep(p)
      BY <1>0, <1>1, <2>2
      DEF LibcStep, LibcOpen, LibcCreate, LibcAttributes, LibcFails, Opened, Refuse,
          Finish, TypeOK
    <2> QED BY <2>1, <2>2
  <1>4. fd'[p] # None => s'[p] = s[p]
    BY <1>1, <1>3
  <1> QED BY <1>0, <1>1, <1>2, <1>3, <1>4, MeetFrame

\* The programs: a call that starts meets everybody who is there.
LEMMA ProgramMeet ==
  ASSUME TypeInv, MeetInv, NEW p \in Procs, ProgramStep(p)
  PROVE  MeetInv'
  <1> USE DEF Goto, Forget, callVars, fdVars, ghostVars, fsVars
  <1>0. TypeOK /\ LocalsOK /\ Unmoved(p)
    BY OthersUnmoved DEF TypeInv, ProcStep
  <1>1. ASSUME NEW r \in Requests, NEW n \in Paths, Call(p, r, n)
        PROVE  MeetInv'
    <2>1. /\ pc[p] = "idle" /\ fd[p] = None /\ fd' = fd
          /\ s' = [s EXCEPT ![p] = n] /\ rivals' = Meet(p, Footprint(n))
      BY <1>1 DEF Call, CanCall
    <2>2. \A q \in Procs \ {p} : /\ InCall(q)' = InCall(q) /\ Using(q)' = Using(q)
                                 /\ s'[q] = s[q]
      BY <1>0 DEF Unmoved, InCall, Using
    <2>3. s'[p] = n /\ Footprint(s[p])' = Footprint(n)
          /\ \A q \in Procs \ {p} : Footprint(s[q])' = Footprint(s[q])
      BY <1>0, <2>1, <2>2 DEF Footprint, TypeOK
    <2>4. ASSUME NEW q \in Procs, NEW u \in Procs, q # u, InCall(q)', Using(u)',
                 Footprint(s[q])' \cap Footprint(s[u])' # {}
          PROVE  u \in rivals'[q]
      <3>1. CASE q = p
        <4>1. u \in UsersOf(Footprint(n))
          BY <2>2, <2>3, <2>4, <3>1 DEF UsersOf, Using
        <4> QED BY <2>1, <2>4, <3>1, <4>1 DEF Meet
      <3>2. CASE u = p
        <4>1. q \in UsersOf(Footprint(n)) /\ InCall(q)
          BY <2>2, <2>3, <2>4, <3>2 DEF UsersOf
        <4> QED BY <2>1, <2>4, <3>2, <4>1 DEF Meet
      <3>3. CASE q # p /\ u # p
        <4>1. u \in rivals[q]
          BY <2>2, <2>3, <2>4, <3>3 DEF MeetInv
        <4> QED BY <2>1, <3>3, <4>1 DEF Meet
      <3> QED BY <3>1, <3>2, <3>3
    <2> QED BY <2>4 DEF MeetInv
  <1>2. CASE (\E r \in Requests : FdCall(p, r)) \/ Write(p)
    BY <1>0, <1>2, MeetFrame DEF FdCall, Write
  <1>3. CASE Close(p)
    BY <1>0, <1>3, MeetFrame DEF Close, Finish, TypeOK
  <1>4. ASSUME NEW S, rivals' = Disturb(p, S), pc[p] = "idle",
               UNCHANGED <<pc, callVars, fdVars>>
        PROVE  MeetInv'
    <2>1. \A q \in Procs : rivals[q] \subseteq rivals'[q]
      BY <1>4 DEF Disturb
    <2> QED BY <1>0, <1>4, <2>1, MeetFrame
  <1>5. CASE \E n \in Paths : Unlink(p, n)
    BY <1>4, <1>5 DEF Unlink
  <1>6. CASE \E from, to \in Paths : Rename(p, from, to)
    BY <1>4, <1>6 DEF Rename
  <1> QED BY <1>1, <1>2, <1>3, <1>5, <1>6 DEF ProgramStep

----------------------------------------------------------------------------
(* A name that one process uses undisturbed.  WritesLand and               *)
(* BreakInvisible are about a file under a name; it stays the file there   *)
(* unless a process breaks its link, or disturbs whoever uses the name.    *)

\* Where a program's descriptor came from, when it was opened by name n.
LinkEnd(n) == IF n \in LinkPaths THEN LinkTo[n] ELSE n

\* A file that a watched program has opened for writing is still under its name,
\* and nobody is at work to put another in its place.
LandInv ==
    \A p \in Seen :
       fd[p] # None /\ writable[p] /\ rivals[p] = {} =>
          /\ fd[p] = dir[LinkEnd(s[p])]
          /\ \A q \in Procs : pc[q] \in Breaking => canonical[q] # LinkEnd(s[p])

\* Nobody whom the library has looked at can write to the file whose link is being
\* broken, and the copy that cp has completed is one.
CopyInv ==
    \A p \in Procs : pc[p] \in Breaking /\ rivals[p] = {} =>
       /\ Bound(canonical[p])
       /\ \A q \in Seen : writable[q] => fd[q] # dir[canonical[p]]
       /\ pc[p] \in {"waitpid", "rename"} /\ cp[backup_file[p]] = "exited0" =>
            /\ ByWatched(data[dir[backup_file[p]]]) = ByWatched(data[dir[canonical[p]]])
            /\ kind[dir[backup_file[p]]] = kind[dir[canonical[p]]]

\* All that has been found so far.
CallsInv == TypeInv /\ PrivateInv /\ TargetInv /\ MeetInv

\* The names of a call.
LEMMA CallNames ==
  ASSUME NEW p \in Procs
  PROVE  Canon(p) \in Footprint(s[p]) /\ LinkEnd(s[p]) \in Footprint(s[p])
  BY DEF Canon, LinkEnd, Footprint

\* The kernel goes where LinkEnd says, as links stay links.
LEMMA FinalIsLinkEnd ==
  ASSUME LinksInv, NEW n
  PROVE  Final(n) = LinkEnd(n)
  BY DEF LinksInv, Final, LinkEnd

\* A bound name that p uses without rivals keeps its file, unless its link is
\* broken.
LEMMA NameUndisturbed ==
  ASSUME CallsInv, NEW p \in Procs, Using(p), rivals'[p] = {},
         NEW n \in Paths, n \in Footprint(s[p]), Bound(n),
         NEW q \in Procs, ProcStep(q), ~(RenameOver(q) /\ canonical[q] = n)
  PROVE  dir'[n] = dir[n]
  <1>0. TypeOK /\ LocalsOK /\ n \notin Temps
    BY PathAssumption DEF CallsInv, TypeInv
  <1>1. ASSUME NEW S, n \in S, rivals' = Disturb(q, S) PROVE FALSE
    BY <1>1 DEF Disturb, UsersOf, Using
  <1>2. CASE CheckStep(q)
    <2>1. ASSUME NEW t \in Temps, NEW i \in Inodes, Mkstemp(q, t, i)
          PROVE  dir'[n] = dir[n]
      BY <1>0, <2>1 DEF Mkstemp, TypeOK
    <2>2. CASE RenameOver(q)
      <3>1. backup_file[q] \in Temps /\ canonical[q] # n
        BY <1>0, <2>2 DEF RenameOver, LocalsOK, Holding
      <3> QED BY <1>0, <2>2, <3>1 DEF RenameOver, TypeOK
    <2>3. CASE UNCHANGED dir
      BY <2>3
    <2> QED BY <1>2, <2>1, <2>2, <2>3
            DEF CheckStep, LStat, CanonicalizeFileName, Stat, MkstempFails, Refuse,
                BlockSigchld, BlockSigchldFails, Fork, ForkFails, WaitpidCopied,
                WaitpidFailed, WaitpidError, RenameFails, ErrorSpm, fsVars
  <1>3. CASE LibcStep(q)
    BY <1>0, <1>3 DEF LibcStep, LibcOpen, LibcCreate, LibcAttributes, LibcFails, Refuse,
           fsVars, TypeOK
  <1>4. CASE ProgramStep(q)
    <2>1. ASSUME NEW m \in Paths, Unlink(q, m) PROVE dir'[n] = dir[n]
      <3>1. m # n
        BY <1>1, <2>1 DEF Unlink
      <3> QED BY <1>0, <2>1, <3>1 DEF Unlink, TypeOK
    <2>2. ASSUME NEW from \in Paths, NEW to \in Paths, Rename(q, from, to)
          PROVE  dir'[n] = dir[n]
      <3>1. from # n /\ to # n
        BY <1>1, <2>2 DEF Rename
      <3> QED BY <1>0, <2>2, <3>1 DEF Rename, TypeOK
    <2> QED BY <1>4, <2>1, <2>2 DEF ProgramStep, Call, FdCall, Write, Close, fsVars
  <1> QED BY <1>2, <1>3, <1>4 DEF ProcStep

\* Rivals do not go away while a call or a descriptor lasts.
LEMMA RivalsStay ==
  ASSUME TypeInv, NEW q \in Procs, ProcStep(q), NEW p \in Procs,
         p # q \/ pc'[q] \in Breaking
  PROVE  rivals[p] \subseteq rivals'[p]
  <1> USE DEF Goto, Forget, ghostVars
  <1>0. TypeOK
    BY DEF TypeInv
  <1>1. CASE CheckStep(q)
    BY <1>0, <1>1
    DEF CheckStep, LStat, CanonicalizeFileName, Stat, Mkstemp, MkstempFails, Refuse,
        Finish, BlockSigchld, BlockSigchldFails, Fork, ForkFails, WaitpidCopied,
        WaitpidFailed, WaitpidError, RenameOver, RenameFails, ErrorSpm, Breaking, Holding,
        TypeOK
  <1>2. CASE LibcStep(q)
    BY <1>0, <1>2
    DEF LibcStep, LibcOpen, LibcCreate, LibcAttributes, LibcFails, Opened, Refuse, Finish,
        Breaking, Holding, TypeOK
  <1>3. CASE ProgramStep(q)
    <2>1. ASSUME NEW r \in Requests, NEW n \in Paths, Call(q, r, n)
          PROVE  rivals[p] \subseteq rivals'[p]
      <3>1. pc'[q] \notin Breaking
        BY <1>0, <2>1 DEF Call, Breaking, Holding, TypeOK
      <3> QED BY <2>1, <3>1 DEF Call, Meet
    <2>2. CASE Close(q)
      BY <1>0, <2>2 DEF Close, Finish, Breaking, Holding, TypeOK
    <2>3. ASSUME NEW S, rivals' = Disturb(q, S) PROVE rivals[p] \subseteq rivals'[p]
      BY <2>3 DEF Disturb
    <2> QED BY <1>3, <2>1, <2>2, <2>3 DEF ProgramStep, FdCall, Write, Unlink, Rename
  <1> QED BY <1>1, <1>2, <1>3 DEF ProcStep

\* A call sets out to break a link after it has found that it must.
LEMMA BreakBegins ==
  ASSUME CallsInv, NEW q \in Procs, ProcStep(q), pc'[q] \in Breaking
  PROVE  /\ CheckStep(q)
         /\ \/ /\ pc[q] \in Breaking /\ canonical'[q] = canonical[q]
            \/ /\ pc'[q] = "mkstemp" /\ MustCopy(dir[canonical'[q]])
               /\ UNCHANGED fsVars
  <1> USE DEF Goto, Forget, Breaking, Holding, callVars
  <1>0. TypeOK /\ LocalsOK
    BY DEF CallsInv, TypeInv
  <1>1. CASE CheckStep(q)
    <2>1. CASE LStat(q)
      <3>1. s[q] \in Paths /\ UNCHANGED fsVars
        BY <1>0, <2>1 DEF LStat, LocalsOK
      <3>2. ~Pass(q) /\ ~LookFails(q) /\ ~Goto(q, "canonicalize")
        BY <1>0 DEF Pass, LookFails, TypeOK
      <3>3. Decide(q, s[q])
        BY <2>1, <3>2 DEF LStat
      <3>4. MustCopy(dir[s[q]]) /\ pc'[q] = "mkstemp" /\ canonical'[q] = s[q]
        BY <1>0, <3>2, <3>3 DEF Decide, TypeOK
      <3>5. MustCopy(dir[canonical'[q]])
        BY <3>4
      <3> QED BY <1>1, <3>1, <3>4, <3>5
    <2>2. CASE Stat(q)
      <3>1. canonical[q] \in Paths /\ UNCHANGED fsVars
        BY <1>0, <2>2 DEF Stat, LocalsOK, Found
      <3>2. ~Pass(q) /\ ~LookFails(q)
        BY <1>0 DEF Pass, LookFails, TypeOK
      <3>3. Decide(q, canonical[q])
        BY <2>2, <3>2 DEF Stat
      <3>4. MustCopy(dir[canonical[q]]) /\ pc'[q] = "mkstemp" /\ canonical'[q] = canonical[q]
        BY <1>0, <3>2, <3>3 DEF Decide, TypeOK
      <3>5. MustCopy(dir[canonical'[q]])
        BY <3>4
      <3> QED BY <1>1, <3>1, <3>4, <3>5
    <2> QED BY <1>0, <1>1, <2>1, <2>2
            DEF CheckStep, CanonicalizeFileName, LookFails, Mkstemp, MkstempFails, Refuse,
                Finish, Pass, BlockSigchld, BlockSigchldFails, Fork, ForkFails, WaitpidCopied,
                WaitpidFailed, WaitpidError, RenameOver, RenameFails, ErrorSpm, TypeOK
  <1>2. CASE LibcStep(q)
    BY <1>0, <1>2 DEF LibcStep, LibcOpen, LibcCreate, LibcAttributes, LibcFails, Opened,
                      Refuse, Finish, TypeOK
  <1>3. CASE ProgramStep(q)
    <2>1. CASE \E r \in Requests, n \in Paths : Call(q, r, n)
      BY <1>0, <2>1 DEF Call, TypeOK
    <2>2. CASE Close(q)
      BY <1>0, <2>2 DEF Close, Finish, TypeOK
    <2>3. CASE pc[q] = "idle" /\ pc' = pc
      BY <2>3
    <2> QED BY <1>3, <2>1, <2>2, <2>3 DEF ProgramStep, FdCall, Write, Unlink, Rename
  <1> QED BY <1>1, <1>2, <1>3 DEF ProcStep

\* What LandInv says of p after the step.
NowLands(p) == /\ fd'[p] = dir'[LinkEnd(s'[p])]
               /\ \A q \in Procs : pc'[q] \in Breaking => canonical'[q] # LinkEnd(s'[p])

\* As long as the file is under the name, no check makes anything of it: it does
\* not have to be copied.
LEMMA NobodySetsOut ==
  ASSUME CallsInv, LandInv, NEW p \in Seen, fd[p] # None, writable[p],
         rivals[p] = {}, NEW q \in Procs, ProcStep(q), dir'[LinkEnd(s[p])] = fd[p]
  PROVE  \A r \in Procs : pc'[r] \in Breaking => canonical'[r] # LinkEnd(s[p])
  <1>1. Unmoved(q)
    BY OthersUnmoved DEF CallsInv
  <1>2. /\ fd[p] = dir[LinkEnd(s[p])] /\ ~MustCopy(fd[p])
        /\ \A r \in Procs : pc[r] \in Breaking => canonical[r] # LinkEnd(s[p])
    BY DEF LandInv, CallsInv, TargetInv, ClearInv
  <1>3. \A r \in Procs \ {q} : pc'[r] \in Breaking => canonical'[r] # LinkEnd(s[p])
    BY <1>1, <1>2 DEF Unmoved
  <1>4. ASSUME pc'[q] \in Breaking PROVE canonical'[q] # LinkEnd(s[p])
    <2>1. CASE pc[q] \in Breaking /\ canonical'[q] = canonical[q]
      BY <1>2, <2>1
    <2>2. CASE MustCopy(dir[canonical'[q]])
      <3> SUFFICES ASSUME canonical'[q] = LinkEnd(s[p]) PROVE FALSE
        OBVIOUS
      <3>1. dir[canonical'[q]] = fd[p]
        BY <1>2
      <3> QED BY <1>2, <2>2, <3>1
    <2> QED BY <1>4, <2>1, <2>2, BreakBegins
  <1> QED BY <1>3, <1>4

\* A descriptor that p had before the step.
LEMMA LandStays ==
  ASSUME CallsInv, LandInv, NEW p \in Seen, fd[p] # None, writable[p],
         rivals[p] = {}, rivals'[p] = {}, UNCHANGED <<fd[p], s[p]>>,
         NEW q \in Procs, ProcStep(q)
  PROVE  NowLands(p)
  <1> DEFINE e == LinkEnd(s[p])
  <1>1. /\ fd[p] = dir[e] /\ Using(p) /\ p \in Procs
        /\ \A r \in Procs : pc[r] \in Breaking => canonical[r] # e
    BY DEF LandInv, Using, Seen
  <1>2. e \in Paths /\ e \in Footprint(s[p]) /\ Bound(e)
    BY <1>1, CallNames, PathAssumption DEF CallsInv, TypeInv, LocalsOK, LinkEnd, Bound
  <1>3. ~(RenameOver(q) /\ canonical[q] = e)
    BY <1>1 DEF RenameOver, Breaking, Holding
  <1>4. dir'[e] = dir[e]
    <2> HIDE DEF e
    <2> QED BY <1>1, <1>2, <1>3, NameUndisturbed
  <1>5. \A r \in Procs : pc'[r] \in Breaking => canonical'[r] # e
    BY <1>1, <1>4, NobodySetsOut
  <1> QED BY <1>1, <1>4, <1>5 DEF NowLands

\* libc opens the file under the name.
LEMMA LandOpens ==
  ASSUME CallsInv, NEW p \in Procs, LibcStep(p), fd'[p] # None, rivals'[p] = {}
  PROVE  NowLands(p)
  <1> USE DEF Goto, Forget
  <1>0. /\ TypeOK /\ LocalsOK /\ Unmoved(p) /\ pc[p] = "libc" /\ fd[p] = None
        /\ Target(p) = Canon(p) /\ Canon(p) \in Paths
    BY OthersUnmoved, OneTarget, CanonType
    DEF CallsInv, TypeInv, TargetInv, LocalsOK, ProcStep, LibcStep, LibcOpen, LibcCreate,
        LibcAttributes, LibcFails
  <1>1. ASSUME NEW i, Opens(req[p]) \/ Creates(req[p]),
               Opened(p, i, OpensForWriting(req[p])), dir'[Canon(p)] = i
        PROVE  NowLands(p)
    <2>1. Canon(p) = LinkEnd(s[p])
      BY <1>1 DEF Opens, Creates, OpenCalls, CreatCalls, FopenCalls, FollowsLinks, Canon,
                  LinkEnd
    <2>2. /\ fd'[p] = i /\ s' = s /\ pc' = [pc EXCEPT ![p] = "idle"]
          /\ canonical' = canonical /\ rivals'[p] = Breakers(Canon(p))
      BY <1>0, <1>1 DEF Opened, TypeOK
    <2>3. \A q \in Procs : pc[q] \in Breaking => canonical[q] # Canon(p)
      BY <2>2 DEF Breakers, Breaking, Holding
    <2>4. \A q \in Procs : pc'[q] \in Breaking => pc[q] \in Breaking
      BY <1>0, <2>2 DEF TypeOK, Breaking, Holding
    <2> QED BY <1>1, <2>1, <2>2, <2>3, <2>4 DEF NowLands
  <1>2. CASE LibcOpen(p)
    BY <1>0, <1>1, <1>2 DEF LibcOpen
  <1>3. ASSUME NEW i \in Inodes, LibcCreate(p, i) PROVE NowLands(p)
    BY <1>0, <1>1, <1>3 DEF LibcCreate, TypeOK
  <1>4. ~LibcAttributes(p) /\ ~LibcFails(p)
    BY <1>0 DEF LibcAttributes, LibcFails, Refuse, fdVars
  <1> QED BY <1>2, <1>3, <1>4 DEF LibcStep

\* The steps of a process.
LEMMA LandProc ==
  ASSUME CallsInv, LandInv, NEW q \in Procs, ProcStep(q)
  PROVE  LandInv'
  <1> USE DEF Goto, Forget, fdVars, callVars, ghostVars
  <1>0. TypeOK /\ LocalsOK /\ Unmoved(q)
    BY OthersUnmoved DEF CallsInv, TypeInv
  <1>1. ASSUME NEW p \in Procs, p \in Seen', fd'[p] # None, writable'[p], rivals'[p] = {}
        PROVE  NowLands(p)
    <2>0. p # q \/ writable[q] => p \in Seen
      BY <1>1, UnseenStays DEF Seen, CallsInv
    <2>1. CASE p # q
      <3>1. rivals[p] = {}
        BY <1>1, <2>1, RivalsStay DEF CallsInv
      <3>2. UNCHANGED <<fd[p], s[p]>> /\ writable[p]
        BY <1>0, <1>1, <2>1 DEF Unmoved
      <3> QED BY <1>1, <2>0, <2>1, <3>1, <3>2, LandStays
    <2>2. CASE p = q /\ LibcStep(q)
      BY <1>1, <2>2, LandOpens
    <2>3. CASE p = q /\ CheckStep(q)
      <3>1. fd'[q] = fd[q] /\ pc[q] # "idle"
        BY <2>3 DEF CheckStep, LStat, CanonicalizeFileName, Stat, Mkstemp, MkstempFails,
               Refuse, BlockSigchld, BlockSigchldFails, Fork, ForkFails, WaitpidCopied,
               WaitpidFailed, WaitpidError, RenameOver, RenameFails, ErrorSpm
      <3> QED BY <1>0, <1>1, <2>3, <3>1 DEF LocalsOK
    <2>4. CASE p = q /\ ProgramStep(q)
      <3>1. ~\E r \in Requests, n \in Paths : Call(q, r, n)
        BY <1>1, <2>4 DEF Call, CanCall
      <3>2. ~Close(q)
        BY <1>0, <1>1, <2>4 DEF Close, TypeOK
      <3>3. UNCHANGED <<fd, writable, s>> /\ rivals[q] \subseteq rivals'[q]
        BY <2>4, <3>1, <3>2 DEF ProgramStep, FdCall, Write, Unlink, Rename, Disturb
      <3>4. rivals[p] = {} /\ fd[p] # None /\ writable[p]
        BY <1>1, <2>4, <3>3
      <3> QED BY <1>1, <2>0, <2>4, <3>3, <3>4, LandStays
    <2> QED BY <2>1, <2>2, <2>3, <2>4 DEF ProcStep
  <1> QED BY <1>1 DEF LandInv, NowLands, LinkEnd, Seen

\* What CopyInv says of p after the step.
NowCopies(p) ==
    /\ dir'[canonical'[p]] # None
    /\ \A q \in Seen' : writable'[q] => fd'[q] # dir'[canonical'[p]]
    /\ pc'[p] \in {"waitpid", "rename"} /\ cp'[backup_file'[p]] = "exited0" =>
         /\ ByWatched(data'[dir'[backup_file'[p]]]) =
              ByWatched(data'[dir'[canonical'[p]]])
         /\ kind'[dir'[backup_file'[p]]] = kind'[dir'[canonical'[p]]]

\* A call of q that modifies its target comes to another file than the one whose
\* link p is breaking: another name of that file would have to be broken first.
LEMMA TargetsDiffer ==
  ASSUME CallsInv, CopyInv, NEW p \in Procs, NEW q \in Procs, p # q, pc[p] \in Breaking,
         rivals[p] = {}, pc[q] = "libc"
  PROVE  /\ Canon(q) # canonical[p]
         /\ Watched(q) => dir[Canon(q)] # dir[canonical[p]]
  <1>0. /\ TypeOK /\ LocalsOK /\ canonical[p] = Canon(p) /\ InCall(p) /\ Using(q)
        /\ Canon(p) \in Paths /\ Canon(q) \in Paths /\ Bound(canonical[p])
    BY CanonType DEF CallsInv, TypeInv, TargetInv, CanonInv, Found, InCall, Using, Breaking,
                     Holding, CopyInv
  <1>1. Canon(q) # Canon(p)
    BY <1>0, CallNames DEF CallsInv, MeetInv
  <1>2. ASSUME Watched(q), dir[Canon(q)] = dir[Canon(p)]
        PROVE  FALSE
    <2>1. dir[Canon(q)] \in Ilist
      BY <1>0, <1>1, <1>2 DEF CallsInv, TargetInv, TwinsInv, Bound
    <2>2. MustCopy(dir[Canon(q)])
      BY <1>0, <1>1, <1>2, <2>1 DEF MustCopy, Hardlinked
    <2> QED BY <1>2, <2>2 DEF CallsInv, TargetInv, ClearInv
  <1> QED BY <1>0, <1>1, <1>2

\* The step of the process that is breaking the link.
LEMMA CopyOwn ==
  ASSUME CallsInv, CopyInv, NEW p \in Procs, ProcStep(p), pc'[p] \in Breaking,
         rivals'[p] = {}
  PROVE  NowCopies(p)
  <1> USE DEF Goto, fsVars, fdVars, callVars, cpVars
  <1>0. TypeOK /\ LocalsOK /\ CheckStep(p) /\ None \notin Ilist
    BY BreakBegins, InodeAssumption DEF CallsInv, TypeInv
  <1>1. fd' = fd /\ writable' = writable
        /\ \A q \in Seen' : writable'[q] => q \in Seen
    <2>1. fd' = fd /\ writable' = writable
      BY <1>0 DEF CheckStep, LStat, CanonicalizeFileName, Stat, Mkstemp, MkstempFails, Refuse,
           BlockSigchld, BlockSigchldFails, Fork, ForkFails, WaitpidCopied, WaitpidFailed,
           WaitpidError, RenameOver, RenameFails, ErrorSpm
    <2> QED BY <2>1, UnseenStays DEF CallsInv, Seen
  <1>2. CASE pc'[p] = "mkstemp" /\ MustCopy(dir[canonical'[p]]) /\ UNCHANGED fsVars
    <2>1. dir[canonical'[p]] # None
      BY <1>0, <1>2 DEF MustCopy
    <2>2. ASSUME NEW q \in Seen, writable[q], fd[q] = dir[canonical'[p]]
          PROVE  FALSE
      <3>1. ~MustCopy(fd[q])
        BY <2>2 DEF CallsInv, TargetInv, ClearInv
      <3> QED BY <1>2, <2>2, <3>1
    <2> QED BY <1>1, <1>2, <2>1, <2>2 DEF NowCopies
  <1>3. CASE pc[p] \in Breaking /\ canonical'[p] = canonical[p]
    <2>1. /\ rivals[p] = {} /\ canonical[p] \in Paths
      BY <1>0, <1>3, RivalsStay DEF CallsInv, LocalsOK, Found
    <2>2. /\ Bound(canonical[p])
          /\ \A q \in Seen : writable[q] => fd[q] # dir[canonical[p]]
          /\ pc[p] \in {"waitpid", "rename"} /\ cp[backup_file[p]] = "exited0" =>
               /\ ByWatched(data[dir[backup_file[p]]]) = ByWatched(data[dir[canonical[p]]])
               /\ kind[dir[backup_file[p]]] = kind[dir[canonical[p]]]
      BY <1>3, <2>1 DEF CopyInv
    <2>3. ASSUME NEW t \in Temps, NEW i \in Inodes, Mkstemp(p, t, i)
          PROVE  NowCopies(p)
      <3>1. pc'[p] = "sigprocmask" /\ dir'[canonical[p]] = dir[canonical[p]]
        BY <1>0, <2>1, <2>3, PathAssumption DEF Mkstemp, TypeOK
      <3> QED BY <1>1, <1>3, <2>2, <3>1 DEF NowCopies, Bound
    <2>4. CASE BlockSigchld(p)
      <3>1. pc'[p] = "fork" /\ dir' = dir
        BY <1>0, <2>4 DEF BlockSigchld, TypeOK
      <3> QED BY <1>1, <1>3, <2>2, <3>1 DEF NowCopies, Bound
    <2>5. CASE Fork(p)
      <3>1. backup_file'[p] = backup_file[p] /\ cp'[backup_file[p]] = "running" /\ dir' = dir
        BY <1>0, <2>5 DEF Fork, LocalsOK, Holding, TypeOK
      <3> QED BY <1>1, <1>3, <2>2, <3>1 DEF NowCopies, Bound
    <2>6. CASE WaitpidCopied(p)
      <3>1. UNCHANGED <<dir, data, kind, cp, backup_file>> /\ pc[p] = "waitpid"
        BY <2>6 DEF WaitpidCopied
      <3> QED BY <1>1, <1>3, <2>2, <3>1 DEF NowCopies, Bound
    <2>7. \/ \E t \in Temps, i \in Inodes : Mkstemp(p, t, i)
          \/ BlockSigchld(p) \/ Fork(p) \/ WaitpidCopied(p)
      BY <1>0, <1>3
      DEF CheckStep, LStat, CanonicalizeFileName, Stat, LookFails, MkstempFails, Refuse,
          Finish, BlockSigchldFails, ForkFails, WaitpidFailed, WaitpidError, RenameOver, Pass,
          RenameFails, ErrorSpm, Breaking, Holding, TypeOK
    <2> QED BY <2>3, <2>4, <2>5, <2>6, <2>7
  <1> QED BY <1>2, <1>3, BreakBegins

\* The step of another process.
LEMMA CopyOther ==
  ASSUME RequestsCovered, CallsInv, CopyInv, NEW p \in Procs,
         NEW q \in Procs, p # q, ProcStep(q), pc'[p] \in Breaking, rivals'[p] = {}
  PROVE  NowCopies(p)
  <1> DEFINE c == canonical[p]
             t == backup_file[p]
  <1>0. /\ TypeOK /\ LocalsOK /\ Unmoved(q) /\ pc'[p] = pc[p] /\ canonical'[p] = c
        /\ backup_file'[p] = t /\ pc[p] \in Breaking /\ rivals[p] = {}
    BY OthersUnmoved, RivalsStay DEF CallsInv, TypeInv, Unmoved
  <1>1. /\ Bound(c)
        /\ \A r \in Seen : writable[r] => fd[r] # dir[c]
        /\ pc[p] \in {"waitpid", "rename"} /\ cp[t] = "exited0" =>
             /\ ByWatched(data[dir[t]]) = ByWatched(data[dir[c]])
             /\ kind[dir[t]] = kind[dir[c]]
    BY <1>0 DEF CopyInv
  <1>2. c \in Paths /\ c \in Footprint(s[p]) /\ Using(p) /\ InCall(p) /\ c = Canon(p)
    BY <1>0, CallNames
    DEF LocalsOK, Found, Breaking, Holding, Using, InCall, CallsInv, TargetInv, CanonInv
  <1>3. ~(RenameOver(q) /\ canonical[q] = c)
    <2> SUFFICES ASSUME RenameOver(q), canonical[q] = c PROVE FALSE
      OBVIOUS
    <2>1. pc[q] = "rename" /\ Canon(q) = c
      BY DEF RenameOver, CallsInv, TargetInv, CanonInv, Found, Breaking, Holding
    <2>2. c \in Footprint(s[q]) /\ Using(q)
      BY <2>1, CallNames DEF Using, InCall
    <2> QED BY <1>0, <1>2, <2>2 DEF CallsInv, MeetInv
  <1>4. dir'[c] = dir[c]
    BY <1>1, <1>2, <1>3, NameUndisturbed
  <1>5. c # None /\ ~WritesTo(q, dir[c])
    <2>1. ~Free(dir[c])
      BY <1>2 DEF Free
    <2>2. pc[q] = "libc" /\ Watched(q) => dir[Canon(q)] # dir[c]
      BY <1>0, TargetsDiffer
    <2> QED BY <1>1, <1>2, <2>1, <2>2, PathAssumption DEF WritesTo
  <1>6. ASSUME NEW r \in Procs, r \in Seen', writable'[r] PROVE fd'[r] # dir[c]
    <2>1. CASE r # q \/ (fd'[r] = fd[r] /\ writable'[r] = writable[r])
      <3>1. fd'[r] = fd[r] /\ writable[r]
        BY <1>0, <1>6, <2>1 DEF Unmoved
      <3>2. r \in Seen
        BY <1>6, <2>1, <3>1, UnseenStays DEF Seen, CallsInv
      <3> QED BY <1>1, <3>1, <3>2
    <2>2. CASE LibcOpen(q) /\ r = q
      <3>1. /\ pc[q] = "libc" /\ Watched(q) /\ fd'[q] = dir[Target(q)]
        BY <1>0, <1>6, <2>2 DEF LibcOpen, Opened, Watched, Seen, Modifies, TypeOK
      <3>2. Target(q) = Canon(q)
        BY OneTarget DEF CallsInv, TargetInv
      <3> QED BY <1>0, <2>2, <3>1, <3>2, TargetsDiffer
    <2>3. ASSUME NEW i \in Inodes, LibcCreate(q, i), r = q PROVE fd'[r] # dir[c]
      BY <1>0, <1>2, <2>3 DEF LibcCreate, Opened, Free, TypeOK
    <2>4. CASE Close(q) /\ r = q
      BY <1>0, <1>6, <2>4 DEF Close, TypeOK
    <2>5. \/ fd' = fd /\ writable' = writable
          \/ LibcOpen(q) \/ Close(q) \/ \E i \in Inodes : LibcCreate(q, i)
      BY DEF ProcStep, CheckStep, LStat, CanonicalizeFileName, Stat, Mkstemp, MkstempFails,
             Refuse, BlockSigchld, BlockSigchldFails, Fork, ForkFails, WaitpidCopied,
             WaitpidFailed, WaitpidError, RenameOver, RenameFails, ErrorSpm, LibcStep,
             LibcAttributes, LibcFails, ProgramStep, Call, FdCall, Write, Unlink, Rename,
             fdVars
    <2> QED BY <2>1, <2>2, <2>3, <2>4, <2>5
  <1>7. ASSUME pc[p] \in {"waitpid", "rename"}, cp'[t] = "exited0"
        PROVE  /\ ByWatched(data'[dir'[t]]) = ByWatched(data'[dir'[c]])
               /\ kind'[dir'[t]] = kind'[dir'[c]]
    <2>1. t \in Temps /\ Bound(t) /\ Secret(t)
      BY <1>7 DEF CallsInv, TypeInv, LocalsOK, PrivateInv, Holding
    <2>2. pc[q] \in Holding => backup_file[q] # t
      BY <1>7 DEF CallsInv, PrivateInv, Holding
    <2>3. dir'[t] = dir[t] /\ cp'[t] = cp[t]
      <3>1. CASE CheckStep(q)
        <4>1. ASSUME NEW v \in Temps, NEW i \in Inodes, Mkstemp(q, v, i)
              PROVE  dir'[t] = dir[t] /\ cp'[t] = cp[t]
          BY <1>0, <2>1, <4>1 DEF Mkstemp, TempFor, cpVars, TypeOK
        <4>2. CASE Fork(q)
          BY <1>0, <2>1, <2>2, <4>2 DEF Fork, Holding, fsVars, TypeOK
        <4>3. CASE RenameOver(q)
          <5>1. canonical[q] \in Paths /\ backup_file[q] # t
            BY <1>0, <2>2, <4>3 DEF RenameOver, LocalsOK, Found, Breaking, Holding
          <5> QED BY <1>0, <2>1, <4>3, <5>1, PathAssumption DEF RenameOver, cpVars, TypeOK
        <4>4. CASE UNCHANGED <<dir, cp>>
          BY <4>4
        <4> QED BY <3>1, <4>1, <4>2, <4>3, <4>4
                DEF CheckStep, LStat, CanonicalizeFileName, Stat, MkstempFails, Refuse,
                    BlockSigchld, BlockSigchldFails, ForkFails, WaitpidCopied,
                    WaitpidFailed, WaitpidError, RenameFails, ErrorSpm, fsVars, cpVars
      <3>2. CASE LibcStep(q)
        BY <1>0, <2>1, <3>2
        DEF LibcStep, LibcOpen, LibcCreate, LibcAttributes, LibcFails, Opened, Refuse,
            fsVars, cpVars, TypeOK
      <3>3. CASE ProgramStep(q)
        <4>1. t \notin Paths /\ cp' = cp
          BY <2>1, <3>3, PathAssumption
          DEF ProgramStep, Call, FdCall, Write, Close, Unlink, Rename, cpVars
        <4>2. ASSUME NEW n \in Paths, Unlink(q, n) PROVE dir'[t] = dir[t]
          BY <1>0, <2>1, <4>1, <4>2 DEF Unlink, TypeOK
        <4>3. ASSUME NEW from \in Paths, NEW to \in Paths, Rename(q, from, to)
              PROVE  dir'[t] = dir[t]
          BY <1>0, <2>1, <4>1, <4>3 DEF Rename, TypeOK
        <4> QED BY <3>3, <4>1, <4>2, <4>3
                DEF ProgramStep, Call, FdCall, Write, Close, fsVars
      <3> QED BY <3>1, <3>2, <3>3 DEF ProcStep
    <2>4. ~WritesTo(q, dir[t])
      <3>1. pc[q] = "libc" => Canon(q) \in Names \ {t}
        BY <2>1, CanonType, PathAssumption DEF CallsInv
      <3> QED BY <2>1, <3>1 DEF WritesTo, Free, Secret
    <2>5. ASSUME NEW i \in Inodes, ~WritesTo(q, i)
          PROVE  ByWatched(data'[i]) = ByWatched(data[i]) /\ kind'[i] = kind[i]
      BY <2>5, WritesNowhereElse DEF CallsInv, TargetInv, ByWatched
    <2>6. dir[t] \in Inodes /\ dir[c] \in Inodes
      BY <1>0, <1>1, <1>2, <2>1 DEF Bound, TypeOK
    <2>7. /\ ByWatched(data'[dir[t]]) = ByWatched(data[dir[t]])
          /\ ByWatched(data'[dir[c]]) = ByWatched(data[dir[c]])
          /\ kind'[dir[t]] = kind[dir[t]] /\ kind'[dir[c]] = kind[dir[c]]
      BY <1>5, <2>4, <2>5, <2>6
    <2> QED BY <1>1, <1>4, <1>7, <2>3, <2>7
  <1> QED BY <1>0, <1>1, <1>4, <1>6, <1>7 DEF NowCopies, Bound, Seen

\* cp completes the copy of the file under the name.
LEMMA CopyCp ==
  ASSUME CallsInv, CopyInv, NEW u \in Temps, CpExits0(u) \/ CpFails(u)
  PROVE  CopyInv'
  <1>0. /\ TypeOK /\ LocalsOK /\ PrivateInv /\ LinksInv /\ cp[u] = "running"
        /\ Bound(u) /\ Secret(u) /\ u \notin Paths
        /\ UNCHANGED <<dir, pc, canonical, backup_file, fd, writable, rivals, unseen>>
    BY PathAssumption
    DEF CallsInv, TypeInv, TargetInv, PrivateInv, CpExits0, CpFails, CpEnds, callVars, fdVars,
        ghostVars
  <1>1. \A j \in Names \ {u} : data'[dir[j]] = data[dir[j]] /\ kind'[dir[j]] = kind[dir[j]]
    <2>1. \A j \in Names \ {u} : dir[j] # dir[u]
      BY <1>0 DEF Secret
    <2>2. CASE CpExits0(u)
      BY <1>0, <2>1, <2>2 DEF CpExits0, TypeOK
    <2>3. CASE CpFails(u)
      BY <2>3 DEF CpFails
    <2> QED BY <2>2, <2>3
  <1>2. \A v \in Temps \ {u} : cp'[v] = cp[v]
    BY <1>0 DEF CpExits0, CpFails, CpEnds, TypeOK
  <1>3. ASSUME NEW p \in Procs, pc[p] \in Breaking, rivals[p] = {}
        PROVE  NowCopies(p)
    <2>1. /\ Bound(canonical[p]) /\ canonical[p] \in Paths
          /\ \A q \in Seen : writable[q] => fd[q] # dir[canonical[p]]
          /\ pc[p] \in {"waitpid", "rename"} /\ cp[backup_file[p]] = "exited0" =>
               /\ ByWatched(data[dir[backup_file[p]]]) = ByWatched(data[dir[canonical[p]]])
               /\ kind[dir[backup_file[p]]] = kind[dir[canonical[p]]]
      BY <1>0, <1>3 DEF CopyInv, LocalsOK, Found
    <2>2. ASSUME pc[p] \in {"waitpid", "rename"}, cp'[backup_file[p]] = "exited0"
          PROVE  /\ ByWatched(data'[dir[backup_file[p]]]) =
                      ByWatched(data'[dir[canonical[p]]])
                 /\ kind'[dir[backup_file[p]]] = kind'[dir[canonical[p]]]
      <3>1. backup_file[p] \in Temps
        BY <1>0, <2>2 DEF LocalsOK, Holding
      <3>2. CASE backup_file[p] = u
        <4>1. cpSource[u] = canonical[p]
          BY <1>0, <2>2, <3>2 DEF PrivateInv, LinksInv
        <4>2. CpExits0(u)
          BY <1>0, <2>2, <3>2 DEF CpFails, CpEnds, TypeOK
        <4>3. /\ data'[dir[u]] = data[dir[canonical[p]]]
              /\ kind'[dir[u]] = kind[dir[canonical[p]]]
          BY <1>0, <4>1, <4>2 DEF CpExits0, TypeOK, Bound
        <4> QED BY <1>0, <1>1, <2>1, <3>2, <4>3
      <3>3. CASE backup_file[p] # u
        BY <1>0, <1>1, <1>2, <2>1, <2>2, <3>1, <3>3
      <3> QED BY <3>2, <3>3
    <2> QED BY <1>0, <2>1, <2>2 DEF NowCopies, Bound, Seen
  <1> QED BY <1>0, <1>3 DEF CopyInv, NowCopies, Bound, Seen

----------------------------------------------------------------------------

----------------------------------------------------------------------------
(* The two properties.                                                     *)

\* At first nobody has opened, found or begun to break anything.
LEMMA InitCalls ==
  ASSUME LinksStable, Init
  PROVE  CallsInv /\ LandInv /\ CopyInv
  <1>1. TypeInv /\ PrivateInv /\ TargetInv /\ MeetInv
    BY InitTypes, InitPrivate, InitTargets, InitMeet
  <1>2. LandInv /\ CopyInv
    BY DEF Init, LandInv, CopyInv, Seen, Breaking, Holding
  <1> QED BY <1>1, <1>2 DEF CallsInv

\* What the calls know of each other and of their targets holds in every state.
LEMMA CallsInvCorrect ==
  ASSUME LinksStable, RequestsCovered
  PROVE  Spec => []CallsInv
  <1>1. TypeInv /\ MeetInv /\ Next => MeetInv'
    <2> SUFFICES ASSUME TypeInv, MeetInv, Next PROVE MeetInv'
      OBVIOUS
    <2>1. ASSUME NEW t \in Temps, CpExits0(t) \/ CpFails(t) PROVE MeetInv'
      BY <2>1 DEF CpExits0, CpFails, CpEnds, callVars, fdVars, ghostVars, MeetInv,
                  InCall, Using, Footprint
    <2>2. ASSUME NEW i \in Inodes, OutsideUnlink(i) PROVE MeetInv'
      BY <2>2 DEF OutsideUnlink, callVars, fdVars, ghostVars, MeetInv, InCall,
                  Using, Footprint
    <2> QED BY <2>1, <2>2, CallMeet, ProgramMeet DEF Next
  <1>2. MeetInv /\ UNCHANGED vars => MeetInv'
    BY DEF vars, callVars, fdVars, ghostVars, MeetInv, InCall, Using, Footprint
  <1>3. Spec => [](TypeInv /\ PrivateInv /\ TargetInv)
    BY TypesCorrect, TemporariesPrivate, TargetInvCorrect, PTL
  <1> QED BY InitMeet, <1>1, <1>2, <1>3, PTL DEF Spec, CallsInv

\* For any number of processes, names and calls: what a program has opened for
\* writing is the file under the name until somebody takes the name away; the
\* library breaks no link under the feet of a descriptor it has looked at.
THEOREM WritesLandCorrect ==
  ASSUME LinksStable, RequestsCovered
  PROVE  Spec => []WritesLand
  <1>1. CallsInv /\ LandInv /\ [Next]_vars => LandInv'
    <2>1. ASSUME CallsInv, LandInv,
                 UNCHANGED <<dir, pc, canonical, s, fd, writable, rivals, unseen>>
          PROVE  LandInv'
      BY <2>1 DEF LandInv, LinkEnd, Seen
    <2>2. ASSUME CallsInv, LandInv, NEW t \in Temps, CpExits0(t) \/ CpFails(t)
          PROVE  LandInv'
      BY <2>1, <2>2 DEF CpExits0, CpFails, CpEnds, callVars, fdVars, ghostVars
    <2>3. ASSUME CallsInv, LandInv, NEW i \in Inodes, OutsideUnlink(i)
          PROVE  LandInv'
      BY <2>1, <2>3 DEF OutsideUnlink, callVars, fdVars, ghostVars
    <2>4. CallsInv /\ LandInv /\ Next => LandInv'
      BY <2>2, <2>3, LandProc DEF Next, ProcStep
    <2>5. CallsInv /\ LandInv /\ UNCHANGED vars => LandInv'
      BY <2>1 DEF vars, fsVars, callVars, fdVars, ghostVars
    <2> QED BY <2>4, <2>5
  <1>2. CallsInv /\ LandInv => WritesLand
    <2>1. CallsInv => \A p \in Procs : Final(s[p]) = LinkEnd(s[p])
      BY FinalIsLinkEnd DEF CallsInv, TargetInv
    <2> QED BY <2>1 DEF WritesLand, LandInv, Seen
  <1>3. Init => LandInv
    BY InitCalls
  <1> QED BY CallsInvCorrect, <1>1, <1>2, <1>3, PTL DEF Spec

\* For any number of processes, names and calls: rename puts a file of the same
\* content and kind under the name, unless somebody else used the name meanwhile.
THEOREM BreakInvisibleCorrect ==
  ASSUME LinksStable, RequestsCovered
  PROVE  Spec => BreakInvisible
  <1>1. CallsInv /\ CopyInv /\ [Next]_vars => CopyInv'
    <2>1. ASSUME CallsInv, CopyInv, NEW q \in Procs, ProcStep(q)
          PROVE  CopyInv'
      <3>1. \A p \in Procs : pc'[p] \in Breaking /\ rivals'[p] = {} => NowCopies(p)
        <4>1. ASSUME NEW p \in Procs, pc'[p] \in Breaking, rivals'[p] = {}
              PROVE  NowCopies(p)
          <5>1. CASE p = q
            BY <2>1, <4>1, <5>1, CopyOwn
          <5>2. CASE p # q
            BY <2>1, <4>1, <5>2, CopyOther
          <5> QED BY <5>1, <5>2
        <4> QED BY <4>1
      <3> QED BY <3>1 DEF CopyInv, NowCopies, Bound
    <2>2. ASSUME CallsInv, CopyInv, UNCHANGED <<dir, data, kind, pc, canonical, backup_file,
                                                cp, fd, writable, rivals, unseen>>
          PROVE  CopyInv'
      BY <2>2 DEF CopyInv, Bound, Seen
    <2>3. ASSUME CallsInv, CopyInv, NEW i \in Inodes, OutsideUnlink(i)
          PROVE  CopyInv'
      BY <2>2, <2>3 DEF OutsideUnlink, callVars, cpVars, fdVars, ghostVars
    <2>4. CallsInv /\ CopyInv /\ Next => CopyInv'
      BY <2>1, <2>3, CopyCp DEF Next, ProcStep
    <2>5. CallsInv /\ CopyInv /\ UNCHANGED vars => CopyInv'
      BY <2>2 DEF vars, fsVars, callVars, cpVars, fdVars, ghostVars
    <2> QED BY <2>4, <2>5
  <1>2. ASSUME CallsInv, CopyInv, Next, NEW p \in Procs, pc[p] = "rename",
               pc'[p] = "libc", rivals[p] = {}
        PROVE  /\ ByWatched(data'[dir'[canonical[p]]]) = ByWatched(data[dir[canonical[p]]])
               /\ kind'[dir'[canonical[p]]] = kind[dir[canonical[p]]]
    <2>1. TypeOK /\ LocalsOK /\ PrivateInv
      BY <1>2 DEF CallsInv, TypeInv
    <2>2. RenameOver(p)
      <3>1. ASSUME NEW q \in Procs, q # p, ProcStep(q) PROVE FALSE
        BY <1>2, <3>1, OthersUnmoved DEF CallsInv, Unmoved
      <3>2. CASE ProcStep(p)
        BY <1>2, <2>1, <3>2
        DEF ProcStep, CheckStep, LStat, CanonicalizeFileName, Stat, Mkstemp, MkstempFails,
            BlockSigchld, BlockSigchldFails, Fork, ForkFails, WaitpidCopied, WaitpidFailed,
            WaitpidError, RenameFails, ErrorSpm, Refuse, Finish, Goto, LibcStep, LibcOpen,
            LibcCreate, LibcAttributes, LibcFails, ProgramStep, Call, CanCall, FdCall,
            Write, Close, Unlink, Rename, TypeOK
      <3>3. CASE \/ \E t \in Temps : CpExits0(t) \/ CpFails(t)
                 \/ \E i \in Inodes : OutsideUnlink(i)
        BY <1>2, <3>3 DEF CpExits0, CpFails, CpEnds, OutsideUnlink
      <3> QED BY <1>2, <3>1, <3>2, <3>3 DEF Next, ProcStep
    <2>3. /\ backup_file[p] \in Temps /\ canonical[p] \in Paths
          /\ backup_file[p] # canonical[p]
      BY <1>2, <2>1, PathAssumption DEF LocalsOK, Found, Breaking, Holding
    <2>4. UNCHANGED <<data, kind>> /\ dir'[canonical[p]] = dir[backup_file[p]]
      BY <2>1, <2>2, <2>3 DEF RenameOver, TypeOK
    <2>5. /\ ByWatched(data[dir[backup_file[p]]]) = ByWatched(data[dir[canonical[p]]])
          /\ kind[dir[backup_file[p]]] = kind[dir[canonical[p]]]
      BY <1>2, <2>1 DEF CopyInv, PrivateInv, Breaking, Holding
    <2> QED BY <2>4, <2>5
  <1>3. CallsInv /\ CopyInv /\ [Next]_vars =>
          [\A p \in Procs :
             pc[p] = "rename" /\ pc'[p] = "libc" /\ rivals[p] = {} =>
                LET n == canonical[p]
                IN  /\ ByWatched(data'[dir'[n]]) = ByWatched(data[dir[n]])
                    /\ kind'[dir'[n]] = kind[dir[n]]]_vars
    BY <1>2
  <1>4. Init => CopyInv
    BY InitCalls
  <1> QED BY CallsInvCorrect, <1>1, <1>3, <1>4, PTL DEF Spec, BreakInvisible

=============================================================================
