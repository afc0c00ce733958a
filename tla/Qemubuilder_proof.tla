------------------------- MODULE Qemubuilder_proof -------------------------
(***************************************************************************)
(* Proofs about Qemubuilder for any number of sessions and any operations.  *)
(***************************************************************************)
EXTENDS Qemubuilder, SequenceTheorems, TLAPS

BeforeQemu == {"idle", "unlinkbase", "makebase", "place", "mountbase", "debootstrap",
               "umountbase", "umountout", "device", "mount", "scripts", "umount",
               "overlay", "fork"}
AfterQemu == {"commit", "remount", "collect", "clean", "done"}
\* Between a mount and the umount that follows it.
Mounted == {"debootstrap", "umountbase", "umountout", "scripts", "umount", "collect"}

\* Every umount follows one mount.
MountShape(s) ==
    "umount" \notin mishap[s] => Len(mounts[s]) <= (IF pc[s] \in Mounted THEN 1 ELSE 0)

\* Where fork_qemu is, and where qemu and its guest are.
MachineShape(s) ==
    /\ pc[s] \in BeforeQemu => qemu[s] = "none" /\ code[s] = Pending
    /\ pc[s] = "hear" => qemu[s] \in {"exited", "running", "ended"} /\ code[s] = Pending
    /\ pc[s] = "wait" => /\ qemu[s] \in {"killed", "ended"} /\ code[s] \in Codes
                         /\ sent[s] >= ExitCode
    /\ pc[s] \in AfterQemu /\ On(s) => "select" \in mishap[s]
    /\ qemu[s] \in {"none", "exited"} => guest[s] = "none"
    /\ sent[s] > 0 => guest[s] \in {"ok", "failed"}

\* The guest is through, or is no longer listened to.
Over(s) == guest[s] \in {"ok", "failed"} \/ "select" \in mishap[s]

\* Whose work the images hold.
WorkShape(s) ==
    /\ guest[s] \in {"none", "booting"} => overlay[s] # "written"
    /\ s \in base.work => pc[s] # "idle" /\ (Creates(s) \/ (saves[s] /\ Over(s)))
    /\ pc[s] = "commit" => saves[s] /\ (overlay[s] = "written" => Over(s))

\* What is on the host.
FilesShape(s) ==
    /\ pc[s] \in {"overlay", "commit", "remount", "collect"} => ~Creates(s)
    /\ pc[s] = "umountout" => ret[s] = 1
    /\ "mount" \notin mishap[s] /\ "umount" \notin mishap[s] =>
         /\ pc[s] = "scripts" => mounts[s] # <<>>
         /\ "litter" \notin files[s]
         /\ Creates(s) /\ pc[s] \in {"fork", "hear", "wait", "clean"} => "place" \notin files[s]
         /\ pc[s] = "done" /\ ret[s] = 0 => files[s] = {}

Shape(s) == MountShape(s) /\ MachineShape(s) /\ WorkShape(s) /\ FilesShape(s)
QemuInv == TypeOK /\ \A s \in Sessions : Shape(s)

\* A step of s leaves the other sessions alone; their work can only go from the base.
Same(t) ==
    /\ pc'[t] = pc[t] /\ op'[t] = op[t] /\ saves'[t] = saves[t] /\ ret'[t] = ret[t]
    /\ files'[t] = files[t] /\ mounts'[t] = mounts[t] /\ mishap'[t] = mishap[t]
    /\ qemu'[t] = qemu[t] /\ guest'[t] = guest[t] /\ sent'[t] = sent[t]
    /\ code'[t] = code[t] /\ overlay'[t] = overlay[t]
    /\ t \in base'.work => t \in base.work

\* What a step keeps of its own session, it keeps of the others too.
LEMMA OthersKeepShape ==
  ASSUME QemuInv, NEW s \in Sessions, TypeOK', Shape(s)',
         \A t \in Sessions \ {s} : Same(t)
  PROVE  QemuInv'
  <1> SUFFICES ASSUME NEW t \in Sessions, t # s PROVE Shape(t)'
    BY DEF QemuInv
  <1>0. Same(t) /\ Shape(t)
    BY DEF QemuInv
  <1>1. MountShape(t)'
    BY <1>0 DEF Same, Shape, MountShape
  <1>2. MachineShape(t)'
    BY <1>0 DEF Same, Shape, MachineShape, On
  <1>3. WorkShape(t)'
    BY <1>0 DEF Same, Shape, WorkShape, Over, Creates
  <1>4. FilesShape(t)'
    BY <1>0 DEF Same, Shape, FilesShape, Creates
  <1> QED BY <1>1, <1>2, <1>3, <1>4 DEF Shape

\* What a umount does to the mounts of a session, and which mishap it can be.
LEMMA UmountedFacts ==
  ASSUME QemuInv, NEW s \in Sessions, NEW ok \in BOOLEAN, Umounted(s, ok)
  PROVE  /\ mounts' \in [Sessions -> Seq({"base", "work"})]
         /\ mishap' \in [Sessions -> SUBSET Mishaps]
         /\ \A t \in Sessions \ {s} : mounts'[t] = mounts[t] /\ mishap'[t] = mishap[t]
         /\ \A m \in Mishaps \ {"umount"} : m \in mishap'[s] <=> m \in mishap[s]
         /\ "umount" \in mishap[s] => "umount" \in mishap'[s]
         /\ "umount" \notin mishap'[s] /\ Len(mounts[s]) <= 1 => mounts'[s] = <<>>
  <1> DEFINE q == mounts[s]
  <1>1. q \in Seq({"base", "work"}) /\ Len(q) \in Nat
    BY LenProperties DEF QemuInv, TypeOK
  <1>2. mounts' = [mounts EXCEPT ![s] = IF ok /\ q # <<>> THEN Pop(q) ELSE q]
    BY DEF Umounted
  <1>3. Pop(q) \in Seq({"base", "work"})
    <2>1. \A i \in 1..(Len(q) - 1) : q[i] \in {"base", "work"}
      BY <1>1, ElementOfSeq
    <2>2. 1 \in Int /\ Len(q) - 1 \in Int
      BY <1>1
    <2> QED BY <2>1, <2>2, SubSeqProperties DEF Pop
  <1>4. Len(q) <= 1 => Pop(q) = <<>>
    <2> SUFFICES ASSUME Len(q) <= 1 PROVE Pop(q) = <<>>
      OBVIOUS
    <2>1. 1 \in Int /\ Len(q) - 1 \in Int /\ Len(q) - 1 < 1
      BY <1>1
    <2> QED BY <2>1, SubSeqEmpty DEF Pop
  <1>5. mishap' = [mishap EXCEPT ![s] = IF ~ok /\ q # <<>> THEN @ \cup {"umount"} ELSE @]
    BY DEF Umounted, Mishap, QemuInv, TypeOK
  <1> HIDE DEF q
  <1>6. mounts \in [Sessions -> Seq({"base", "work"})] /\ mishap \in [Sessions -> SUBSET Mishaps]
    BY DEF QemuInv, TypeOK
  <1>7. mounts[s] = q
    BY DEF q
  <1>8. mounts' \in [Sessions -> Seq({"base", "work"})]
    BY <1>1, <1>2, <1>3, <1>6
  <1>9. mishap' \in [Sessions -> SUBSET Mishaps]
    BY <1>5, <1>6 DEF Mishaps
  <1>10. "umount" \notin mishap'[s] /\ Len(mounts[s]) <= 1 => mounts'[s] = <<>>
    BY <1>2, <1>4, <1>5, <1>6, <1>7
  <1> QED BY <1>2, <1>5, <1>6, <1>8, <1>9, <1>10 DEF Mishaps
----------------------------------------------------------------------------
(* Each action keeps the invariant, one lemma per action: the types, the four *)
(* parts of Shape for its session, and Same for the others.                *)

\* A session starts with an operation.
LEMMA StartKeeps ==
  ASSUME QemuInv, NEW s \in Sessions, NEW o \in Ops, NEW v \in Saves(o), Start(s, o, v)
  PROVE  QemuInv'
  <1>1. TypeOK'
    BY CodeAssumption DEF Start, Goto, Saves, machineVars, jobVars, QemuInv, TypeOK,
        Steps, Files, Images
  <1>2. MountShape(s)'
    BY DEF Start, Goto, Saves, machineVars, jobVars, QemuInv, TypeOK, Shape,
        MountShape, Mounted
  <1>3. MachineShape(s)'
    BY DEF Start, Goto, Saves, machineVars, jobVars, QemuInv, TypeOK, Shape,
        MachineShape, BeforeQemu, AfterQemu, On, ExitCode
  <1>4. WorkShape(s)'
    BY DEF Start, Goto, Saves, machineVars, jobVars, QemuInv, TypeOK, Shape,
        WorkShape, MachineShape, Over, Creates, BeforeQemu
  <1>5. FilesShape(s)'
    BY DEF Start, Goto, Saves, machineVars, jobVars, QemuInv, TypeOK, Shape,
        FilesShape, MountShape, Mounted, Creates
  <1>6. \A t \in Sessions \ {s} : Same(t)
    BY DEF Start, Goto, Saves, machineVars, jobVars, QemuInv, TypeOK, Shape, Same
  <1> QED BY <1>1, <1>2, <1>3, <1>4, <1>5, <1>6, OthersKeepShape DEF Shape

\* create removes the base.
LEMMA UnlinkBaseKeeps ==
  ASSUME QemuInv, NEW s \in Sessions, UnlinkBase(s)
  PROVE  QemuInv'
  <1>1. TypeOK'
    BY CodeAssumption DEF UnlinkBase, Goto, machineVars, jobVars, QemuInv, TypeOK,
        Steps, Files, Images
  <1>2. MountShape(s)'
    BY DEF UnlinkBase, Goto, machineVars, jobVars, QemuInv, TypeOK, Shape, MountShape,
        Mounted
  <1>3. MachineShape(s)'
    BY DEF UnlinkBase, Goto, machineVars, jobVars, QemuInv, TypeOK, Shape,
        MachineShape, BeforeQemu, AfterQemu, On, ExitCode
  <1>4. WorkShape(s)'
    BY DEF UnlinkBase, Goto, machineVars, jobVars, QemuInv, TypeOK, Shape, WorkShape,
        MachineShape, Over, Creates, BeforeQemu
  <1>5. FilesShape(s)'
    BY DEF UnlinkBase, Goto, machineVars, jobVars, QemuInv, TypeOK, Shape, FilesShape,
        MountShape, Mounted, Creates
  <1>6. \A t \in Sessions \ {s} : Same(t)
    BY DEF UnlinkBase, Goto, machineVars, jobVars, QemuInv, TypeOK, Shape, Same
  <1> QED BY <1>1, <1>2, <1>3, <1>4, <1>5, <1>6, OthersKeepShape DEF Shape

\* create makes a blank one.
LEMMA MakeBaseKeeps ==
  ASSUME QemuInv, NEW s \in Sessions, NEW ok \in BOOLEAN, MakeBase(s, ok)
  PROVE  QemuInv'
  <1>1. TypeOK'
    <2>1. /\ pc' \in [Sessions -> Steps]
          /\ ret' \in [Sessions -> Codes \cup {-1, 0, 1}]
      BY DEF MakeBase, Return, Goto, machineVars, jobVars, QemuInv, TypeOK, Steps
    <2>2. base' \in [image : Images, work : SUBSET Sessions]
      BY DEF MakeBase, Return, Goto, machineVars, jobVars, QemuInv, TypeOK, Images
    <2> QED BY <2>1, <2>2 DEF MakeBase, machineVars, jobVars, QemuInv, TypeOK
  <1>2. MountShape(s)'
    BY DEF MakeBase, Return, Goto, machineVars, jobVars, QemuInv, TypeOK, Shape,
        MountShape, Mounted
  <1>3. MachineShape(s)'
    BY DEF MakeBase, Return, Goto, machineVars, jobVars, QemuInv, TypeOK, Shape,
        MachineShape, BeforeQemu, AfterQemu, On, ExitCode
  <1>4. WorkShape(s)'
    BY DEF MakeBase, Return, Goto, machineVars, jobVars, QemuInv, TypeOK, Shape,
        WorkShape, MachineShape, Over, Creates, BeforeQemu
  <1>5. FilesShape(s)'
    BY DEF MakeBase, Return, Goto, machineVars, jobVars, QemuInv, TypeOK, Shape,
        FilesShape, MountShape, Mounted, Creates
  <1>6. \A t \in Sessions \ {s} : Same(t)
    BY DEF MakeBase, Return, Goto, machineVars, jobVars, QemuInv, TypeOK, Shape, Same
  <1> QED BY <1>1, <1>2, <1>3, <1>4, <1>5, <1>6, OthersKeepShape DEF Shape

\* The build place.
LEMMA PlaceKeeps ==
  ASSUME QemuInv, NEW s \in Sessions, NEW ok \in BOOLEAN, Place(s, ok)
  PROVE  QemuInv'
  <1>0. /\ pc[s] = "place"
        /\ pc'[s] = IF ok THEN IF Creates(s) THEN "mountbase" ELSE "device" ELSE "done"
        /\ ret'[s] = IF ok THEN ret[s] ELSE 1
        /\ files'[s] = IF ok THEN files[s] \cup {"place"} ELSE files[s]
        /\ UNCHANGED <<op, mounts, mishap>>
    BY DEF Place, Return, Goto, machineVars, jobVars, QemuInv, TypeOK
  <1>1. TypeOK'
    <2>1. /\ pc' \in [Sessions -> Steps]
          /\ ret' \in [Sessions -> Codes \cup {-1, 0, 1}]
      BY DEF Place, Return, Goto, Creates, machineVars, jobVars, QemuInv, TypeOK, Steps
    <2>2. files' \in [Sessions -> SUBSET Files]
      BY DEF Place, Return, Goto, Creates, machineVars, jobVars, QemuInv, TypeOK, Files
    <2> QED BY <2>1, <2>2 DEF Place, machineVars, jobVars, QemuInv, TypeOK
  <1>2. MountShape(s)'
    BY DEF Place, Return, Goto, Creates, machineVars, jobVars, QemuInv, TypeOK, Shape,
        MountShape, Mounted
  <1>3. MachineShape(s)'
    BY DEF Place, Return, Goto, Creates, machineVars, jobVars, QemuInv, TypeOK, Shape,
        MachineShape, BeforeQemu, AfterQemu, On, ExitCode
  <1>4. WorkShape(s)'
    BY DEF Place, Return, Goto, Creates, machineVars, jobVars, QemuInv, TypeOK, Shape,
        WorkShape, MachineShape, Over, BeforeQemu
  <1>5. FilesShape(s)'
    BY <1>0 DEF QemuInv, Shape, FilesShape, Creates
  <1>6. \A t \in Sessions \ {s} : Same(t)
    BY DEF Place, Return, Goto, Creates, machineVars, jobVars, QemuInv, TypeOK, Shape,
        Same
  <1> QED BY <1>1, <1>2, <1>3, <1>4, <1>5, <1>6, OthersKeepShape DEF Shape

\* create mounts the base.
LEMMA MountBaseKeeps ==
  ASSUME QemuInv, NEW s \in Sessions, NEW ok \in BOOLEAN, MountBase(s, ok)
  PROVE  QemuInv'
  <1>1. TypeOK'
    <2>1. /\ pc' \in [Sessions -> Steps]
          /\ ret' \in [Sessions -> Codes \cup {-1, 0, 1}]
      BY DEF MountBase, Return, Goto, machineVars, jobVars, QemuInv, TypeOK, Steps
    <2>2. mounts' \in [Sessions -> Seq({"base", "work"})]
      BY AppendProperties DEF MountBase, Return, Goto, machineVars, jobVars, QemuInv,
          TypeOK
    <2> QED BY <2>1, <2>2 DEF MountBase, machineVars, jobVars, QemuInv, TypeOK
  <1>2. MountShape(s)'
    <2>1. pc[s] = "mountbase" /\ pc'[s] = (IF ok THEN "debootstrap" ELSE "done")
          /\ mounts'[s] = (IF ok THEN Append(mounts[s], "base") ELSE mounts[s])
          /\ mounts[s] \in Seq({"base", "work"}) /\ mishap' = mishap
      BY DEF MountBase, Return, Goto, QemuInv, TypeOK
    <2>2. Len(Append(mounts[s], "base")) = Len(mounts[s]) + 1 /\ Len(mounts[s]) \in Nat
      BY <2>1, AppendProperties, LenProperties
    <2> QED BY <2>1, <2>2 DEF QemuInv, Shape, MountShape, Mounted
  <1>3. MachineShape(s)'
    BY DEF MountBase, Return, Goto, machineVars, jobVars, QemuInv, TypeOK, Shape,
        MachineShape, BeforeQemu, AfterQemu, On, ExitCode
  <1>4. WorkShape(s)'
    BY DEF MountBase, Return, Goto, machineVars, jobVars, QemuInv, TypeOK, Shape,
        WorkShape, MachineShape, Over, Creates, BeforeQemu
  <1>5. FilesShape(s)'
    BY DEF MountBase, Return, Goto, machineVars, jobVars, QemuInv, TypeOK, Shape,
        FilesShape, MountShape, Mounted, Creates
  <1>6. \A t \in Sessions \ {s} : Same(t)
    BY DEF MountBase, Return, Goto, machineVars, jobVars, QemuInv, TypeOK, Shape, Same
  <1> QED BY <1>1, <1>2, <1>3, <1>4, <1>5, <1>6, OthersKeepShape DEF Shape

\* The first stage.
LEMMA DebootstrapKeeps ==
  ASSUME QemuInv, NEW s \in Sessions, NEW ok \in BOOLEAN, Debootstrap(s, ok)
  PROVE  QemuInv'
  <1>1. TypeOK'
    BY CodeAssumption DEF Debootstrap, AfterDebootstrap, Goto, machineVars, jobVars,
        QemuInv, TypeOK, Steps, Files, Images
  <1>2. MountShape(s)'
    BY DEF Debootstrap, AfterDebootstrap, Goto, machineVars, jobVars, QemuInv, TypeOK,
        Shape, MountShape, Mounted
  <1>3. MachineShape(s)'
    BY DEF Debootstrap, AfterDebootstrap, Goto, machineVars, jobVars, QemuInv, TypeOK,
        Shape, MachineShape, BeforeQemu, AfterQemu, On, ExitCode
  <1>4. WorkShape(s)'
    BY DEF Debootstrap, AfterDebootstrap, Goto, machineVars, jobVars, QemuInv, TypeOK,
        Shape, WorkShape, MachineShape, Over, Creates, BeforeQemu
  <1>5. FilesShape(s)'
    BY DEF Debootstrap, AfterDebootstrap, Goto, machineVars, jobVars, QemuInv, TypeOK,
        Shape, FilesShape, MountShape, Mounted, Creates
  <1>6. \A t \in Sessions \ {s} : Same(t)
    BY DEF Debootstrap, AfterDebootstrap, Goto, machineVars, jobVars, QemuInv, TypeOK,
        Shape, Same
  <1> QED BY <1>1, <1>2, <1>3, <1>4, <1>5, <1>6, OthersKeepShape DEF Shape

\* The umounts of create after debootstrap.
LEMMA UmountBaseKeeps ==
  ASSUME QemuInv, NEW s \in Sessions, NEW ok \in BOOLEAN, UmountBase(s, ok)
  PROVE  QemuInv'
  <1>0. /\ <<pc[s], pc'[s]>> \in {<<"umountbase", "device">>, <<"umountout", "done">>}
        /\ "umount" \notin mishap'[s] => "umount" \notin mishap[s]
        /\ "mount" \notin mishap'[s] => "mount" \notin mishap[s]
        /\ UNCHANGED <<op, files, ret>>
    BY UmountedFacts DEF UmountBase, Goto, jobVars, QemuInv, TypeOK, Mishaps
  <1>1. TypeOK'
    <2>1. pc' \in [Sessions -> Steps]
      BY DEF UmountBase, Goto, machineVars, jobVars, QemuInv, TypeOK, Steps
    <2>2. /\ mounts' \in [Sessions -> Seq({"base", "work"})]
          /\ mishap' \in [Sessions -> SUBSET Mishaps]
      BY UmountedFacts DEF UmountBase
    <2> QED BY <2>1, <2>2 DEF UmountBase, machineVars, jobVars, QemuInv, TypeOK
  <1>2. MountShape(s)'
    BY UmountedFacts DEF UmountBase, Goto, machineVars, jobVars, QemuInv, TypeOK,
        Shape, MountShape, Mounted
  <1>3. MachineShape(s)'
    BY UmountedFacts DEF UmountBase, Goto, machineVars, jobVars, QemuInv, TypeOK,
        Shape, MachineShape, BeforeQemu, AfterQemu, On, ExitCode
  <1>4. WorkShape(s)'
    BY UmountedFacts DEF UmountBase, Goto, machineVars, jobVars, QemuInv, TypeOK,
        Shape, WorkShape, MachineShape, Over, Creates, BeforeQemu
  <1>5. FilesShape(s)'
    BY <1>0 DEF QemuInv, Shape, FilesShape, Creates
  <1>6. \A t \in Sessions \ {s} : Same(t)
    BY UmountedFacts DEF UmountBase, Goto, machineVars, jobVars, QemuInv, TypeOK,
        Shape, Same
  <1> QED BY <1>1, <1>2, <1>3, <1>4, <1>5, <1>6, OthersKeepShape DEF Shape

\* The work device.
LEMMA MakeDeviceKeeps ==
  ASSUME QemuInv, NEW s \in Sessions, MakeDevice(s)
  PROVE  QemuInv'
  <1>1. TypeOK'
    BY CodeAssumption DEF MakeDevice, Goto, machineVars, jobVars, QemuInv, TypeOK,
        Steps, Files, Images
  <1>2. MountShape(s)'
    BY DEF MakeDevice, Goto, machineVars, jobVars, QemuInv, TypeOK, Shape, MountShape,
        Mounted
  <1>3. MachineShape(s)'
    BY DEF MakeDevice, Goto, machineVars, jobVars, QemuInv, TypeOK, Shape,
        MachineShape, BeforeQemu, AfterQemu, On, ExitCode
  <1>4. WorkShape(s)'
    BY DEF MakeDevice, Goto, machineVars, jobVars, QemuInv, TypeOK, Shape, WorkShape,
        MachineShape, Over, Creates, BeforeQemu
  <1>5. FilesShape(s)'
    BY DEF MakeDevice, Goto, machineVars, jobVars, QemuInv, TypeOK, Shape, FilesShape,
        MountShape, Mounted, Creates
  <1>6. \A t \in Sessions \ {s} : Same(t)
    BY DEF MakeDevice, Goto, machineVars, jobVars, QemuInv, TypeOK, Shape, Same
  <1> QED BY <1>1, <1>2, <1>3, <1>4, <1>5, <1>6, OthersKeepShape DEF Shape

\* It is mounted, before qemu and after.
LEMMA MountWorkKeeps ==
  ASSUME QemuInv, NEW s \in Sessions, NEW ok \in BOOLEAN, MountWork(s, ok)
  PROVE  QemuInv'
  <1>0. /\ <<pc[s], pc'[s]>> \in {<<"mount", "scripts">>, <<"remount", "collect">>}
        /\ ok => mounts'[s] # <<>>
        /\ mishap'[s] = IF ok THEN mishap[s] ELSE mishap[s] \cup {"mount"}
        /\ UNCHANGED <<op, files, ret>>
    <2>1. mounts[s] \in Seq({"base", "work"})
      BY DEF QemuInv, TypeOK
    <2>2. Append(mounts[s], "work") # <<>>
      BY <2>1, AppendProperties
    <2> QED BY <2>2 DEF MountWork, Mishap, Goto, jobVars, QemuInv, TypeOK
  <1>1. TypeOK'
    <2>1. pc' \in [Sessions -> Steps]
      BY DEF MountWork, Goto, QemuInv, TypeOK, Steps
    <2>2. mishap' \in [Sessions -> SUBSET Mishaps]
      <3>1. mishap \in [Sessions -> SUBSET Mishaps] /\ "mount" \in Mishaps
        BY DEF QemuInv, TypeOK, Mishaps
      <3>2. mishap' = mishap \/ mishap' = [mishap EXCEPT ![s] = @ \cup {"mount"}]
        BY DEF MountWork, Mishap
      <3> QED BY <3>1, <3>2
    <2>3. mounts' \in [Sessions -> Seq({"base", "work"})]
      BY AppendProperties DEF MountWork, QemuInv, TypeOK
    <2> QED BY <2>1, <2>2, <2>3 DEF MountWork, machineVars, jobVars, QemuInv, TypeOK
  <1>2. MountShape(s)'
    BY DEF MountWork, Mishap, Mishaps, Goto, machineVars, jobVars, QemuInv, TypeOK,
        Shape, MountShape, Mounted
  <1>3. MachineShape(s)'
    BY DEF MountWork, Mishap, Mishaps, Goto, machineVars, jobVars, QemuInv, TypeOK,
        Shape, MachineShape, BeforeQemu, AfterQemu, On, ExitCode
  <1>4. WorkShape(s)'
    BY DEF MountWork, Mishap, Mishaps, Goto, machineVars, jobVars, QemuInv, TypeOK,
        Shape, WorkShape, MachineShape, Over, Creates, BeforeQemu
  <1>5. FilesShape(s)'
    BY <1>0 DEF QemuInv, Shape, FilesShape, Creates
  <1>6. \A t \in Sessions \ {s} : Same(t)
    BY DEF MountWork, Mishap, Mishaps, Goto, machineVars, jobVars, QemuInv, TypeOK,
        Shape, Same
  <1> QED BY <1>1, <1>2, <1>3, <1>4, <1>5, <1>6, OthersKeepShape DEF Shape

\* The files for the guest.
LEMMA ScriptsKeeps ==
  ASSUME QemuInv, NEW s \in Sessions, Scripts(s)
  PROVE  QemuInv'
  <1>1. TypeOK'
    BY CodeAssumption DEF Scripts, Goto, machineVars, jobVars, QemuInv, TypeOK, Steps,
        Files, Images
  <1>2. MountShape(s)'
    BY DEF Scripts, Goto, machineVars, jobVars, QemuInv, TypeOK, Shape, MountShape,
        Mounted
  <1>3. MachineShape(s)'
    BY DEF Scripts, Goto, machineVars, jobVars, QemuInv, TypeOK, Shape, MachineShape,
        BeforeQemu, AfterQemu, On, ExitCode
  <1>4. WorkShape(s)'
    BY DEF Scripts, Goto, machineVars, jobVars, QemuInv, TypeOK, Shape, WorkShape,
        MachineShape, Over, Creates, BeforeQemu
  <1>5. FilesShape(s)'
    BY DEF Scripts, Goto, machineVars, jobVars, QemuInv, TypeOK, Shape, FilesShape,
        MountShape, Mounted, Creates
  <1>6. \A t \in Sessions \ {s} : Same(t)
    BY DEF Scripts, Goto, machineVars, jobVars, QemuInv, TypeOK, Shape, Same
  <1> QED BY <1>1, <1>2, <1>3, <1>4, <1>5, <1>6, OthersKeepShape DEF Shape

\* The umount before qemu.
LEMMA UmountWorkKeeps ==
  ASSUME QemuInv, NEW s \in Sessions, NEW ok \in BOOLEAN, UmountWork(s, ok)
  PROVE  QemuInv'
  <1>0. /\ pc[s] = "umount" /\ pc'[s] = (IF Creates(s) THEN "fork" ELSE "overlay")
        /\ "umount" \notin mishap'[s] => "umount" \notin mishap[s]
        /\ "mount" \notin mishap'[s] => "mount" \notin mishap[s]
        /\ "umount" \notin mishap'[s] => mounts'[s] = <<>>
        /\ files'[s] = IF Creates(s) THEN Rmdir(s, mounts'[s]) ELSE files[s]
        /\ UNCHANGED op
    BY UmountedFacts DEF UmountWork, Goto, machineVars, jobVars, QemuInv, TypeOK,
        Mishaps, Shape, MountShape, Mounted
  <1>1. TypeOK'
    <2>1. pc' \in [Sessions -> Steps]
      BY DEF UmountWork, Rmdir, Goto, Creates, machineVars, jobVars, QemuInv, TypeOK,
          Steps
    <2>2. /\ mounts' \in [Sessions -> Seq({"base", "work"})]
          /\ mishap' \in [Sessions -> SUBSET Mishaps]
      BY UmountedFacts DEF UmountWork
    <2>3. files' \in [Sessions -> SUBSET Files]
      BY DEF UmountWork, Rmdir, Goto, Creates, machineVars, jobVars, QemuInv, TypeOK,
          Files
    <2> QED BY <2>1, <2>2, <2>3 DEF UmountWork, machineVars, jobVars, QemuInv, TypeOK
  <1>2. MountShape(s)'
    BY UmountedFacts DEF UmountWork, Rmdir, Goto, Creates, machineVars, jobVars,
        QemuInv, TypeOK, Shape, MountShape, Mounted
  <1>3. MachineShape(s)'
    BY UmountedFacts DEF UmountWork, Rmdir, Goto, Creates, machineVars, jobVars,
        QemuInv, TypeOK, Shape, MachineShape, BeforeQemu, AfterQemu, On, ExitCode
  <1>4. WorkShape(s)'
    BY UmountedFacts DEF UmountWork, Rmdir, Goto, Creates, machineVars, jobVars,
        QemuInv, TypeOK, Shape, WorkShape, MachineShape, Over, BeforeQemu
  <1>5. FilesShape(s)'
    BY <1>0 DEF QemuInv, Shape, FilesShape, Creates, Rmdir
  <1>6. \A t \in Sessions \ {s} : Same(t)
    BY UmountedFacts DEF UmountWork, Rmdir, Goto, Creates, machineVars, jobVars,
        QemuInv, TypeOK, Shape, Same
  <1> QED BY <1>1, <1>2, <1>3, <1>4, <1>5, <1>6, OthersKeepShape DEF Shape

\* The overlay.
LEMMA MakeOverlayKeeps ==
  ASSUME QemuInv, NEW s \in Sessions, NEW ok \in BOOLEAN, MakeOverlay(s, ok)
  PROVE  QemuInv'
  <1>0. /\ pc[s] = "overlay" /\ pc'[s] = "fork"
        /\ files'[s] = IF ok THEN files[s] \cup {"overlay"} ELSE files[s]
        /\ UNCHANGED <<op, mishap, ret>>
    BY DEF MakeOverlay, Goto, machineVars, jobVars, QemuInv, TypeOK
  <1>1. TypeOK'
    <2>1. /\ pc' \in [Sessions -> Steps]
          /\ overlay' \in [Sessions -> {"none", "clean", "written"}]
      BY DEF MakeOverlay, Goto, machineVars, jobVars, QemuInv, TypeOK, Steps
    <2>2. files' \in [Sessions -> SUBSET Files]
      <3>1. files \in [Sessions -> SUBSET Files] /\ "overlay" \in Files
        BY DEF QemuInv, TypeOK, Files
      <3>2. files' = files \/ files' = [files EXCEPT ![s] = @ \cup {"overlay"}]
        BY DEF MakeOverlay
      <3> QED BY <3>1, <3>2
    <2> QED BY <2>1, <2>2 DEF MakeOverlay, machineVars, jobVars, QemuInv, TypeOK
  <1>2. MountShape(s)'
    BY DEF MakeOverlay, Goto, machineVars, jobVars, QemuInv, TypeOK, Shape,
        MountShape, Mounted
  <1>3. MachineShape(s)'
    BY DEF MakeOverlay, Goto, machineVars, jobVars, QemuInv, TypeOK, Shape,
        MachineShape, BeforeQemu, AfterQemu, On, ExitCode
  <1>4. WorkShape(s)'
    BY DEF MakeOverlay, Goto, machineVars, jobVars, QemuInv, TypeOK, Shape, WorkShape,
        MachineShape, Over, Creates, BeforeQemu
  <1>5. FilesShape(s)'
    BY <1>0 DEF QemuInv, Shape, FilesShape, Creates
  <1>6. \A t \in Sessions \ {s} : Same(t)
    BY DEF MakeOverlay, Goto, machineVars, jobVars, QemuInv, TypeOK, Shape, Same
  <1> QED BY <1>1, <1>2, <1>3, <1>4, <1>5, <1>6, OthersKeepShape DEF Shape

\* fork_qemu: the child.
LEMMA ForkQemuKeeps ==
  ASSUME QemuInv, NEW s \in Sessions, NEW a \in Archs, NEW runs \in BOOLEAN, ForkQemu(s, a, runs)
  PROVE  QemuInv'
  <1>1. TypeOK'
    BY CodeAssumption DEF ForkQemu, Goto, machineVars, jobVars, QemuInv, TypeOK,
        Steps, Files, Images
  <1>2. MountShape(s)'
    BY DEF ForkQemu, Goto, machineVars, jobVars, QemuInv, TypeOK, Shape, MountShape,
        Mounted
  <1>3. MachineShape(s)'
    BY DEF ForkQemu, Goto, machineVars, jobVars, QemuInv, TypeOK, Shape, MachineShape,
        BeforeQemu, AfterQemu, On, ExitCode
  <1>4. WorkShape(s)'
    BY DEF ForkQemu, Goto, machineVars, jobVars, QemuInv, TypeOK, Shape, WorkShape,
        MachineShape, Over, Creates, BeforeQemu
  <1>5. FilesShape(s)'
    BY DEF ForkQemu, Goto, machineVars, jobVars, QemuInv, TypeOK, Shape, FilesShape,
        MountShape, Mounted, Creates
  <1>6. \A t \in Sessions \ {s} : Same(t)
    BY DEF ForkQemu, Goto, machineVars, jobVars, QemuInv, TypeOK, Shape, Same
  <1> QED BY <1>1, <1>2, <1>3, <1>4, <1>5, <1>6, OthersKeepShape DEF Shape

\* fork_qemu: no sockets.
LEMMA SocketFailsKeeps ==
  ASSUME QemuInv, NEW s \in Sessions, SocketFails(s)
  PROVE  QemuInv'
  <1>1. TypeOK'
    BY CodeAssumption DEF SocketFails, Leave, After, Goto, Creates, machineVars,
        jobVars, QemuInv, TypeOK, Steps, Files, Images
  <1>2. MountShape(s)'
    BY DEF SocketFails, Leave, After, Goto, Creates, machineVars, jobVars, QemuInv,
        TypeOK, Shape, MountShape, Mounted
  <1>3. MachineShape(s)'
    BY DEF SocketFails, Leave, After, Goto, Creates, machineVars, jobVars, QemuInv,
        TypeOK, Shape, MachineShape, BeforeQemu, AfterQemu, On, ExitCode
  <1>4. WorkShape(s)'
    BY DEF SocketFails, Leave, After, Goto, Creates, machineVars, jobVars, QemuInv,
        TypeOK, Shape, WorkShape, MachineShape, Over, BeforeQemu
  <1>5. FilesShape(s)'
    BY DEF SocketFails, Leave, After, Goto, Creates, machineVars, jobVars, QemuInv,
        TypeOK, Shape, FilesShape, MountShape, Mounted
  <1>6. \A t \in Sessions \ {s} : Same(t)
    BY DEF SocketFails, Leave, After, Goto, Creates, machineVars, jobVars, QemuInv,
        TypeOK, Shape, Same
  <1> QED BY <1>1, <1>2, <1>3, <1>4, <1>5, <1>6, OthersKeepShape DEF Shape

\* fork_qemu: a read, and the kill when the words are in it.
LEMMA HearKeeps ==
  ASSUME QemuInv, NEW s \in Sessions, NEW n \in 1..Pieces, NEW c \in Codes, Hear(s, n, c)
  PROVE  QemuInv'
  <1>0. /\ pc[s] = "hear" /\ got[s] \in 0..Pieces /\ sent[s] \in 0..Pieces
        /\ n \in 1..(sent[s] - got[s]) /\ got' = [got EXCEPT ![s] = got[s] + n]
        /\ qemu[s] \in {"exited", "running", "ended"}
        /\ sent[s] > 0 => guest[s] \in {"ok", "failed"}
        /\ qemu[s] = "exited" => guest[s] = "none"
        /\ UNCHANGED <<jobVars, ret, files, mounts, staged, guest, sent, base, overlay, mishap>>
    BY DEF Hear, Read, QemuInv, TypeOK, Shape, MachineShape
  <1>7. sent[s] > 0 /\ n \in Nat /\ got[s] + n \in 0..Pieces /\ got[s] + n <= sent[s]
    BY <1>0 DEF Pieces
  <1>8. Numbers(s, n) \subseteq Codes
    BY CodeAssumption DEF Numbers
  <1>9. CASE ~Recognised(s, n)
    <2>1. UNCHANGED <<code, qemu, pc>>
      BY <1>9 DEF Hear
    <2>2. TypeOK'
      <3>1. got' \in [Sessions -> 0..Pieces]
        BY <1>0, <1>7 DEF QemuInv, TypeOK
      <3>2. \A t \in Sessions : got'[t] <= sent'[t]
        BY <1>0, <1>7 DEF QemuInv, TypeOK
      <3> QED BY <1>0, <2>1, <3>1, <3>2 DEF jobVars, QemuInv, TypeOK
    <2>3. Shape(s)'
      BY <1>0, <2>1 DEF jobVars, QemuInv, Shape, MountShape, MachineShape, WorkShape,
         FilesShape, Over, On, Creates
    <2>4. \A t \in Sessions \ {s} : Same(t)
      BY <1>0, <2>1 DEF jobVars, Same
    <2> QED BY <2>2, <2>3, <2>4, OthersKeepShape
  <1>10. CASE Recognised(s, n)
    <2>1. /\ c \in Codes /\ code' = [code EXCEPT ![s] = c] /\ Kill(s) /\ Goto(s, "wait")
      BY <1>8, <1>10 DEF Hear
    <2>2. got[s] + n >= ExitCode /\ sent[s] >= ExitCode
      <3>1. ExitCode <= got[s] + n
        BY <1>0, <1>7, <1>10 DEF Recognised, ExitCode
      <3> QED BY <1>0, <1>7, <3>1 DEF ExitCode, Pieces
    <2>3. TypeOK'
      <3>1. got' \in [Sessions -> 0..Pieces]
        BY <1>0, <1>7 DEF QemuInv, TypeOK
      <3>2. \A t \in Sessions : got'[t] <= sent'[t]
        BY <1>0, <1>7 DEF QemuInv, TypeOK
      <3>3. code' \in [Sessions -> Codes \cup {-1, Pending}]
        BY <2>1 DEF QemuInv, TypeOK
      <3>4. pc' \in [Sessions -> Steps]
        BY <2>1 DEF Goto, Steps, QemuInv, TypeOK
      <3>5. qemu' \in [Sessions -> {"none", "exited", "running", "killed", "ended", "reaped"}]
        BY <2>1 DEF Kill, QemuInv, TypeOK
      <3> QED BY <1>0, <3>1, <3>2, <3>3, <3>4, <3>5 DEF jobVars, QemuInv, TypeOK
    <2>4. pc'[s] = "wait" /\ code'[s] = c /\ qemu'[s] \in {"killed", "ended"}
      BY <1>0, <1>7, <2>1 DEF Goto, Kill, QemuInv, TypeOK
    <2>5. Shape(s)'
      BY <1>0, <1>7, <2>1, <2>2, <2>4 DEF jobVars, QemuInv, Shape, MountShape, MachineShape,
         WorkShape, FilesShape, Over, On, Creates, BeforeQemu, AfterQemu, Mounted
    <2>6. \A t \in Sessions \ {s} : Same(t)
      BY <1>0, <2>1 DEF Goto, Kill, jobVars, QemuInv, TypeOK, Same
    <2> QED BY <2>3, <2>5, <2>6, OthersKeepShape
  <1> QED BY <1>9, <1>10

\* fork_qemu: waitpid and return.
LEMMA WaitKeeps ==
  ASSUME QemuInv, NEW s \in Sessions, Wait(s)
  PROVE  QemuInv'
  <1>1. TypeOK'
    BY CodeAssumption DEF Wait, Reap, Leave, After, Goto, Creates, machineVars,
        jobVars, QemuInv, TypeOK, Steps, Files, Images, Shape, MachineShape
  <1>2. MountShape(s)'
    BY DEF Wait, Reap, Leave, After, Goto, Creates, machineVars, jobVars, QemuInv,
        TypeOK, Shape, MountShape, Mounted
  <1>3. MachineShape(s)'
    BY DEF Wait, Reap, Leave, After, Goto, Creates, machineVars, jobVars, QemuInv,
        TypeOK, Shape, MachineShape, BeforeQemu, AfterQemu, On, ExitCode
  <1>4. WorkShape(s)'
    <2>1. guest[s] \in {"ok", "failed"}
      <3>1. sent[s] \in 0..Pieces /\ sent[s] >= ExitCode
        BY DEF Wait, QemuInv, TypeOK, Shape, MachineShape
      <3>2. sent[s] > 0
        BY <3>1 DEF ExitCode, Pieces
      <3> QED BY <3>2 DEF QemuInv, Shape, MachineShape
    <2>2. /\ pc'[s] = "commit" => saves[s]
          /\ UNCHANGED <<op, saves, guest, base, overlay, mishap>>
          /\ pc[s] = "wait" /\ pc'[s] # "idle"
      BY DEF Wait, Leave, After, Goto, jobVars, QemuInv, TypeOK
    <2> QED BY <2>1, <2>2 DEF QemuInv, Shape, WorkShape, Over, Creates
  <1>5. FilesShape(s)'
    BY DEF Wait, Reap, Leave, After, Goto, Creates, machineVars, jobVars, QemuInv,
        TypeOK, Shape, FilesShape, MountShape, Mounted
  <1>6. \A t \in Sessions \ {s} : Same(t)
    BY DEF Wait, Reap, Leave, After, Goto, Creates, machineVars, jobVars, QemuInv,
        TypeOK, Shape, Same
  <1> QED BY <1>1, <1>2, <1>3, <1>4, <1>5, <1>6, OthersKeepShape DEF Shape

\* fork_qemu: the return that leaves qemu on.
LEMMA SelectFailsKeeps ==
  ASSUME QemuInv, NEW s \in Sessions, SelectFails(s)
  PROVE  QemuInv'
  <1>1. TypeOK'
    BY CodeAssumption DEF SelectFails, Leave, After, Mishap, Mishaps, Goto, Creates,
        machineVars, jobVars, QemuInv, TypeOK, Steps, Files, Images
  <1>2. MountShape(s)'
    BY DEF SelectFails, Leave, After, Mishap, Mishaps, Goto, Creates, machineVars,
        jobVars, QemuInv, TypeOK, Shape, MountShape, Mounted
  <1>3. MachineShape(s)'
    BY DEF SelectFails, Leave, After, Mishap, Mishaps, Goto, Creates, machineVars,
        jobVars, QemuInv, TypeOK, Shape, MachineShape, BeforeQemu, AfterQemu, On,
        ExitCode
  <1>4. WorkShape(s)'
    BY DEF SelectFails, Leave, After, Mishap, Mishaps, Goto, Creates, machineVars,
        jobVars, QemuInv, TypeOK, Shape, WorkShape, MachineShape, Over, BeforeQemu
  <1>5. FilesShape(s)'
    BY DEF SelectFails, Leave, After, Mishap, Mishaps, Goto, Creates, machineVars,
        jobVars, QemuInv, TypeOK, Shape, FilesShape, MountShape, Mounted
  <1>6. \A t \in Sessions \ {s} : Same(t)
    BY DEF SelectFails, Leave, After, Mishap, Mishaps, Goto, Creates, machineVars,
        jobVars, QemuInv, TypeOK, Shape, Same
  <1> QED BY <1>1, <1>2, <1>3, <1>4, <1>5, <1>6, OthersKeepShape DEF Shape

\* The guest begins to write.
LEMMA GuestStartsKeeps ==
  ASSUME QemuInv, NEW s \in Sessions, GuestStarts(s)
  PROVE  QemuInv'
  <1>0. /\ guest[s] = "booting" /\ guest' = [guest EXCEPT ![s] = "writing"]
        /\ On(s) /\ Written(s)
        /\ UNCHANGED <<pc, jobVars, ret, files, mounts, staged, qemu, sent, got, code, mishap>>
    BY DEF GuestStarts
  <1>1. TypeOK'
    <2>1. guest' \in [Sessions -> {"none", "booting", "writing", "ok", "failed"}]
      BY <1>0 DEF QemuInv, TypeOK
    <2>2. base' \in [image : Images, work : SUBSET Sessions]
      <3>1. base' = base \/ base' = [base EXCEPT !.work = @ \cup {s}]
        BY <1>0 DEF Written
      <3>2. base \in [image : Images, work : SUBSET Sessions]
        BY DEF QemuInv, TypeOK
      <3> QED BY <3>1, <3>2
    <2>3. overlay' \in [Sessions -> {"none", "clean", "written"}]
      BY <1>0 DEF Written, QemuInv, TypeOK
    <2> QED BY <1>0, <2>1, <2>2, <2>3 DEF jobVars, QemuInv, TypeOK
  <1>2. MountShape(s)'
    BY DEF GuestStarts, On, Written, Disk, machineVars, jobVars, QemuInv, TypeOK,
        Shape, MountShape, Mounted
  <1>3. MachineShape(s)'
    BY DEF GuestStarts, On, Written, Disk, machineVars, jobVars, QemuInv, TypeOK,
        Shape, MachineShape, BeforeQemu, AfterQemu, ExitCode
  <1>4. WorkShape(s)'
    <2>1. guest'[s] = "writing" /\ UNCHANGED <<pc, op, saves, mishap>>
      BY <1>0 DEF jobVars, QemuInv, TypeOK
    <2>2. pc[s] # "idle" /\ (pc[s] = "commit" => "select" \in mishap[s])
      BY <1>0 DEF QemuInv, Shape, MachineShape, BeforeQemu, AfterQemu, On
    <2>3. s \in base'.work => s \in base.work \/ Creates(s)
      BY <1>0 DEF Written, Disk, QemuInv, TypeOK
    <2>4. s \in base.work => Creates(s) \/ (saves[s] /\ "select" \in mishap[s])
      BY <1>0 DEF QemuInv, Shape, WorkShape, Over
    <2> QED BY <2>1, <2>2, <2>3, <2>4 DEF QemuInv, Shape, WorkShape, Over, Creates
  <1>5. FilesShape(s)'
    BY DEF GuestStarts, On, Written, Disk, machineVars, jobVars, QemuInv, TypeOK,
        Shape, FilesShape, MountShape, Mounted, Creates
  <1>6. \A t \in Sessions \ {s} : Same(t)
    BY DEF GuestStarts, On, Written, Disk, machineVars, jobVars, QemuInv, TypeOK,
        Shape, Same
  <1> QED BY <1>1, <1>2, <1>3, <1>4, <1>5, <1>6, OthersKeepShape DEF Shape

\* The guest's script is through.
LEMMA GuestFinishesKeeps ==
  ASSUME QemuInv, NEW s \in Sessions, NEW ok \in BOOLEAN, GuestFinishes(s, ok)
  PROVE  QemuInv'
  <1>1. TypeOK'
    BY CodeAssumption DEF GuestFinishes, On, Creates, machineVars, jobVars, QemuInv,
        TypeOK, Steps, Files, Images
  <1>2. MountShape(s)'
    BY DEF GuestFinishes, On, Creates, machineVars, jobVars, QemuInv, TypeOK, Shape,
        MountShape, Mounted
  <1>3. MachineShape(s)'
    BY DEF GuestFinishes, On, Creates, machineVars, jobVars, QemuInv, TypeOK, Shape,
        MachineShape, BeforeQemu, AfterQemu, ExitCode
  <1>4. WorkShape(s)'
    BY DEF GuestFinishes, On, Creates, machineVars, jobVars, QemuInv, TypeOK, Shape,
        WorkShape, MachineShape, Over, BeforeQemu
  <1>5. FilesShape(s)'
    BY DEF GuestFinishes, On, Creates, machineVars, jobVars, QemuInv, TypeOK, Shape,
        FilesShape, MountShape, Mounted
  <1>6. \A t \in Sessions \ {s} : Same(t)
    BY DEF GuestFinishes, On, Creates, machineVars, jobVars, QemuInv, TypeOK, Shape,
        Same
  <1> QED BY <1>1, <1>2, <1>3, <1>4, <1>5, <1>6, OthersKeepShape DEF Shape

\* The guest's words.
LEMMA GuestSaysKeeps ==
  ASSUME QemuInv, NEW s \in Sessions, GuestSays(s)
  PROVE  QemuInv'
  <1>0. /\ guest[s] \in {"ok", "failed"} /\ sent[s] \in 0..(Pieces - 1)
        /\ got[s] \in 0..Pieces /\ got[s] <= sent[s]
        /\ sent' = [sent EXCEPT ![s] = sent[s] + 1]
        /\ UNCHANGED <<pc, jobVars, ret, files, mounts, staged, qemu, guest, got, code,
                       base, overlay, mishap>>
    BY DEF GuestSays, QemuInv, TypeOK, Pieces
  <1>7. sent[s] + 1 \in 0..Pieces /\ got[s] <= sent[s] + 1 /\ sent'[s] = sent[s] + 1
    BY <1>0 DEF Pieces, QemuInv, TypeOK
  <1>1. TypeOK'
    <2>1. sent' \in [Sessions -> 0..Pieces]
      BY <1>0, <1>7 DEF QemuInv, TypeOK
    <2>2. \A t \in Sessions : got'[t] <= sent'[t]
      BY <1>0, <1>7 DEF QemuInv, TypeOK
    <2> QED BY <1>0, <2>1, <2>2 DEF jobVars, QemuInv, TypeOK
  <1>2. MountShape(s)'
    BY DEF GuestSays, On, Pieces, machineVars, jobVars, QemuInv, TypeOK, Shape,
        MountShape, Mounted
  <1>3. MachineShape(s)'
    BY <1>0, <1>7 DEF QemuInv, Shape, MachineShape, On, ExitCode, Pieces
  <1>4. WorkShape(s)'
    BY DEF GuestSays, On, Pieces, machineVars, jobVars, QemuInv, TypeOK, Shape,
        WorkShape, MachineShape, Over, Creates, BeforeQemu
  <1>5. FilesShape(s)'
    BY DEF GuestSays, On, Pieces, machineVars, jobVars, QemuInv, TypeOK, Shape,
        FilesShape, MountShape, Mounted, Creates
  <1>6. \A t \in Sessions \ {s} : Same(t)
    BY DEF GuestSays, On, Pieces, machineVars, jobVars, QemuInv, TypeOK, Shape, Same
  <1> QED BY <1>1, <1>2, <1>3, <1>4, <1>5, <1>6, OthersKeepShape DEF Shape

\* qemu ends.
LEMMA QemuEndsKeeps ==
  ASSUME QemuInv, NEW s \in Sessions, QemuEnds(s)
  PROVE  QemuInv'
  <1>1. TypeOK'
    BY CodeAssumption DEF QemuEnds, On, machineVars, jobVars, QemuInv, TypeOK, Steps,
        Files, Images
  <1>2. MountShape(s)'
    BY DEF QemuEnds, On, machineVars, jobVars, QemuInv, TypeOK, Shape, MountShape,
        Mounted
  <1>3. MachineShape(s)'
    BY DEF QemuEnds, On, machineVars, jobVars, QemuInv, TypeOK, Shape, MachineShape,
        BeforeQemu, AfterQemu, ExitCode
  <1>4. WorkShape(s)'
    BY DEF QemuEnds, On, machineVars, jobVars, QemuInv, TypeOK, Shape, WorkShape,
        MachineShape, Over, Creates, BeforeQemu
  <1>5. FilesShape(s)'
    BY DEF QemuEnds, On, machineVars, jobVars, QemuInv, TypeOK, Shape, FilesShape,
        MountShape, Mounted, Creates
  <1>6. \A t \in Sessions \ {s} : Same(t)
    BY DEF QemuEnds, On, machineVars, jobVars, QemuInv, TypeOK, Shape, Same
  <1> QED BY <1>1, <1>2, <1>3, <1>4, <1>5, <1>6, OthersKeepShape DEF Shape

\* The overlay is committed.
LEMMA CommitKeeps ==
  ASSUME QemuInv, NEW s \in Sessions, NEW ok \in BOOLEAN, Commit(s, ok)
  PROVE  QemuInv'
  <1>1. TypeOK'
    BY CodeAssumption DEF Commit, Goto, machineVars, jobVars, QemuInv, TypeOK, Steps,
        Files, Images
  <1>2. MountShape(s)'
    BY DEF Commit, Goto, machineVars, jobVars, QemuInv, TypeOK, Shape, MountShape,
        Mounted
  <1>3. MachineShape(s)'
    BY DEF Commit, Goto, machineVars, jobVars, QemuInv, TypeOK, Shape, MachineShape,
        BeforeQemu, AfterQemu, On, ExitCode
  <1>4. WorkShape(s)'
    BY DEF Commit, Goto, machineVars, jobVars, QemuInv, TypeOK, Shape, WorkShape,
        MachineShape, Over, Creates, BeforeQemu
  <1>5. FilesShape(s)'
    BY DEF Commit, Goto, machineVars, jobVars, QemuInv, TypeOK, Shape, FilesShape,
        MountShape, Mounted, Creates
  <1>6. \A t \in Sessions \ {s} : Same(t)
    BY DEF Commit, Goto, machineVars, jobVars, QemuInv, TypeOK, Shape, Same
  <1> QED BY <1>1, <1>2, <1>3, <1>4, <1>5, <1>6, OthersKeepShape DEF Shape

\* The umount after qemu.
LEMMA CollectKeeps ==
  ASSUME QemuInv, NEW s \in Sessions, NEW ok \in BOOLEAN, Collect(s, ok)
  PROVE  QemuInv'
  <1>0. /\ pc[s] = "collect" /\ pc'[s] = "clean"
        /\ "umount" \notin mishap'[s] => "umount" \notin mishap[s]
        /\ "mount" \notin mishap'[s] => "mount" \notin mishap[s]
        /\ UNCHANGED <<op, files, ret>>
    BY UmountedFacts DEF Collect, Goto, machineVars, jobVars, QemuInv, TypeOK, Mishaps
  <1>1. TypeOK'
    <2>1. pc' \in [Sessions -> Steps]
      BY DEF Collect, Goto, machineVars, jobVars, QemuInv, TypeOK, Steps
    <2>2. /\ mounts' \in [Sessions -> Seq({"base", "work"})]
          /\ mishap' \in [Sessions -> SUBSET Mishaps]
      BY UmountedFacts DEF Collect
    <2> QED BY <2>1, <2>2 DEF Collect, machineVars, jobVars, QemuInv, TypeOK
  <1>2. MountShape(s)'
    BY UmountedFacts DEF Collect, Goto, machineVars, jobVars, QemuInv, TypeOK, Shape,
        MountShape, Mounted
  <1>3. MachineShape(s)'
    BY UmountedFacts DEF Collect, Goto, machineVars, jobVars, QemuInv, TypeOK, Shape,
        MachineShape, BeforeQemu, AfterQemu, On, ExitCode
  <1>4. WorkShape(s)'
    BY UmountedFacts DEF Collect, Goto, machineVars, jobVars, QemuInv, TypeOK, Shape,
        WorkShape, MachineShape, Over, Creates, BeforeQemu
  <1>5. FilesShape(s)'
    BY <1>0 DEF QemuInv, Shape, FilesShape, Creates
  <1>6. \A t \in Sessions \ {s} : Same(t)
    BY UmountedFacts DEF Collect, Goto, machineVars, jobVars, QemuInv, TypeOK, Shape,
        Same
  <1> QED BY <1>1, <1>2, <1>3, <1>4, <1>5, <1>6, OthersKeepShape DEF Shape

\* The files are removed.
LEMMA CleanKeeps ==
  ASSUME QemuInv, NEW s \in Sessions, Clean(s)
  PROVE  QemuInv'
  <1>0. /\ pc[s] = "clean" /\ pc'[s] = "done"
        /\ files'[s] = (IF Creates(s) THEN files[s] ELSE Rmdir(s, mounts[s]))
                       \ {"work", "overlay"}
        /\ files[s] \subseteq {"place", "litter", "work", "overlay"}
        /\ "umount" \notin mishap[s] => mounts[s] = <<>>
        /\ UNCHANGED <<op, mishap>>
    <2>1. mounts[s] \in Seq({"base", "work"}) /\ pc[s] = "clean"
      BY DEF Clean, QemuInv, TypeOK
    <2>2. "umount" \notin mishap[s] => Len(mounts[s]) <= 0
      BY <2>1 DEF QemuInv, Shape, MountShape, Mounted
    <2>3. Len(mounts[s]) <= 0 => mounts[s] = <<>>
      BY <2>1, EmptySeq
    <2> QED BY <2>1, <2>2, <2>3
            DEF Clean, Return, Goto, jobVars, QemuInv, TypeOK, Files
  <1>1. TypeOK'
    <2>1. /\ pc' \in [Sessions -> Steps]
          /\ ret' \in [Sessions -> Codes \cup {-1, 0, 1}]
      BY DEF Clean, Return, Rmdir, Goto, Creates, machineVars, jobVars, QemuInv, TypeOK,
          Steps
    <2>2. /\ files' \in [Sessions -> SUBSET Files]
          /\ overlay' \in [Sessions -> {"none", "clean", "written"}]
      BY DEF Clean, Return, Rmdir, Goto, Creates, machineVars, jobVars, QemuInv, TypeOK,
          Files
    <2> QED BY <2>1, <2>2 DEF Clean, machineVars, jobVars, QemuInv, TypeOK
  <1>2. MountShape(s)'
    BY DEF Clean, Return, Rmdir, Goto, Creates, machineVars, jobVars, QemuInv, TypeOK,
        Shape, MountShape, Mounted
  <1>3. MachineShape(s)'
    BY DEF Clean, Return, Rmdir, Goto, Creates, machineVars, jobVars, QemuInv, TypeOK,
        Shape, MachineShape, BeforeQemu, AfterQemu, On, ExitCode
  <1>4. WorkShape(s)'
    BY DEF Clean, Return, Rmdir, Goto, Creates, machineVars, jobVars, QemuInv, TypeOK,
        Shape, WorkShape, MachineShape, Over, BeforeQemu
  <1>5. FilesShape(s)'
    BY <1>0 DEF QemuInv, Shape, FilesShape, Creates, Rmdir
  <1>6. \A t \in Sessions \ {s} : Same(t)
    BY DEF Clean, Return, Rmdir, Goto, Creates, machineVars, jobVars, QemuInv, TypeOK,
        Shape, Same
  <1> QED BY <1>1, <1>2, <1>3, <1>4, <1>5, <1>6, OthersKeepShape DEF Shape
----------------------------------------------------------------------------
\* The invariant holds at first, after every step, and so always.
LEMMA InitInv == Init => QemuInv
  <1> SUFFICES ASSUME Init PROVE QemuInv
    OBVIOUS
  <1>1. TypeOK
    BY DEF Init, TypeOK, Steps, Images, Files, Pieces
  <1>2. \A s \in Sessions : Shape(s)
    BY DEF Init, Shape, MountShape, MachineShape, WorkShape, FilesShape, BeforeQemu,
           AfterQemu, Mounted, On, Over, Creates
  <1> QED BY <1>1, <1>2 DEF QemuInv

\* Every step keeps it.
LEMMA NextInv == QemuInv /\ [Next]_vars => QemuInv'
  <1> SUFFICES ASSUME QemuInv, [Next]_vars PROVE QemuInv'
    OBVIOUS
  <1>1. CASE UNCHANGED vars
    BY <1>1 DEF vars, QemuInv, TypeOK, Shape, MountShape, MachineShape, WorkShape,
                FilesShape, On, Over, Creates
  <1>2. ASSUME NEW s \in Sessions, Command(s)
        PROVE  QemuInv'
    BY <1>2, UnlinkBaseKeeps, MakeBaseKeeps, PlaceKeeps, MountBaseKeeps, DebootstrapKeeps,
       UmountBaseKeeps, MakeDeviceKeeps, MountWorkKeeps, ScriptsKeeps, UmountWorkKeeps,
       MakeOverlayKeeps, ForkQemuKeeps, SocketFailsKeeps, HearKeeps, WaitKeeps,
       CommitKeeps, CollectKeeps, CleanKeeps DEF Command
  <1>3. ASSUME NEW s \in Sessions, Guest(s)
        PROVE  QemuInv'
    BY <1>3, GuestStartsKeeps, GuestSaysKeeps, GuestFinishesKeeps DEF Guest
  <1> QED BY <1>1, <1>2, <1>3, StartKeeps, SelectFailsKeeps, QemuEndsKeeps DEF Next

\* It holds in every state.
LEMMA QemuInvCorrect == Spec => []QemuInv
  BY InitInv, NextInv, PTL DEF Spec

----------------------------------------------------------------------------
\* The types of all sessions' state; above all that no more is read from the
\* console than qemu has sent, and that an answer is a code or -1.
THEOREM TypeOKCorrect == Spec => []TypeOK
  <1>1. QemuInv => TypeOK
    BY DEF QemuInv
  <1> QED BY <1>1, QemuInvCorrect, PTL

\* fork_qemu has ended qemu before its caller mounts, commits or deletes the
\* images (qemubuilder.c:246-254, 505-543), for any number of sessions.
THEOREM ImagesAtRestCorrect == Spec => []ImagesAtRest
  <1>1. QemuInv => ImagesAtRest
    <2> SUFFICES ASSUME QemuInv, NEW s \in Sessions, On(s),
                        "umount" \notin mishap[s], "select" \notin mishap[s]
                 PROVE  mounts[s] = <<>> /\ pc[s] \in {"hear", "wait"}
      BY DEF ImagesAtRest
    <2>1. pc[s] \in {"hear", "wait"}
      BY DEF QemuInv, TypeOK, Steps, Shape, MachineShape, On, BeforeQemu, AfterQemu
    <2>2. mounts[s] \in Seq({"base", "work"}) /\ Len(mounts[s]) <= 0
      BY <2>1 DEF QemuInv, TypeOK, Shape, MountShape, Mounted
    <2>3. mounts[s] = <<>>
      BY <2>2, EmptySeq
    <2> QED BY <2>1, <2>3
  <1> QED BY <1>1, QemuInvCorrect, PTL

\* A guest's work is in the base only when it was to be saved and the guest
\* was through (qemubuilder.c:517-528), whatever other sessions do with the base;
\* but for a session whose select has failed, which commits a guest half way.
THEOREM SavedWholeCorrect == Spec => []SavedWhole
  <1>1. QemuInv => SavedWhole
    BY DEF QemuInv, TypeOK, Shape, WorkShape, Over, SavedWhole, Creates
  <1> QED BY <1>1, QemuInvCorrect, PTL

\* Nothing stays mounted or on the host (qemubuilder.c:531-543, 810-830).
THEOREM NothingLeftCorrect == Spec => []NothingLeft
  <1>1. QemuInv => NothingLeft
    <2> SUFFICES ASSUME QemuInv, NEW s \in Sessions, pc[s] = "done",
                        "mount" \notin mishap[s], "umount" \notin mishap[s]
                 PROVE  mounts[s] = <<>> /\ (ret[s] = 0 => files[s] = {})
      BY DEF NothingLeft
    <2>1. mounts[s] \in Seq({"base", "work"}) /\ Len(mounts[s]) <= 0
      BY DEF QemuInv, TypeOK, Shape, MountShape, Mounted
    <2>2. mounts[s] = <<>>
      BY <2>1, EmptySeq
    <2> QED BY <2>2 DEF QemuInv, Shape, FilesShape
  <1> QED BY <1>1, QemuInvCorrect, PTL

----------------------------------------------------------------------------
(* Refinement of QemuRun.                                                   *)

\* What the abstract run of a session is made of.
Seen(t) == <<pc[t] = "wait", qemu[t], sent[t], code[t]>>

\* Nothing that the run shows has changed.
LEMMA SameRun ==
  ASSUME NEW t \in Sessions, Seen(t)' = Seen(t)
  PROVE  [Run(t)!Next]_(Run(t)!vars)
  BY DEF Seen, Run!vars, Machine, Answer, On

\* A step of a session that is one of its run, or none.
LEMMA OneRun ==
  ASSUME NEW s \in Sessions, [Run(s)!Next]_(Run(s)!vars),
         \A t \in Sessions \ {s} : Seen(t)' = Seen(t)
  PROVE  \A t \in Sessions : [Run(t)!Next]_(Run(t)!vars)
  BY SameRun

\* A session that goes on while qemu and its console stay as they are.
LEMMA QuietRun ==
  ASSUME QemuInv, NEW s \in Sessions, UNCHANGED machineVars,
         pc[s] # "wait", NEW l, l # "wait", Goto(s, l)
  PROVE  \A t \in Sessions : [Run(t)!Next]_(Run(t)!vars)
  <1>1. \A t \in Sessions : Seen(t)' = Seen(t)
    BY DEF Seen, machineVars, Goto, QemuInv, TypeOK
  <1> QED BY <1>1, SameRun

\* What a session does without qemu.
LEMMA HostRun ==
  ASSUME QemuInv, NEW s \in Sessions,
         \/ \E o \in Ops : \E v \in Saves(o) : Start(s, o, v)
         \/ UnlinkBase(s) \/ MakeDevice(s) \/ Scripts(s) \/ Clean(s)
         \/ \E ok \in BOOLEAN :
               \/ MakeBase(s, ok) \/ Place(s, ok) \/ MountBase(s, ok) \/ Debootstrap(s, ok)
               \/ UmountBase(s, ok) \/ MountWork(s, ok) \/ UmountWork(s, ok)
               \/ MakeOverlay(s, ok) \/ Commit(s, ok) \/ Collect(s, ok)
  PROVE  \A t \in Sessions : [Run(t)!Next]_(Run(t)!vars)
  <1>1. UNCHANGED machineVars
    BY DEF Start, UnlinkBase, MakeDevice, Scripts, Clean, MakeBase, Place, MountBase,
           Debootstrap, UmountBase, MountWork, UmountWork, MakeOverlay, Commit, Collect
  <1>2. pc[s] # "wait" /\ \E l : l # "wait" /\ Goto(s, l)
    BY DEF Start, UnlinkBase, MakeDevice, Scripts, Clean, MakeBase, Place, MountBase,
           Debootstrap, UmountBase, MountWork, UmountWork, MakeOverlay, Commit, Collect,
           Return, AfterDebootstrap
  <1> QED BY <1>1, <1>2, QuietRun

\* fork_qemu returns c, which is an answer of the run.
LEMMA LeaveRun ==
  ASSUME QemuInv, NEW s \in Sessions, NEW c, Leave(s, c), UNCHANGED sent,
         \A t \in Sessions \ {s} : qemu'[t] = qemu[t],
         Machine(s)' = Machine(s), Answer(s) = Pending,
         \/ c = -1
         \/ c \in Codes /\ Machine(s) = "ended" /\ sent[s] >= ExitCode
  PROVE  \A t \in Sessions : [Run(t)!Next]_(Run(t)!vars)
  <1>1. pc'[s] # "wait" /\ code'[s] = c
    BY DEF Leave, Goto, After, QemuInv, TypeOK
  <1>2. Answer(s)' = c
    BY <1>1 DEF Answer
  <1>3. Run(s)!Next
    BY <1>2 DEF Run!Next, Run!Fail, Run!Answer, Run!Pending, Run!Failed, Pending
  <1>4. \A t \in Sessions \ {s} : Seen(t)' = Seen(t)
    BY DEF Seen, Leave, Goto, QemuInv, TypeOK
  <1> QED BY <1>3, <1>4, OneRun

\* Every step of Next is a step of each session's run, or none.
LEMMA NextRun ==
  ASSUME QemuInv, [Next]_vars
  PROVE  \A t \in Sessions : [Run(t)!Next]_(Run(t)!vars)
  <1>1. CASE UNCHANGED vars
    BY <1>1, SameRun DEF vars, Seen
  <1>2. ASSUME NEW s \in Sessions, NEW a \in Archs, NEW runs \in BOOLEAN,
               ForkQemu(s, a, runs)
        PROVE  \A t \in Sessions : [Run(t)!Next]_(Run(t)!vars)
    <2>1. /\ pc[s] = "fork" /\ qemu[s] = "none" /\ code[s] = Pending
          /\ pc'[s] = "hear" /\ qemu'[s] \in {"exited", "running"}
          /\ UNCHANGED <<sent, code>>
      BY <1>2 DEF ForkQemu, Goto, QemuInv, TypeOK, Shape, MachineShape, BeforeQemu
    <2>2. Run(s)!Next \/ UNCHANGED Run(s)!vars
      BY <2>1 DEF Run!Next, Run!PowerOn, Run!vars, Run!Pending, Pending, Machine, Answer, On
    <2>3. \A t \in Sessions \ {s} : Seen(t)' = Seen(t)
      BY <1>2 DEF ForkQemu, Goto, Seen, QemuInv, TypeOK
    <2> QED BY <2>2, <2>3, OneRun
  <1>3. ASSUME NEW s \in Sessions, SocketFails(s) \/ SelectFails(s)
        PROVE  \A t \in Sessions : [Run(t)!Next]_(Run(t)!vars)
    <2>1. Leave(s, -1) /\ UNCHANGED <<sent, qemu>> /\ Answer(s) = Pending
      BY <1>3 DEF SocketFails, SelectFails, Answer, QemuInv, Shape, MachineShape, BeforeQemu
    <2>2. Machine(s)' = Machine(s)
      BY <2>1 DEF Machine, On
    <2> QED BY <2>1, <2>2, LeaveRun
  <1>4. ASSUME NEW s \in Sessions, NEW n \in 1..Pieces, NEW c \in Codes, Hear(s, n, c)
        PROVE  \A t \in Sessions : [Run(t)!Next]_(Run(t)!vars)
    <2>1. pc[s] = "hear" /\ code[s] = Pending /\ UNCHANGED sent
      BY <1>4 DEF Hear, QemuInv, Shape, MachineShape
    <2>2. CASE ~Recognised(s, n)
      <3>1. \A t \in Sessions : Seen(t)' = Seen(t)
        BY <1>4, <2>1, <2>2 DEF Hear, Seen
      <3> QED BY <3>1, SameRun
    <2>3. CASE Recognised(s, n)
      <3>1. Kill(s) /\ Goto(s, "wait") /\ code' = [code EXCEPT ![s] = c]
        BY <1>4, <2>3 DEF Hear
      <3>2. Machine(s)' = Machine(s) /\ pc'[s] = "wait"
        BY <3>1 DEF Kill, Goto, Machine, On, QemuInv, TypeOK
      <3>3. UNCHANGED Run(s)!vars
        BY <2>1, <3>2 DEF Run!vars, Answer
      <3>4. \A t \in Sessions \ {s} : Seen(t)' = Seen(t)
        BY <2>1, <3>1 DEF Kill, Goto, Seen, QemuInv, TypeOK
      <3> QED BY <3>3, <3>4, OneRun
    <2> QED BY <2>2, <2>3
  <1>5. ASSUME NEW s \in Sessions, Wait(s)
        PROVE  \A t \in Sessions : [Run(t)!Next]_(Run(t)!vars)
    <2>1. /\ Leave(s, code[s]) /\ UNCHANGED sent /\ Answer(s) = Pending
          /\ code[s] \in Codes /\ sent[s] >= ExitCode
          /\ qemu[s] = "ended" /\ qemu' = [qemu EXCEPT ![s] = "reaped"]
      BY <1>5 DEF Wait, Reap, Answer, QemuInv, Shape, MachineShape
    <2>2. Machine(s) = "ended" /\ Machine(s)' = "ended"
      BY <2>1 DEF Machine, On, QemuInv, TypeOK
    <2>3. \A t \in Sessions \ {s} : qemu'[t] = qemu[t]
      BY <2>1 DEF QemuInv, TypeOK
    <2> QED BY <2>1, <2>2, <2>3, LeaveRun
  <1>6. ASSUME NEW s \in Sessions,
               GuestStarts(s) \/ \E ok \in BOOLEAN : GuestFinishes(s, ok)
        PROVE  \A t \in Sessions : [Run(t)!Next]_(Run(t)!vars)
    <2>1. \A t \in Sessions : Seen(t)' = Seen(t)
      BY <1>6 DEF GuestStarts, GuestFinishes, Seen
    <2> QED BY <2>1, SameRun
  <1>7. ASSUME NEW s \in Sessions, GuestSays(s)
        PROVE  \A t \in Sessions : [Run(t)!Next]_(Run(t)!vars)
    <2>1. /\ On(s) /\ sent[s] \in 0..Pieces /\ sent' = [sent EXCEPT ![s] = @ + 1]
          /\ UNCHANGED <<pc, qemu, code>>
      BY <1>7 DEF GuestSays, QemuInv, TypeOK
    <2>2. Machine(s) = "on" /\ Machine(s)' = "on" /\ Answer(s)' = Answer(s)
      BY <2>1 DEF Machine, Answer, On
    <2>3. sent'[s] = sent[s] + 1
      BY <2>1 DEF QemuInv, TypeOK
    <2>4. (sent[s] >= ExitCode) => (sent'[s] >= ExitCode)
      BY <2>1, <2>3 DEF ExitCode, Pieces
    <2>5. Run(s)!Next \/ UNCHANGED Run(s)!vars
      <3>1. CASE sent'[s] >= ExitCode
        BY <2>2, <3>1 DEF Run!Next, Run!Say
      <3>2. CASE ~(sent'[s] >= ExitCode)
        BY <2>2, <2>4, <3>2 DEF Run!vars
      <3> QED BY <3>1, <3>2
    <2>6. \A t \in Sessions \ {s} : Seen(t)' = Seen(t)
      BY <2>1 DEF Seen, QemuInv, TypeOK
    <2> QED BY <2>5, <2>6, OneRun
  <1>8. ASSUME NEW s \in Sessions, QemuEnds(s)
        PROVE  \A t \in Sessions : [Run(t)!Next]_(Run(t)!vars)
    <2>1. On(s) /\ qemu' = [qemu EXCEPT ![s] = "ended"] /\ UNCHANGED <<pc, sent, code>>
      BY <1>8 DEF QemuEnds
    <2>2. Machine(s) = "on" /\ Machine(s)' = "ended" /\ Answer(s)' = Answer(s)
      BY <2>1 DEF Machine, Answer, On, QemuInv, TypeOK
    <2>3. Run(s)!Next
      BY <2>1, <2>2 DEF Run!Next, Run!PowerOff
    <2>4. \A t \in Sessions \ {s} : Seen(t)' = Seen(t)
      BY <2>1 DEF Seen, QemuInv, TypeOK
    <2> QED BY <2>3, <2>4, OneRun
  <1> QED BY <1>1, <1>2, <1>3, <1>4, <1>5, <1>6, <1>7, <1>8, HostRun
          DEF Next, Command, Guest

\* fork_qemu, inside any number of sessions, runs qemu the way the comment above
\* it says: an answer that is no error comes after the guest's words and after
\* the end of the machine (qemubuilder.c:184-191).
THEOREM ForkQemuRunsCorrect == Spec => ForkQemuRuns
  <1> DEFINE StartsRuns == \A s \in Sessions : Run(s)!Init
             StepsRuns == \A s \in Sessions : [Run(s)!Next]_(Run(s)!vars)
  <1>1. Init => StartsRuns
    BY DEF Init, Run!Init, Run!Pending, Pending, Machine, Answer, On, ExitCode
  <1>2. QemuInv /\ [Next]_vars => [StepsRuns]_vars
    BY NextRun
  <1>3. ForkQemuRuns <=> StartsRuns /\ [][StepsRuns]_vars
    BY DEF ForkQemuRuns
  <1> HIDE DEF StartsRuns, StepsRuns
  <1> QED BY <1>1, <1>2, <1>3, QemuInvCorrect, PTL DEF Spec
=============================================================================
