--------------------------- MODULE CowShell_proof ---------------------------
(***************************************************************************)
(* Proofs about CowShell for any number of sessions, of writes and of list *)
(* files.                                                                  *)
(***************************************************************************)
EXTENDS CowShell, WellFoundedInduction, TLAPS

\* What one session's variables hold at each stage.
LocalShape(s) ==
    /\ pc[s] \in {"idle", "unlink", "find", "fopen", "write", "setenv", "fork"} =>
         deleter[s] = "none"
    /\ pc[s] = "fork" \/ deleter[s] # "none" => s \notin Reusing
    /\ pc[s] # "run" => alive[s] = "none"
    /\ alive[s] = "none" => views[s] = {}
    /\ s \in foreign => alive[s] = "main"
    /\ pc[s] \in {"idle", "unlink", "find", "fopen"} => written[s] = 0
    /\ pc[s] = "write" => out[s] \in Files /\ written[s] < Chunks
    /\ deleter[s] = "watchingInit" => ~Lives(s)

Alone(s) == \A q \in Sessions \ {s} : ~Present(q)

\* While no two sessions have got in each other's way, one that makes a list is
\* alone, and so is one whose daemon is going to remove it.
AloneShape(s) ==
    /\ Creating(s) => Alone(s)
    /\ host.atRoot /\ Present(s) /\ s \notin Reusing => Alone(s)

\* The list file of a session: what has been written of it, that it is whole
\* when the program starts, and that it is not touched afterwards but by a
\* daemon that has been refused.
ListShape(s) ==
    /\ pc[s] = "write" => file = out[s] /\ content[out[s]] = 1..written[s]
    /\ sound[s] /\ Lives(s) /\ ~Creating(s) /\ ~Refused(s) => Whole(file)
    /\ sound[s] /\ alive[s] # "none" => file = None \/ Whole(file)
    /\ sound[s] => \A v \in views[s] : Whole(v.file) /\ v.len = Chunks

ShellInv ==
    /\ TypeOK
    /\ \A s \in Sessions : LocalShape(s)
    /\ ~overlapped => \A s \in Sessions : AloneShape(s) /\ ListShape(s)

----------------------------------------------------------------------------
(* The largest number in a list file.                                       *)

\* A set of write calls has a last one.
LEMMA LastChunk ==
  ASSUME NEW n \in Nat, NEW c \in SUBSET (1..n)
  PROVE  Max(c \cup {0}) \in 0..n
  <1> DEFINE S == c \cup {0}
             T == {n - x : x \in S}
  <1>1. T \in SUBSET Nat /\ T # {}
    OBVIOUS
  <1>2. PICK m \in T : \A k \in T : m <= k
    <2> DEFINE R == OpToRel(<, Nat)
    <2>1. IsWellFoundedOn(R, Nat)
      BY NatLessThanWellFounded
    <2>2. \A i, j \in Nat : i < j => <<i, j>> \in R
      BY DEF OpToRel
    <2> HIDE DEF R, T
    <2>3. PICK m \in T : \A k \in T : ~(<<k, m>> \in R)
      BY <1>1, <2>1, WFMin
    <2>4. ASSUME NEW k \in T
          PROVE  m <= k
      <3>1. m \in Nat /\ k \in Nat
        BY <1>1
      <3>2. ~(k < m)
        BY <2>2, <2>3, <3>1
      <3> QED BY <3>1, <3>2
    <2> QED BY <2>4
  <1>3. PICK x \in S : m = n - x
    BY <1>2
  <1>4. \A y \in S : x >= y
    <2> SUFFICES ASSUME NEW y \in S PROVE x >= y
      OBVIOUS
    <2>1. n - y \in T /\ m <= n - y
      BY <1>2
    <2> QED BY <1>3, <2>1
  <1>5. Max(S) \in S
    BY <1>4 DEF Max
  <1>6. S \subseteq 0..n
    OBVIOUS
  <1> HIDE DEF S
  <1>7. Max(S) \in 0..n
    BY <1>5, <1>6
  <1> QED BY <1>7 DEF S

\* In a whole list it is the number of the writes.
LEMMA LastOfWhole ==
  ASSUME NEW n \in Nat \ {0}
  PROVE  Max((1..n) \cup {0}) = n
  <1> DEFINE S == (1..n) \cup {0}
  <1>1. n \in S /\ \A y \in S : n >= y
    OBVIOUS
  <1>2. \A x \in S : (\A y \in S : x >= y) => x = n
    OBVIOUS
  <1> HIDE DEF S
  <1>3. Max(S) \in S /\ \A y \in S : Max(S) >= y
    BY <1>1 DEF Max
  <1>4. Max(S) = n
    BY <1>2, <1>3
  <1> QED BY <1>4 DEF S

----------------------------------------------------------------------------
(* What a step of one session leaves of the others.                         *)

\* A step of another session.
Same(t) ==
    /\ pc'[t] = pc[t] /\ out'[t] = out[t] /\ written'[t] = written[t]
    /\ alive'[t] = alive[t] /\ views'[t] = views[t] /\ deleter'[t] = deleter[t]
    /\ sound'[t] = sound[t] /\ (t \in foreign' <=> t \in foreign)

\* A session that is not started, or has ended, has no part in the list.
LEMMA AbsentSession ==
  ASSUME ShellInv, NEW t \in Sessions, ~Present(t)
  PROVE  ~Lives(t) /\ ~Creating(t) /\ pc[t] # "write" /\ alive[t] = "none" /\ views[t] = {}
  <1>1. ~Lives(t) /\ ~Creating(t) /\ alive[t] # "main" /\ alive[t] # "orphans"
    BY DEF Present, Lives
  <1>2. alive[t] = "none"
    BY <1>1 DEF ShellInv, TypeOK
  <1> QED BY <1>1, <1>2 DEF ShellInv, LocalShape, Creating

\* The step of s keeps the invariant if it keeps it for s, starts nothing, and
\* touches the list only when s is alone.
LEMMA OthersKeepShape ==
  ASSUME ShellInv, NEW s \in Sessions, \A t \in Sessions \ {s} : Same(t),
         UNCHANGED <<host, ghostVars>>,
         TypeOK', LocalShape(s)', ~overlapped => ListShape(s)',
         Present(s)' => Present(s), Creating(s)' => Creating(s),
         UNCHANGED <<file, content>> \/ (~overlapped => Alone(s))
  PROVE  ShellInv'
  <1>0. host' = host /\ overlapped' = overlapped
    BY DEF ghostVars
  <1>1. ASSUME NEW t \in Sessions, t # s
        PROVE  /\ LocalShape(t)' /\ (Creating(t)' <=> Creating(t)) /\ (Lives(t)' <=> Lives(t))
               /\ Present(t)' <=> Present(t)
    <2>1. Same(t) /\ LocalShape(t)
      BY <1>1 DEF ShellInv
    <2> QED BY <1>0, <2>1 DEF Same, LocalShape, Lives, Creating, Present
  <1>2. \A t \in Sessions : LocalShape(t)'
    BY <1>1
  <1> SUFFICES ASSUME ~overlapped, NEW t \in Sessions
               PROVE  AloneShape(t)' /\ ListShape(t)'
    BY <1>0, <1>2 DEF ShellInv
  <1>3. \A q \in Sessions : Present(q)' => Present(q)
    BY <1>1
  <1>4. Creating(t)' => Creating(t)
    BY <1>1
  <1>5. AloneShape(t)'
    BY <1>0, <1>3, <1>4 DEF ShellInv, AloneShape, Alone
  <1>6. CASE t = s
    BY <1>5, <1>6
  <1>7. CASE t # s /\ UNCHANGED <<file, content>>
    <2>1. Same(t) /\ ListShape(t) /\ (Creating(t)' <=> Creating(t)) /\ (Lives(t)' <=> Lives(t))
      BY <1>1, <1>7 DEF ShellInv
    <2>2. ListShape(t)'
      BY <1>7, <2>1 DEF Same, ListShape, Whole, Refused, OutOfReach
    <2> QED BY <1>5, <2>2
  <1>8. CASE t # s /\ Alone(s)
    <2>1. ~Present(t) /\ Same(t)
      BY <1>8 DEF Alone
    <2>2. ~Lives(t) /\ pc[t] # "write" /\ alive[t] = "none" /\ views[t] = {}
      BY <2>1, AbsentSession
    <2>3. ~Lives(t)' /\ pc'[t] # "write" /\ alive'[t] = "none" /\ views'[t] = {}
      BY <1>1, <1>8, <2>1, <2>2 DEF Same
    <2>4. ListShape(t)'
      BY <2>3 DEF ListShape
    <2> QED BY <1>5, <2>4
  <1> QED BY <1>6, <1>7, <1>8

----------------------------------------------------------------------------
(* Each action keeps the invariant.                                         *)

\* A session starts: it makes a list, and is alone or overlaps; or it takes
\* the list it finds.
LEMMA StartKeeps ==
  ASSUME ShellInv, NEW s \in Sessions, Start(s)
  PROVE  ShellInv'
  <1>0. /\ pc[s] = "idle" /\ pc' = [pc EXCEPT ![s] = IF Reuses(s) THEN "setenv" ELSE "unlink"]
        /\ UNCHANGED <<host, foreign, file, content, out, written, alive, views, deleter>>
        /\ sound' = [sound EXCEPT ![s] = Reuses(s) => Whole(file)]
    BY DEF Start, Goto
  <1>1. TypeOK /\ LocalShape(s)
    BY DEF ShellInv
  <1>2. overlapped' \in BOOLEAN
    BY <1>1 DEF Start, TypeOK
  <1>3. TypeOK'
    BY <1>0, <1>1, <1>2 DEF TypeOK
  <1>4. \A t \in Sessions \ {s} : Same(t)
    BY <1>0, <1>1 DEF Same, TypeOK
  <1>5. \A t \in Sessions \ {s} : /\ Creating(t)' <=> Creating(t)
                                  /\ Lives(t)' <=> Lives(t)
                                  /\ Present(t)' <=> Present(t)
    BY <1>0, <1>4 DEF Same, Creating, Lives, Present
  <1>6. LocalShape(s)'
    BY <1>0, <1>1 DEF LocalShape, Lives, Creating, TypeOK
  <1>7. \A t \in Sessions : LocalShape(t)'
    <2> SUFFICES ASSUME NEW t \in Sessions, t # s PROVE LocalShape(t)'
      BY <1>6
    <2>1. LocalShape(t) /\ Same(t)
      BY <1>4 DEF ShellInv
    <2> QED BY <1>5, <2>1 DEF LocalShape, Same
  <1> SUFFICES ASSUME ~overlapped' PROVE \A t \in Sessions : AloneShape(t)' /\ ListShape(t)'
    BY <1>3, <1>7 DEF ShellInv
  <1>8. /\ ~overlapped
        /\ \A q \in Sessions \ {s} : Present(q) => /\ Reuses(s) /\ ~Creating(q)
                                                   /\ ~(host.atRoot /\ q \notin Reusing)
    BY DEF Start
  <1>9. alive[s] = "none" /\ views[s] = {} /\ written[s] = 0 /\ alive'[s] = "none"
        /\ deleter[s] = "none" /\ views'[s] = {}
    BY <1>0, <1>1 DEF LocalShape
  <1>10. pc'[s] = IF Reuses(s) THEN "setenv" ELSE "unlink"
    BY <1>0, <1>1 DEF TypeOK
  <1>11. Creating(s)' <=> ~Reuses(s)
    BY <1>10 DEF Creating
  <1>12. AloneShape(s)'
    <2>1. ~Reuses(s) => Alone(s)'
      BY <1>5, <1>8 DEF Alone
    <2>2. s \notin Reusing => ~Reuses(s)
      BY DEF Reuses
    <2> QED BY <1>11, <2>1, <2>2 DEF AloneShape
  <1>13. ListShape(s)'
    <2>1. sound'[s] <=> (Reuses(s) => Whole(file))
      BY <1>0, <1>1 DEF TypeOK
    <2>2. sound'[s] /\ ~Creating(s)' => Whole(file)'
      BY <1>0, <1>11, <2>1 DEF Whole
    <2> QED BY <1>9, <1>10, <2>2 DEF ListShape
  <1>14. ASSUME NEW t \in Sessions, t # s
         PROVE  AloneShape(t)' /\ ListShape(t)'
    <2>1. Same(t) /\ AloneShape(t) /\ ListShape(t)
      BY <1>4, <1>8, <1>14 DEF ShellInv
    <2>2. Present(t) => ~Creating(t) /\ ~(host.atRoot /\ t \notin Reusing)
      BY <1>8, <1>14
    <2>3. Creating(t) => Present(t)
      BY DEF Present, Lives
    <2>4. AloneShape(t)'
      BY <1>0, <1>5, <1>14, <2>2, <2>3 DEF AloneShape
    <2>5. ListShape(t)'
      BY <1>0, <1>5, <1>14, <2>1 DEF Same, ListShape, Whole, Refused, OutOfReach
    <2> QED BY <2>4, <2>5
  <1> QED BY <1>12, <1>13, <1>14
\* The list of an earlier session is removed.
LEMMA UnlinkListKeeps ==
  ASSUME ShellInv, NEW s \in Sessions, UnlinkList(s)
  PROVE  ShellInv'
  <1>1. TypeOK'
    BY DEF ShellInv, TypeOK, UnlinkList, Goto, sessionVars, ghostVars
  <1>2. LocalShape(s)'
    BY DEF ShellInv, TypeOK, LocalShape, Lives, Creating, UnlinkList, Goto, sessionVars,
           ghostVars
  <1>3. ~overlapped => ListShape(s)'
    BY DEF ShellInv, TypeOK, LocalShape, ListShape, Whole, Refused, OutOfReach, Lives,
           Creating, UnlinkList, Goto, sessionVars, ghostVars
  <1>4. \A t \in Sessions \ {s} : Same(t)
    BY DEF ShellInv, TypeOK, Same, UnlinkList, Goto, sessionVars, ghostVars
  <1>5. /\ UNCHANGED <<host, ghostVars>>
        /\ Present(s)' => Present(s)
        /\ Creating(s)' => Creating(s)
    BY DEF ShellInv, TypeOK, LocalShape, Present, Lives, Creating, UnlinkList, Goto,
           sessionVars, ghostVars
  <1>6. ~overlapped => Alone(s)
    BY DEF ShellInv, AloneShape, Creating, UnlinkList, Goto, sessionVars, ghostVars
  <1> QED BY <1>1, <1>2, <1>3, <1>4, <1>5, <1>6, OthersKeepShape

\* find has run.
LEMMA FindListKeeps ==
  ASSUME ShellInv, NEW s \in Sessions, FindList(s)
  PROVE  ShellInv'
  <1>1. TypeOK'
    BY DEF ShellInv, TypeOK, FindList, Goto, sessionVars, ghostVars
  <1>2. LocalShape(s)'
    BY DEF ShellInv, TypeOK, LocalShape, Lives, Creating, FindList, Goto, sessionVars,
           ghostVars
  <1>3. ~overlapped => ListShape(s)'
    BY DEF ShellInv, TypeOK, LocalShape, ListShape, Whole, Refused, OutOfReach, Lives,
           Creating, FindList, Goto, sessionVars, ghostVars
  <1>4. \A t \in Sessions \ {s} : Same(t)
    BY DEF ShellInv, TypeOK, Same, FindList, Goto, sessionVars, ghostVars
  <1>5. /\ UNCHANGED <<host, ghostVars>>
        /\ Present(s)' => Present(s)
        /\ Creating(s)' => Creating(s)
    BY DEF ShellInv, TypeOK, LocalShape, Present, Lives, Creating, FindList, Goto,
           sessionVars, ghostVars
  <1>6. UNCHANGED <<file, content>>
    BY DEF FindList, Goto, sessionVars, ghostVars
  <1> QED BY <1>1, <1>2, <1>3, <1>4, <1>5, <1>6, OthersKeepShape

\* The list is left as far as it has been written, and no program starts.
LEMMA IlistCreateFailsKeeps ==
  ASSUME ShellInv, NEW s \in Sessions, IlistCreateFails(s)
  PROVE  ShellInv'
  <1>1. TypeOK'
    BY DEF ShellInv, TypeOK, IlistCreateFails, AfterFailure, Goto, sessionVars, ghostVars
  <1>2. LocalShape(s)'
    BY DEF ShellInv, TypeOK, LocalShape, Lives, Creating, IlistCreateFails, AfterFailure,
           Goto, sessionVars, ghostVars
  <1>3. ~overlapped => ListShape(s)'
    BY DEF ShellInv, TypeOK, LocalShape, ListShape, Whole, Refused, OutOfReach, Lives,
           Creating, IlistCreateFails, AfterFailure, Goto, sessionVars, ghostVars
  <1>4. \A t \in Sessions \ {s} : Same(t)
    BY DEF ShellInv, TypeOK, Same, IlistCreateFails, AfterFailure, Goto, sessionVars,
           ghostVars
  <1>5. /\ UNCHANGED <<host, ghostVars>>
        /\ Present(s)' => Present(s)
        /\ Creating(s)' => Creating(s)
    BY DEF ShellInv, TypeOK, LocalShape, Present, Lives, Creating, IlistCreateFails,
           AfterFailure, Goto, sessionVars, ghostVars
  <1>6. UNCHANGED <<file, content>>
    BY DEF IlistCreateFails, AfterFailure, Goto, sessionVars, ghostVars
  <1> QED BY <1>1, <1>2, <1>3, <1>4, <1>5, <1>6, OthersKeepShape

\* The list is found again, or the session ends.
LEMMA SetEnvVarsKeeps ==
  ASSUME ShellInv, NEW s \in Sessions, SetEnvVars(s)
  PROVE  ShellInv'
  <1>1. TypeOK'
    BY DEF ShellInv, TypeOK, SetEnvVars, Goto, sessionVars, ghostVars
  <1>2. LocalShape(s)'
    BY DEF ShellInv, TypeOK, LocalShape, Lives, Creating, SetEnvVars, Goto, sessionVars,
           ghostVars
  <1>3. ~overlapped => ListShape(s)'
    BY DEF ShellInv, TypeOK, LocalShape, ListShape, Whole, Refused, OutOfReach, Lives,
           Creating, SetEnvVars, Goto, sessionVars, ghostVars
  <1>4. \A t \in Sessions \ {s} : Same(t)
    BY DEF ShellInv, TypeOK, Same, SetEnvVars, Goto, sessionVars, ghostVars
  <1>5. /\ UNCHANGED <<host, ghostVars>>
        /\ Present(s)' => Present(s)
        /\ Creating(s)' => Creating(s)
    BY DEF ShellInv, TypeOK, LocalShape, Present, Lives, Creating, SetEnvVars, Goto,
           sessionVars, ghostVars
  <1>6. UNCHANGED <<file, content>>
    BY DEF SetEnvVars, Goto, sessionVars, ghostVars
  <1> QED BY <1>1, <1>2, <1>3, <1>4, <1>5, <1>6, OthersKeepShape

\* The daemon of a session that has made its list.
LEMMA ForkDeleterKeeps ==
  ASSUME ShellInv, NEW s \in Sessions, NEW forked \in BOOLEAN, ForkDeleter(s, forked)
  PROVE  ShellInv'
  <1>1. TypeOK'
    BY DEF ShellInv, TypeOK, ForkDeleter, Goto, sessionVars, ghostVars
  <1>2. LocalShape(s)'
    BY DEF ShellInv, TypeOK, LocalShape, Lives, Creating, ForkDeleter, Goto, sessionVars,
           ghostVars
  <1>3. ~overlapped => ListShape(s)'
    BY DEF ShellInv, TypeOK, LocalShape, ListShape, Whole, Refused, OutOfReach, Lives,
           Creating, ForkDeleter, Goto, sessionVars, ghostVars
  <1>4. \A t \in Sessions \ {s} : Same(t)
    BY DEF ShellInv, TypeOK, Same, ForkDeleter, Goto, sessionVars, ghostVars
  <1>5. /\ UNCHANGED <<host, ghostVars>>
        /\ Present(s)' => Present(s)
        /\ Creating(s)' => Creating(s)
    BY DEF ShellInv, TypeOK, LocalShape, Present, Lives, Creating, ForkDeleter, Goto,
           sessionVars, ghostVars
  <1>6. UNCHANGED <<file, content>>
    BY DEF ForkDeleter, Goto, sessionVars, ghostVars
  <1> QED BY <1>1, <1>2, <1>3, <1>4, <1>5, <1>6, OthersKeepShape

\* The program starts, with the list whole if it was.
LEMMA ExecKeeps ==
  ASSUME ShellInv, NEW s \in Sessions, Exec(s)
  PROVE  ShellInv'
  <1>1. TypeOK'
    BY DEF ShellInv, TypeOK, Exec, Goto, sessionVars, ghostVars
  <1>2. LocalShape(s)'
    <2>1. /\ pc[s] = "exec" /\ pc'[s] = "run" /\ alive'[s] = "main"
          /\ UNCHANGED <<out, written, views, deleter>>
      BY DEF ShellInv, TypeOK, Exec, Goto
    <2>2. LocalShape(s) /\ Lives(s)
      BY <2>1 DEF ShellInv, Lives
    <2> QED BY <2>1, <2>2 DEF LocalShape, Lives, Creating
  <1>3. ASSUME ~overlapped
        PROVE  ListShape(s)'
    <2>1. /\ pc[s] = "exec" /\ pc'[s] = "run"
          /\ UNCHANGED <<host, file, content, foreign, views, deleter, sound>>
      BY DEF ShellInv, TypeOK, Exec, Goto, ghostVars
    <2>2. LocalShape(s) /\ ListShape(s) /\ Lives(s) /\ ~Creating(s)
      BY <1>3, <2>1 DEF ShellInv, Lives, Creating
    <2>3. ~Refused(s) /\ views[s] = {}
      BY <2>1, <2>2 DEF LocalShape, Refused, OutOfReach
    <2>4. sound[s] => Whole(file)
      BY <2>2, <2>3 DEF ListShape
    <2> QED BY <2>1, <2>3, <2>4 DEF ListShape, Whole
  <1>4. \A t \in Sessions \ {s} : Same(t)
    BY DEF ShellInv, TypeOK, Same, Exec, Goto, sessionVars, ghostVars
  <1>5. /\ UNCHANGED <<host, ghostVars>>
        /\ Present(s)' => Present(s)
        /\ Creating(s)' => Creating(s)
    BY DEF ShellInv, TypeOK, LocalShape, Present, Lives, Creating, Exec, Goto,
           sessionVars, ghostVars
  <1>6. UNCHANGED <<file, content>>
    BY DEF Exec, Goto, sessionVars, ghostVars
  <1> QED BY <1>1, <1>2, <1>3, <1>4, <1>5, <1>6, OthersKeepShape

\* unlink or exec fails.
LEMMA FailsKeeps ==
  ASSUME ShellInv, NEW s \in Sessions, Fails(s)
  PROVE  ShellInv'
  <1>1. TypeOK'
    BY DEF ShellInv, TypeOK, Fails, Goto, sessionVars, ghostVars
  <1>2. LocalShape(s)'
    BY DEF ShellInv, TypeOK, LocalShape, Lives, Creating, Fails, Goto, sessionVars,
           ghostVars
  <1>3. ~overlapped => ListShape(s)'
    BY DEF ShellInv, TypeOK, LocalShape, ListShape, Whole, Refused, OutOfReach, Lives,
           Creating, Fails, Goto, sessionVars, ghostVars
  <1>4. \A t \in Sessions \ {s} : Same(t)
    BY DEF ShellInv, TypeOK, Same, Fails, Goto, sessionVars, ghostVars
  <1>5. /\ UNCHANGED <<host, ghostVars>>
        /\ Present(s)' => Present(s)
        /\ Creating(s)' => Creating(s)
    BY DEF ShellInv, TypeOK, LocalShape, Present, Lives, Creating, Fails, Goto,
           sessionVars, ghostVars
  <1>6. UNCHANGED <<file, content>>
    BY DEF Fails, Goto, sessionVars, ghostVars
  <1> QED BY <1>1, <1>2, <1>3, <1>4, <1>5, <1>6, OthersKeepShape

\* cow-shell is killed.
LEMMA KilledKeeps ==
  ASSUME ShellInv, NEW s \in Sessions, Killed(s)
  PROVE  ShellInv'
  <1>1. TypeOK'
    BY DEF ShellInv, TypeOK, Killed, Goto, sessionVars, ghostVars
  <1>2. LocalShape(s)'
    BY DEF ShellInv, TypeOK, LocalShape, Lives, Creating, Killed, Goto, sessionVars,
           ghostVars
  <1>3. ~overlapped => ListShape(s)'
    BY DEF ShellInv, TypeOK, LocalShape, ListShape, Whole, Refused, OutOfReach, Lives,
           Creating, Killed, Goto, sessionVars, ghostVars
  <1>4. \A t \in Sessions \ {s} : Same(t)
    BY DEF ShellInv, TypeOK, Same, Killed, Goto, sessionVars, ghostVars
  <1>5. /\ UNCHANGED <<host, ghostVars>>
        /\ Present(s)' => Present(s)
        /\ Creating(s)' => Creating(s)
    BY DEF ShellInv, TypeOK, LocalShape, Present, Lives, Creating, Killed, Goto,
           sessionVars, ghostVars
  <1>6. UNCHANGED <<file, content>>
    BY DEF Killed, Goto, sessionVars, ghostVars
  <1> QED BY <1>1, <1>2, <1>3, <1>4, <1>5, <1>6, OthersKeepShape

\* The program's first process exits.
LEMMA MainExitsKeeps ==
  ASSUME ShellInv, NEW s \in Sessions, NEW left \in {"none", "orphans"}, MainExits(s, left)
  PROVE  ShellInv'
  <1>1. TypeOK'
    BY DEF ShellInv, TypeOK, MainExits, Goto, sessionVars, ghostVars
  <1>2. LocalShape(s)'
    BY DEF ShellInv, TypeOK, LocalShape, Lives, Creating, MainExits, Goto, sessionVars,
           ghostVars
  <1>3. ~overlapped => ListShape(s)'
    BY DEF ShellInv, TypeOK, LocalShape, ListShape, Whole, Refused, OutOfReach, Lives,
           Creating, MainExits, Goto, sessionVars, ghostVars
  <1>4. \A t \in Sessions \ {s} : Same(t)
    BY DEF ShellInv, TypeOK, Same, MainExits, Goto, sessionVars, ghostVars
  <1>5. /\ UNCHANGED <<host, ghostVars>>
        /\ Present(s)' => Present(s)
        /\ Creating(s)' => Creating(s)
    BY DEF ShellInv, TypeOK, LocalShape, Present, Lives, Creating, MainExits, Goto,
           sessionVars, ghostVars
  <1>6. UNCHANGED <<file, content>>
    BY DEF MainExits, Goto, sessionVars, ghostVars
  <1> QED BY <1>1, <1>2, <1>3, <1>4, <1>5, <1>6, OthersKeepShape

\* The program becomes another user's.
LEMMA ChangesUserKeeps ==
  ASSUME ShellInv, NEW s \in Sessions, ChangesUser(s)
  PROVE  ShellInv'
  <1>1. TypeOK'
    BY DEF ShellInv, TypeOK, ChangesUser, Goto, sessionVars, ghostVars
  <1>2. LocalShape(s)'
    BY DEF ShellInv, TypeOK, LocalShape, Lives, Creating, ChangesUser, Goto, sessionVars,
           ghostVars
  <1>3. ~overlapped => ListShape(s)'
    BY DEF ShellInv, TypeOK, LocalShape, ListShape, Whole, Refused, OutOfReach, Lives,
           Creating, ChangesUser, Goto, sessionVars, ghostVars
  <1>4. \A t \in Sessions \ {s} : Same(t)
    BY DEF ShellInv, TypeOK, Same, ChangesUser, Goto, sessionVars, ghostVars
  <1>5. /\ UNCHANGED <<host, ghostVars>>
        /\ Present(s)' => Present(s)
        /\ Creating(s)' => Creating(s)
    BY DEF ShellInv, TypeOK, LocalShape, Present, Lives, Creating, ChangesUser, Goto,
           sessionVars, ghostVars
  <1>6. UNCHANGED <<file, content>>
    BY DEF ChangesUser, Goto, sessionVars, ghostVars
  <1> QED BY <1>1, <1>2, <1>3, <1>4, <1>5, <1>6, OthersKeepShape

\* The others do.
LEMMA OrphansExitKeeps ==
  ASSUME ShellInv, NEW s \in Sessions, OrphansExit(s)
  PROVE  ShellInv'
  <1>1. TypeOK'
    BY DEF ShellInv, TypeOK, OrphansExit, Goto, sessionVars, ghostVars
  <1>2. LocalShape(s)'
    BY DEF ShellInv, TypeOK, LocalShape, Lives, Creating, OrphansExit, Goto, sessionVars,
           ghostVars
  <1>3. ~overlapped => ListShape(s)'
    BY DEF ShellInv, TypeOK, LocalShape, ListShape, Whole, Refused, OutOfReach, Lives,
           Creating, OrphansExit, Goto, sessionVars, ghostVars
  <1>4. \A t \in Sessions \ {s} : Same(t)
    BY DEF ShellInv, TypeOK, Same, OrphansExit, Goto, sessionVars, ghostVars
  <1>5. /\ UNCHANGED <<host, ghostVars>>
        /\ Present(s)' => Present(s)
        /\ Creating(s)' => Creating(s)
    BY DEF ShellInv, TypeOK, LocalShape, Present, Lives, Creating, OrphansExit, Goto,
           sessionVars, ghostVars
  <1>6. UNCHANGED <<file, content>>
    BY DEF OrphansExit, Goto, sessionVars, ghostVars
  <1> QED BY <1>1, <1>2, <1>3, <1>4, <1>5, <1>6, OthersKeepShape

\* The daemon knows its session, or finds that it has ended.
LEMMA DeleterStartsKeeps ==
  ASSUME ShellInv, NEW s \in Sessions, DeleterStarts(s)
  PROVE  ShellInv'
  <1>1. TypeOK'
    BY DEF ShellInv, TypeOK, DeleterStarts, Goto, sessionVars, ghostVars
  <1>2. LocalShape(s)'
    BY DEF ShellInv, TypeOK, LocalShape, Lives, Creating, DeleterStarts, Goto,
           sessionVars, ghostVars
  <1>3. ~overlapped => ListShape(s)'
    BY DEF ShellInv, TypeOK, LocalShape, ListShape, Whole, Refused, OutOfReach, Lives,
           Creating, DeleterStarts, Goto, sessionVars, ghostVars
  <1>4. \A t \in Sessions \ {s} : Same(t)
    BY DEF ShellInv, TypeOK, Same, DeleterStarts, Goto, sessionVars, ghostVars
  <1>5. /\ UNCHANGED <<host, ghostVars>>
        /\ Present(s)' => Present(s)
        /\ Creating(s)' => Creating(s)
    BY DEF ShellInv, TypeOK, LocalShape, Present, Lives, Creating, DeleterStarts, Goto,
           sessionVars, ghostVars
  <1>6. UNCHANGED <<file, content>>
    BY DEF DeleterStarts, Goto, sessionVars, ghostVars
  <1> QED BY <1>1, <1>2, <1>3, <1>4, <1>5, <1>6, OthersKeepShape

\* There is no daemon after all.
LEMMA DaemonFailsKeeps ==
  ASSUME ShellInv, NEW s \in Sessions, DaemonFails(s)
  PROVE  ShellInv'
  <1>1. TypeOK'
    BY DEF ShellInv, TypeOK, DaemonFails, Goto, sessionVars, ghostVars
  <1>2. LocalShape(s)'
    BY DEF ShellInv, TypeOK, LocalShape, Lives, Creating, DaemonFails, Goto, sessionVars,
           ghostVars
  <1>3. ~overlapped => ListShape(s)'
    BY DEF ShellInv, TypeOK, LocalShape, ListShape, Whole, Refused, OutOfReach, Lives,
           Creating, DaemonFails, Goto, sessionVars, ghostVars
  <1>4. \A t \in Sessions \ {s} : Same(t)
    BY DEF ShellInv, TypeOK, Same, DaemonFails, Goto, sessionVars, ghostVars
  <1>5. /\ UNCHANGED <<host, ghostVars>>
        /\ Present(s)' => Present(s)
        /\ Creating(s)' => Creating(s)
    BY DEF ShellInv, TypeOK, LocalShape, Present, Lives, Creating, DaemonFails, Goto,
           sessionVars, ghostVars
  <1>6. UNCHANGED <<file, content>>
    BY DEF DaemonFails, Goto, sessionVars, ghostVars
  <1> QED BY <1>1, <1>2, <1>3, <1>4, <1>5, <1>6, OthersKeepShape

\* The list file is made, or truncated; a session that is alone is the only one
\* that has it open.
LEMMA FopenListKeeps ==
  ASSUME ShellInv, NEW s \in Sessions, NEW f \in Files, FopenList(s, f)
  PROVE  ShellInv'
  <1>0. /\ pc[s] = "fopen" /\ pc' = [pc EXCEPT ![s] = "write"] /\ file' = f
        /\ content' = [content EXCEPT ![f] = {}] /\ out' = [out EXCEPT ![s] = f]
        /\ UNCHANGED <<host, foreign, written, alive, views, deleter, overlapped, sound>>
    BY DEF FopenList, Goto, ghostVars
  <1>1. TypeOK'
    BY <1>0 DEF ShellInv, TypeOK
  <1>2. LocalShape(s)'
    BY <1>0, ChunkAssumption DEF ShellInv, TypeOK, LocalShape, Lives, Creating
  <1>3. ~overlapped => ListShape(s)'
    <2>1. /\ pc'[s] = "write" /\ file' = out'[s] /\ content'[out'[s]] = {} /\ written'[s] = 0
          /\ alive'[s] = "none" /\ views'[s] = {}
      BY <1>0 DEF ShellInv, TypeOK, LocalShape
    <2>2. content'[out'[s]] = 1..written'[s]
      BY <2>1
    <2> QED BY <2>1, <2>2 DEF ListShape, Creating
  <1>4. \A t \in Sessions \ {s} : Same(t)
    BY <1>0 DEF ShellInv, TypeOK, Same
  <1>5. /\ UNCHANGED <<host, ghostVars>>
        /\ Present(s)' => Present(s)
        /\ Creating(s)' => Creating(s)
    BY <1>0 DEF ShellInv, TypeOK, Present, Lives, Creating, ghostVars
  <1>6. ~overlapped => Alone(s)
    BY <1>0 DEF ShellInv, AloneShape, Creating
  <1> QED BY <1>1, <1>2, <1>3, <1>4, <1>5, <1>6, OthersKeepShape

\* The next part of the list is written; the last one makes it whole.
LEMMA WriteChunkKeeps ==
  ASSUME ShellInv, NEW s \in Sessions, WriteChunk(s)
  PROVE  ShellInv'
  <1> DEFINE k == written[s] + 1
  <1>0. /\ pc[s] = "write"
        /\ content' = [content EXCEPT ![out[s]] = @ \cup {k}]
        /\ written' = [written EXCEPT ![s] = k]
        /\ IF k < Chunks THEN UNCHANGED <<pc, out>>
           ELSE pc' = [pc EXCEPT ![s] = "setenv"] /\ out' = [out EXCEPT ![s] = None]
        /\ UNCHANGED <<host, foreign, file, alive, views, deleter, overlapped, sound>>
    BY DEF WriteChunk, WrittenAfter, Goto, ghostVars
  <1>1. /\ TypeOK /\ out[s] \in Files /\ written[s] \in Nat /\ Chunks \in Nat
        /\ written[s] < Chunks /\ k \in 1..Chunks /\ None \notin Files
    BY <1>0, ChunkAssumption, SessionAssumption DEF ShellInv, LocalShape, TypeOK
  <1>2. TypeOK'
    <2>1. content' \in [Files -> SUBSET (1..Chunks)]
      BY <1>0, <1>1 DEF TypeOK
    <2>2. written' \in [Sessions -> 0..Chunks]
      BY <1>0, <1>1 DEF TypeOK
    <2>3. /\ out' \in [Sessions -> Files \cup {None}]
          /\ pc' \in [Sessions -> {"idle", "unlink", "find", "fopen", "write", "setenv",
                                   "fork", "exec", "run", "failed", "killed"}]
      BY <1>0, <1>1 DEF TypeOK
    <2> QED BY <1>0, <1>1, <2>1, <2>2, <2>3 DEF TypeOK
  <1>3. LocalShape(s)'
    <2>1. written'[s] = k
      BY <1>0, <1>1 DEF TypeOK
    <2>2. CASE k < Chunks
      BY <1>0, <1>1, <2>1, <2>2 DEF ShellInv, TypeOK, LocalShape, Lives, Creating
    <2>3. CASE ~(k < Chunks)
      BY <1>0, <1>1, <2>1, <2>3 DEF ShellInv, TypeOK, LocalShape, Lives, Creating
    <2> QED BY <2>2, <2>3
  <1>4. ASSUME ~overlapped
        PROVE  ListShape(s)'
    <2>1. file = out[s] /\ content[out[s]] = 1..written[s] /\ alive[s] = "none" /\ views[s] = {}
      BY <1>0, <1>4 DEF ShellInv, ListShape, LocalShape
    <2>2. content'[out[s]] = 1..k /\ written'[s] = k
      BY <1>0, <1>1, <2>1 DEF TypeOK
    <2>3. CASE k < Chunks
      BY <1>0, <2>1, <2>2, <2>3 DEF ListShape, Creating
    <2>4. CASE ~(k < Chunks)
      <3>1. pc'[s] = "setenv"
        BY <1>0, <1>1, <2>4 DEF TypeOK
      <3>2. k = Chunks
        BY <1>1, <2>4
      <3>3. Whole(file)'
        BY <1>0, <1>1, <2>1, <2>2, <3>2 DEF Whole
      <3> QED BY <1>0, <2>1, <3>1, <3>3 DEF ListShape
    <2> QED BY <2>3, <2>4
  <1>5. \A t \in Sessions \ {s} : Same(t)
    BY <1>0, <1>1 DEF TypeOK, Same
  <1>6. /\ UNCHANGED <<host, ghostVars>>
        /\ Present(s)' => Present(s)
        /\ Creating(s)' => Creating(s)
    BY <1>0 DEF ShellInv, TypeOK, Present, Lives, Creating, ghostVars
  <1>7. ~overlapped => Alone(s)
    BY <1>0 DEF ShellInv, AloneShape, Creating
  <1> QED BY <1>2, <1>3, <1>4, <1>5, <1>6, <1>7, OthersKeepShape

\* A process maps the list, which is whole if it is there.
LEMMA LoadListKeeps ==
  ASSUME ShellInv, NEW s \in Sessions, LoadList(s)
  PROVE  ShellInv'
  <1> DEFINE v == [file |-> file, len |-> Max(content[file] \cup {0})]
  <1>0. /\ alive[s] # "none" /\ file # None /\ file \in Files
        /\ views' = [views EXCEPT ![s] = @ \cup {v}]
        /\ UNCHANGED <<host, foreign, file, content, pc, out, written, alive, deleter,
                       overlapped, sound>>
    BY DEF LoadList, sessionVars, ghostVars, ShellInv, TypeOK
  <1>1. v \in [file : Files, len : 0..Chunks]
    <2>1. content[file] \in SUBSET (1..Chunks) /\ Chunks \in Nat
      BY <1>0, ChunkAssumption DEF ShellInv, TypeOK
    <2> QED BY <1>0, <2>1, LastChunk
  <1>2. ~overlapped /\ sound[s] => Whole(v.file) /\ v.len = Chunks
    <2>1. ~overlapped /\ sound[s] => Whole(file)
      BY <1>0 DEF ShellInv, ListShape
    <2>2. Whole(file) => Max(content[file] \cup {0}) = Chunks
      BY ChunkAssumption, LastOfWhole DEF Whole
    <2> QED BY <2>1, <2>2
  <1> HIDE DEF v
  <1>3. TypeOK'
    BY <1>0, <1>1 DEF ShellInv, TypeOK
  <1>4. views'[s] = views[s] \cup {v}
    BY <1>0 DEF ShellInv, TypeOK
  <1>5. LocalShape(s)'
    BY <1>0 DEF ShellInv, LocalShape, Lives, Creating
  <1>6. ~overlapped => ListShape(s)'
    BY <1>0, <1>2, <1>4 DEF ShellInv, ListShape, Whole, Refused, OutOfReach, Lives, Creating
  <1>7. \A t \in Sessions \ {s} : Same(t)
    BY <1>0 DEF ShellInv, TypeOK, Same
  <1>8. /\ UNCHANGED <<host, ghostVars>>
        /\ Present(s)' => Present(s)
        /\ Creating(s)' => Creating(s)
    BY <1>0 DEF Present, Lives, Creating, ghostVars
  <1> QED BY <1>0, <1>3, <1>5, <1>6, <1>7, <1>8, OthersKeepShape

\* The daemon ends, because the session has or because it is refused; in "/" it
\* takes the list away, and then is alone.
LEMMA DeleterUnlinksKeeps ==
  ASSUME ShellInv, NEW s \in Sessions, DeleterUnlinks(s)
  PROVE  ShellInv'
  <1>0. /\ deleter[s] \in {"watching", "watchingInit"} /\ KillFails(s)
        /\ deleter' = [deleter EXCEPT ![s] = "gone"]
        /\ file' = IF host.atRoot THEN None ELSE file
        /\ UNCHANGED <<host, foreign, content, pc, out, written, alive, views, overlapped,
                       sound>>
    BY DEF DeleterUnlinks, sessionVars, ghostVars
  <1>1. (~Lives(s) \/ OutOfReach(s)) /\ s \notin Reusing
    BY <1>0 DEF KillFails, ShellInv, LocalShape
  <1>2. TypeOK'
    BY <1>0 DEF ShellInv, TypeOK
  <1>3. deleter'[s] = "gone"
    BY <1>0 DEF ShellInv, TypeOK
  <1>4. LocalShape(s)'
    BY <1>0, <1>1, <1>3 DEF ShellInv, LocalShape, Lives, Creating
  <1>5. ASSUME ~overlapped
        PROVE  ListShape(s)'
    <2>1. LocalShape(s) /\ ListShape(s) /\ pc[s] # "write"
      BY <1>0, <1>5 DEF ShellInv, LocalShape
    <2>2. (Lives(s)' <=> Lives(s)) /\ (Creating(s)' <=> Creating(s))
      BY <1>0 DEF Lives, Creating
    <2>3. file' # file => host.atRoot /\ file' = None
      BY <1>0
    <2>4. ~Refused(s)' => ~Refused(s) /\ (Lives(s) => ~host.atRoot)
      BY <1>0, <1>1, <1>3 DEF Refused, OutOfReach
    <2>5. Whole(file) /\ file' = file => Whole(file)'
      BY <1>0 DEF Whole
    <2>6. sound[s] /\ Lives(s)' /\ ~Creating(s)' /\ ~Refused(s)' => Whole(file)'
      BY <2>1, <2>2, <2>3, <2>4, <2>5 DEF ListShape
    <2>7. sound[s] /\ alive[s] # "none" => file' = None \/ Whole(file)'
      BY <1>0, <2>1, <2>5 DEF ListShape
    <2>8. sound[s] => \A v \in views[s] : Whole(v.file)' /\ v.len = Chunks
      BY <1>0, <2>1 DEF ListShape, Whole
    <2> QED BY <1>0, <2>1, <2>6, <2>7, <2>8 DEF ListShape, Whole
  <1>6. \A t \in Sessions \ {s} : Same(t)
    BY <1>0 DEF ShellInv, TypeOK, Same
  <1>7. /\ UNCHANGED <<host, ghostVars>>
        /\ Present(s)' => Present(s)
        /\ Creating(s)' => Creating(s)
    BY <1>0 DEF ShellInv, TypeOK, Present, Lives, Creating, ghostVars
  <1>8. UNCHANGED <<file, content>> \/ (~overlapped => Alone(s))
    <2>1. CASE ~host.atRoot
      BY <1>0, <2>1
    <2>2. CASE host.atRoot
      <3>1. Present(s)
        BY <1>0, <2>2 DEF Present
      <3> QED BY <1>1, <2>2, <3>1 DEF ShellInv, AloneShape
    <2> QED BY <2>1, <2>2
  <1> QED BY <1>2, <1>4, <1>5, <1>6, <1>7, <1>8, OthersKeepShape

----------------------------------------------------------------------------
\* The directory holds no list, or a whole one, and no session has started.
LEMMA InitInv == Init => ShellInv
  <1> SUFFICES ASSUME Init PROVE ShellInv
    OBVIOUS
  <1>0. (CHOOSE f \in Files : TRUE) \in Files /\ Chunks \in Nat
    BY SessionAssumption, ChunkAssumption
  <1>1. TypeOK
    <2>1. content \in [Files -> SUBSET (1..Chunks)]
      BY DEF Init
    <2>2. /\ host \in [atRoot : BOOLEAN, superuser : BOOLEAN] /\ file \in Files \cup {None}
          /\ foreign \subseteq Sessions
      BY <1>0 DEF Init
    <2>3. /\ written \in [Sessions -> 0..Chunks] /\ out \in [Sessions -> Files \cup {None}]
          /\ views \in [Sessions -> SUBSET [file : Files, len : 0..Chunks]]
      BY <1>0 DEF Init
    <2>4. /\ pc \in [Sessions -> {"idle"}] /\ alive \in [Sessions -> {"none"}]
          /\ deleter \in [Sessions -> {"none"}] /\ sound \in [Sessions -> BOOLEAN]
          /\ overlapped \in BOOLEAN
      BY DEF Init
    <2> QED BY <2>1, <2>2, <2>3, <2>4 DEF TypeOK
  <1>2. \A s \in Sessions : LocalShape(s)
    BY DEF Init, LocalShape, Lives, Creating
  <1>3. \A s \in Sessions : ~Present(s)
    BY DEF Init, Present, Lives, Creating
  <1>4. \A s \in Sessions : AloneShape(s)
    BY <1>3 DEF AloneShape, Alone
  <1>5. \A s \in Sessions : ListShape(s)
    BY DEF Init, ListShape, Lives, Creating
  <1> QED BY <1>1, <1>2, <1>4, <1>5 DEF ShellInv

\* Every step keeps the invariant, which so holds always.
LEMMA NextInv == ShellInv /\ [Next]_vars => ShellInv'
  <1> SUFFICES ASSUME ShellInv, [Next]_vars PROVE ShellInv'
    OBVIOUS
  <1>1. CASE UNCHANGED vars
    BY <1>1 DEF vars, sessionVars, ghostVars, ShellInv, TypeOK, LocalShape, AloneShape,
                Alone, ListShape, Whole, Refused, OutOfReach, Present, Lives, Creating
  <1>2. ASSUME NEW s \in Sessions, ShellStep(s)
        PROVE  ShellInv'
    BY <1>2, StartKeeps, UnlinkListKeeps, FindListKeeps, FopenListKeeps, WriteChunkKeeps,
       IlistCreateFailsKeeps, SetEnvVarsKeeps, ForkDeleterKeeps, ExecKeeps, FailsKeeps,
       KilledKeeps DEF ShellStep
  <1>3. ASSUME NEW s \in Sessions, ProgramStep(s)
        PROVE  ShellInv'
    BY <1>3, LoadListKeeps, ChangesUserKeeps, MainExitsKeeps,
           OrphansExitKeeps DEF ProgramStep
  <1>4. ASSUME NEW s \in Sessions, DeleterStep(s)
        PROVE  ShellInv'
    BY <1>4, DeleterStartsKeeps, DaemonFailsKeeps, DeleterUnlinksKeeps DEF DeleterStep
  <1> QED BY <1>1, <1>2, <1>3, <1>4 DEF Next

\* The sessions keep to themselves in every state.
LEMMA ShellInvCorrect == Spec => []ShellInv
  BY InitInv, NextInv, PTL DEF Spec

----------------------------------------------------------------------------
\* The types; above all that what a process maps of a list file is no longer
\* than a list, whatever other sessions do to the file meanwhile.
THEOREM TypeOKCorrect == Spec => []TypeOK
  <1>1. ShellInv => TypeOK
    BY DEF ShellInv
  <1> QED BY <1>1, ShellInvCorrect, PTL

\* A process of a session works with no list or with the whole list, whatever
\* failed while it was made (cow-shell.1:12-15), for any number of sessions.
THEOREM WholeListCorrect == Spec => []WholeList
  <1>1. ShellInv => WholeList
    BY DEF ShellInv, ListShape, WholeList
  <1> QED BY <1>1, ShellInvCorrect, PTL

\* A new process of a running program finds the list: no daemon removes it
\* before, and no other session that is not in the way.
THEOREM ListAvailableCorrect == Spec => []ListAvailable
  <1>1. ShellInv => ListAvailable
    <2> SUFFICES ASSUME ShellInv, NEW s \in Sessions, ~overlapped, sound[s], alive[s] = "main",
                        ~Refused(s)
                 PROVE  Whole(file)
      BY DEF ListAvailable
    <2>1. Lives(s) /\ ~Creating(s)
      BY DEF ShellInv, LocalShape, Lives, Creating
    <2> QED BY <2>1 DEF ShellInv, ListShape
  <1> QED BY <1>1, ShellInvCorrect, PTL
=============================================================================
