-------------------------- MODULE CowBuilder_proof --------------------------
(***************************************************************************)
(* Proofs about CowBuilder for any number of sessions, started with any    *)
(* operations in any order.                                                *)
(***************************************************************************)
EXTENDS CowBuilder, TLAPS

\* The stages in which a session has a build place, and those in which cp has
\* filled it.
Built == {"copying", "unlink", "ilistcreate", "fallback", "pbuilder", "running",
          "clean", "aptclean", "aside", "install", "rmbuild"}
Copied == Built \ {"copying"}

Stages == {"idle", "rm", "cp", "copying", "unlink", "ilistcreate", "fallback",
           "pbuilder", "running", "clean", "aptclean", "aside", "install",
           "rmaside", "rmbuild", "mkdir", "rmbase", "done", "dead"}

\* The operations that come to a stage.
Fits(o, l) ==
    /\ l \in {"mkdir", "rmbase"} => o = "create"
    /\ o = "create" => l \in {"idle", "mkdir", "running", "rmbase", "done", "dead"}
    /\ l \in {"ilistcreate", "fallback"} => o = "build"
    /\ l = "rmbuild" => o = "update"
    /\ l = "clean" => ~Saves(o)
    /\ l \in {"aptclean", "aside", "install", "rmaside"} => Saves(o)

\* What a session's stage has to do with its operation and its build place.
StageShape(s) ==
    /\ Fits(op[s], pc[s])
    /\ pc[s] \in Built /\ op[s] # "create" => Exists(Build(s))
    /\ tree[Build(s)].state = "copying" => pc[s] \in {"copying", "dead"}

\* A session that saves returns 0 only when it has come past the renames.
Reported(s) ==
    /\ pc[s] = "rmaside" => s \in installed
    /\ pc[s] = "done" /\ ret[s] = 0 /\ op[s] \in SavingOps => s \in installed

TypeInv ==
    /\ TypeOK
    /\ tree[Base].state # "copying"
    /\ \A s \in Sessions : StageShape(s) /\ Reported(s)

----------------------------------------------------------------------------
(* The paths, and the trees below them.                                     *)

\* No two sessions share a path, and none is the base's.
LEMMA PlacesApart ==
  /\ Base \in Places
  /\ \A s \in Sessions : /\ Build(s) \in Places /\ Aside(s) \in Places
                         /\ Build(s) # Base /\ Aside(s) # Base
  /\ \A s, q \in Sessions :
       /\ Build(s) # Aside(q)
       /\ s # q => Build(s) # Build(q) /\ Aside(s) # Aside(q)
  BY DEF Places, Base, Build, Aside

\* A tree of which a copy is being made becomes a mixture.
Settled(r) == IF r.state = "copying" THEN [r EXCEPT !.state = "partial"] ELSE r
Proper(r) == r \in Tree /\ (r.state = "absent" => r = Nothing)
\* A tree that another session has left alone: it may spoil the copy that is
\* made into it, and write into it.
Alike(p) ==
    /\ tree'[p].list = tree[p].list /\ tree'[p].mounted = tree[p].mounted
    /\ tree[p].saved \subseteq tree'[p].saved
    /\ tree'[p].state = "absent" <=> tree[p].state = "absent"
    /\ \/ tree'[p].state = tree[p].state
       \/ tree[p].state = "copying" /\ tree'[p].state = "partial"

\* Settling changes nothing but the state of a copy.
LEMMA SettledTree ==
  ASSUME NEW r, Proper(r)
  PROVE  /\ Proper(Settled(r))
         /\ Settled(r).list = r.list /\ Settled(r).mounted = r.mounted
         /\ Settled(r).saved = r.saved
         /\ Settled(r).state # "copying"
         /\ r.state # "copying" => Settled(r) = r
         /\ r.state = "copying" => Settled(r).state = "partial"
  BY DEF Settled, Proper, Tree, Nothing

\* No tree is the tree that is not there.
LEMMA NothingTree == Proper(Nothing) /\ Nothing.state = "absent" /\ ~Nothing.mounted
                     /\ Nothing.saved = {} /\ Nothing.list = "none"
  BY DEF Proper, Tree, Nothing

\* The trees of the type invariant.
LEMMA ProperTrees ==
  ASSUME TypeOK
  PROVE  tree \in [Places -> Tree] /\ \A p \in Places : Proper(tree[p])
  BY DEF TypeOK, Proper, Exists

\* SetTree changes one tree, and spoils the copies if that is the base.
LEMMA SetTreeEffect ==
  ASSUME TypeOK, NEW p \in Places, NEW r, Proper(r), SetTree(p, r)
  PROVE  /\ tree' \in [Places -> Tree] /\ \A x \in Places : Proper(tree'[x])
         /\ p # Base => tree'[p] = r
         /\ r.state # "copying" => tree'[p] = r
         /\ \A x \in Places : x # p /\ p # Base => tree'[x] = tree[x]
         /\ \A x \in Places : x # p => tree'[x] = tree[x] \/ tree'[x] = Settled(tree[x])
         /\ \A x \in Places : x # p => Alike(x) /\ tree'[x].saved = tree[x].saved
  <1> DEFINE t == [tree EXCEPT ![p] = r]
  <1>1. tree \in [Places -> Tree] /\ \A x \in Places : Proper(tree[x])
    BY ProperTrees
  <1>2. t \in [Places -> Tree] /\ t[p] = r /\ \A x \in Places : x # p => t[x] = tree[x]
    BY <1>1 DEF Proper
  <1>3. \A x \in Places : Proper(t[x])
    BY <1>1, <1>2
  <1>4. tree' = IF p = Base THEN Spoiled(t) ELSE t
    BY DEF SetTree
  <1> HIDE DEF t
  <1>5. Spoiled(t) = [x \in Places |-> Settled(t[x])]
    BY DEF Spoiled, Settled
  <1>6. \A x \in Places : Proper(Settled(t[x])) /\ (t[x].state # "copying" => Settled(t[x]) = t[x])
    BY <1>3, SettledTree
  <1>7. \A x \in Places : tree'[x] = t[x] \/ (p = Base /\ tree'[x] = Settled(t[x]))
    BY <1>4, <1>5
  <1>8. tree' \in [Places -> Tree]
    BY <1>2, <1>4, <1>5, <1>6 DEF Proper
  <1>9. ASSUME NEW x \in Places, x # p
        PROVE  Alike(x) /\ tree'[x].saved = tree[x].saved
    <2>1. tree'[x] = tree[x] \/ tree'[x] = Settled(tree[x])
      BY <1>2, <1>7, <1>9
    <2> QED BY <1>1, <2>1, SettledTree DEF Alike, Proper, Tree, Settled
  <1>10. \A x \in Places : Proper(tree'[x])
    BY <1>3, <1>6, <1>7
  <1>11. /\ p # Base => tree'[p] = r
         /\ r.state # "copying" => tree'[p] = r
    BY <1>2, <1>6, <1>7
  <1>12. \A x \in Places : x # p => /\ p # Base => tree'[x] = tree[x]
                                    /\ tree'[x] = tree[x] \/ tree'[x] = Settled(tree[x])
    BY <1>2, <1>7
  <1> QED BY <1>8, <1>9, <1>10, <1>11, <1>12

\* rename moves a tree, and spoils the copies.
LEMMA MoveEffect ==
  ASSUME TypeOK, NEW from \in Places, NEW to \in Places, from # to, Move(from, to),
         tree[from].state # "copying"
  PROVE  /\ tree' \in [Places -> Tree] /\ \A x \in Places : Proper(tree'[x])
         /\ tree'[from] = Nothing /\ tree'[to] = tree[from]
         /\ \A x \in Places \ {from, to} : tree'[x] = tree[x] \/ tree'[x] = Settled(tree[x])
         /\ \A x \in Places \ {from, to} : Alike(x) /\ tree'[x].saved = tree[x].saved
  <1> DEFINE t == [tree EXCEPT ![to] = tree[from], ![from] = Nothing]
  <1>1. tree \in [Places -> Tree] /\ \A x \in Places : Proper(tree[x])
    BY ProperTrees
  <1>2. /\ t \in [Places -> Tree] /\ t[from] = Nothing /\ t[to] = tree[from]
        /\ \A x \in Places \ {from, to} : t[x] = tree[x]
    BY <1>1, NothingTree DEF Proper
  <1>3. \A x \in Places : Proper(t[x])
    BY <1>1, <1>2, NothingTree
  <1>4. tree' = Spoiled(t)
    BY DEF Move
  <1> HIDE DEF t
  <1>5. tree' = [x \in Places |-> Settled(t[x])]
    BY <1>2, <1>4 DEF Spoiled, Settled
  <1>6. \A x \in Places : Proper(Settled(t[x])) /\ (t[x].state # "copying" => Settled(t[x]) = t[x])
    BY <1>3, SettledTree
  <1>7. tree' \in [Places -> Tree] /\ \A x \in Places : Proper(tree'[x])
    BY <1>5, <1>6 DEF Proper
  <1>8. tree'[from] = Nothing /\ tree'[to] = tree[from]
    BY <1>2, <1>5, <1>6, NothingTree
  <1>9. ASSUME NEW x \in Places \ {from, to}
        PROVE  Alike(x) /\ tree'[x].saved = tree[x].saved
    <2>1. tree'[x] = tree[x] \/ tree'[x] = Settled(tree[x])
      BY <1>2, <1>5
    <2> QED BY <1>1, <2>1, SettledTree DEF Alike, Proper, Tree, Settled
  <1> QED BY <1>2, <1>5, <1>7, <1>8, <1>9

\* rm -rf removes a tree, or leaves a part of it.
LEMMA RmRfEffect ==
  ASSUME TypeOK, NEW q \in Sessions, NEW p \in Places, NEW ok \in BOOLEAN, RmRf(q, p, ok)
  PROVE  /\ tree' \in [Places -> Tree] /\ \A x \in Places : Proper(tree'[x])
         /\ ok => tree'[p] = Nothing
         /\ ~ok => tree'[p].state = "partial"
         /\ tree'[p].saved \subseteq tree[p].saved
         /\ tree'[p].mounted => tree[p].mounted
         /\ p # Base => \A x \in Places : x # p => tree'[x] = tree[x]
         /\ \A x \in Places : x # p => Alike(x) /\ tree'[x].saved = tree[x].saved
         /\ damaged' = IF tree[p].mounted THEN damaged \cup {pc[q]} ELSE damaged
  <1> DEFINE r == IF ok THEN Nothing ELSE [tree[p] EXCEPT !.state = "partial"]
  <1>1. tree[p] \in Tree
    BY ProperTrees
  <1>2. /\ Proper(r) /\ r.state # "copying"
        /\ ok => r = Nothing
        /\ ~ok => r.state = "partial"
        /\ r.saved \subseteq tree[p].saved
        /\ r.mounted => tree[p].mounted
    BY <1>1, NothingTree DEF Proper, Tree
  <1>3. /\ SetTree(p, r)
        /\ damaged' = IF tree[p].mounted THEN damaged \cup {pc[q]} ELSE damaged
    BY DEF RmRf, Removed
  <1> HIDE DEF r
  <1> QED BY <1>2, <1>3, SetTreeEffect

\* What pbuilder does to the trees before it can be protected.
LEMMA WorkedEffect ==
  ASSUME TypeOK, NEW q \in Sessions, NEW r, Proper(r), r.state # "absent",
         tree' = Worked(q, [tree EXCEPT ![Build(q)] = r])
  PROVE  /\ tree' \in [Places -> Tree] /\ \A x \in Places : Proper(tree'[x])
         /\ tree'[Build(q)] = [r EXCEPT !.saved = @ \cup {q}]
         /\ \A x \in Places : x # Build(q) => Alike(x)
         /\ \A x \in Places : x # Build(q) =>
              /\ tree'[x].state = tree[x].state
              /\ tree'[x].saved \subseteq tree[x].saved \cup {q}
         /\ Protected(q) => \A x \in Places : x # Build(q) => tree'[x] = tree[x]
  <1> DEFINE t == [tree EXCEPT ![Build(q)] = r]
             Grown(x) == [x EXCEPT !.saved = @ \cup {q}]
  <1>0. Build(q) \in Places
    BY PlacesApart
  <1>1. tree \in [Places -> Tree] /\ \A x \in Places : Proper(tree[x])
    BY ProperTrees
  <1>2. /\ t \in [Places -> Tree] /\ t[Build(q)] = r
        /\ \A x \in Places : x # Build(q) => t[x] = tree[x]
    BY <1>0, <1>1 DEF Proper
  <1>3. \A x \in Places : Proper(t[x])
    BY <1>1, <1>2
  <1> HIDE DEF t
  <1>4. tree' = [x \in Places |->
                   IF t[x].state # "absent" /\ (x = Build(q) \/ ~Protected(q))
                   THEN Grown(t[x]) ELSE t[x]]
    BY <1>2 DEF Worked, t
  <1>5. ASSUME NEW x \in Places, t[x].state # "absent"
        PROVE  /\ Proper(Grown(t[x])) /\ Grown(t[x]).saved = t[x].saved \cup {q}
               /\ Grown(t[x]).state = t[x].state /\ Grown(t[x]).list = t[x].list
               /\ Grown(t[x]).mounted = t[x].mounted
    BY <1>2, <1>5 DEF Proper, Tree
  <1> HIDE DEF Grown
  <1>6. \A x \in Places : tree'[x] = t[x] \/ (t[x].state # "absent" /\ tree'[x] = Grown(t[x]))
    BY <1>4
  <1>7. \A x \in Places : Proper(tree'[x])
    BY <1>3, <1>5, <1>6
  <1>8. tree' \in [Places -> Tree]
    BY <1>4, <1>7 DEF Proper
  <1>9. tree'[Build(q)] = Grown(r)
    BY <1>0, <1>2, <1>4
  <1>10. ASSUME NEW x \in Places, x # Build(q)
         PROVE  /\ Alike(x) /\ (Protected(q) => tree'[x] = tree[x])
                /\ tree'[x].state = tree[x].state
                /\ tree'[x].saved \subseteq tree[x].saved \cup {q}
    <2>1. Protected(q) => tree'[x] = tree[x]
      BY <1>2, <1>4, <1>10
    <2>2. t[x] = tree[x]
      BY <1>2, <1>10
    <2>3. tree'[x] = tree[x] \/ (tree[x].state # "absent" /\ tree'[x] = Grown(tree[x]))
      BY <1>6, <2>2
    <2>4. /\ Alike(x) /\ tree'[x].state = tree[x].state
          /\ tree'[x].saved \subseteq tree[x].saved \cup {q}
      BY <1>5, <2>2, <2>3 DEF Alike
    <2> QED BY <2>1, <2>4
  <1> QED BY <1>7, <1>8, <1>9, <1>10 DEF Grown

----------------------------------------------------------------------------
(* The types and the stages.                                                *)

\* The trees that the next command of q is about.
Touched(q) == IF op[q] = "create" THEN {Base}
              ELSE IF pc[q] = "aside" THEN {Base, Aside(q)}
              ELSE IF pc[q] = "install" THEN {Base, Build(q)}
              ELSE IF pc[q] = "rmaside" THEN {Aside(q)}
              ELSE {Build(q)}

\* Its programs, if it starts any, write into no file without a copy of it.
Quiet(q) == pc[q] = "pbuilder" => Protected(q)

\* A step of q: what becomes of the other sessions, and of the other trees.
Others(q) ==
    /\ \A s \in Sessions \ {q} :
         /\ pc'[s] = pc[s] /\ op'[s] = op[s] /\ ret'[s] = ret[s]
         /\ Alike(Build(s)) /\ Alike(Aside(s))
    /\ \A x \in Places : x \notin Touched(q) =>
         Alike(x) /\ tree'[x].saved \subseteq tree[x].saved \cup {q}
    /\ Quiet(q) => \A x \in Places : x \notin Touched(q) => tree'[x].saved = tree[x].saved
    /\ Base \notin Touched(q) =>
         \A x \in Places : x \notin Touched(q) => tree'[x].state = tree[x].state

\* The step of a session keeps the invariant if it keeps the session's part.
LEMMA OthersKeepStage ==
  ASSUME TypeInv, NEW q \in Sessions, Others(q), installed \subseteq installed',
         TypeOK', StageShape(q)', Reported(q)', tree'[Base].state # "copying"
  PROVE  TypeInv' /\ Others(q)
  <1> SUFFICES ASSUME NEW s \in Sessions, s # q
               PROVE  StageShape(s)' /\ Reported(s)'
    BY DEF TypeInv
  <1>1. /\ pc'[s] = pc[s] /\ op'[s] = op[s] /\ ret'[s] = ret[s] /\ Alike(Build(s))
        /\ StageShape(s) /\ Reported(s)
    BY DEF Others, TypeInv
  <1>2. StageShape(s)'
    BY <1>1 DEF StageShape, Alike, Exists, Saves
  <1>3. Reported(s)'
    BY <1>1 DEF Reported
  <1> QED BY <1>2, <1>3

\* A step that runs no command on a tree.
LEMMA SameTrees ==
  ASSUME TypeOK, NEW q \in Sessions, UNCHANGED tree,
         \A s \in Sessions \ {q} : pc'[s] = pc[s] /\ op'[s] = op[s] /\ ret'[s] = ret[s]
  PROVE  Others(q) /\ \A x \in Places : Proper(tree'[x])
  BY ProperTrees DEF Others, Alike

\* A command of q works on the session's own trees and on the base.
OwnTrees(q) ==
    /\ tree' \in [Places -> Tree] /\ \A x \in Places : Proper(tree'[x])
    /\ tree'[Base].state # "copying"
    /\ \A x \in Places : x \notin Touched(q) =>
         Alike(x) /\ tree'[x].saved \subseteq tree[x].saved \cup {q}
    /\ Quiet(q) => \A x \in Places : x \notin Touched(q) => tree'[x].saved = tree[x].saved
    /\ Base \notin Touched(q) =>
         \A x \in Places : x \notin Touched(q) => tree'[x].state = tree[x].state

\* It takes the session to stage l, where it would return r.
Step(q, l, r) ==
    /\ l \in Stages /\ r \in {-1, 0, 1, 128}
    /\ pc' = [pc EXCEPT ![q] = l] /\ ret' = [ret EXCEPT ![q] = r]
    /\ op' = op /\ overlapped' = overlapped /\ damaged' \subseteq Removals
    /\ misled' \in {misled, misled \cup {q}}
    /\ installed \subseteq installed' /\ installed' \subseteq Sessions \cup {None}

\* The stage is one of the operation, and what it needs is there.
Lands(q, l, r) ==
    /\ Fits(op[q], l)
    /\ l \in Built /\ op[q] # "create" => tree'[Build(q)].state # "absent"
    /\ tree'[Build(q)].state = "copying" => l \in {"copying", "dead"}
    /\ l = "rmaside" => q \in installed'
    /\ l = "done" /\ r = 0 /\ op[q] \in SavingOps => q \in installed'

\* Such a step keeps the invariant.
LEMMA StepStage ==
  ASSUME TypeInv, NEW q \in Sessions, NEW l, NEW r,
         OwnTrees(q), Step(q, l, r), Lands(q, l, r)
  PROVE  TypeInv' /\ Others(q) /\ pc'[q] = l /\ ret'[q] = r
  <1> USE DEF OwnTrees, Step, Lands
  <1>0. TypeOK
    BY DEF TypeInv
  <1>1. pc'[q] = l /\ ret'[q] = r
    BY <1>0 DEF TypeOK
  <1>2. Others(q)
    BY <1>0, PlacesApart DEF Others, Touched, TypeOK
  <1>3. TypeOK'
    BY <1>0 DEF TypeOK, Proper, Exists, Stages
  <1>4. StageShape(q)'
    BY <1>1 DEF StageShape, Exists, Fits, Saves
  <1>5. Reported(q)'
    BY <1>1 DEF Reported
  <1> QED BY <1>1, <1>2, <1>3, <1>4, <1>5, OthersKeepStage

\* A command on the build place alone.
LEMMA BuildTree ==
  ASSUME TypeInv, NEW q \in Sessions, NEW new, Proper(new), SetTree(Build(q), new),
         pc[q] \notin {"aside", "install", "rmaside"}, op[q] # "create"
  PROVE  /\ OwnTrees(q) /\ tree'[Build(q)] = new
         /\ \A x \in Places : x # Build(q) => tree'[x] = tree[x]
  <1>0. TypeOK /\ Build(q) \in Places /\ Build(q) # Base
    BY PlacesApart DEF TypeInv
  <1>1. tree[Base].state # "copying" /\ Base \in Places
    BY PlacesApart DEF TypeInv
  <1>2. Touched(q) = {Build(q)}
    BY DEF Touched
  <1> QED BY <1>0, <1>1, <1>2, SetTreeEffect DEF OwnTrees

\* A command on no tree.
LEMMA NoTree ==
  ASSUME TypeInv, NEW q \in Sessions, UNCHANGED tree
  PROVE  OwnTrees(q)
  BY ProperTrees DEF OwnTrees, Alike, TypeInv

\* rm -rf of one of the trees of q.
LEMMA RmTree ==
  ASSUME TypeInv, NEW q \in Sessions, NEW p \in Places, Touched(q) = {p},
         NEW ok \in BOOLEAN, RmRf(q, p, ok), pc[q] \in Removals
  PROVE  OwnTrees(q) /\ damaged' \subseteq Removals
  <1>0. TypeOK /\ Proper(tree[p])
    BY PlacesApart, ProperTrees DEF TypeInv
  <1>1. damaged' \in {damaged, damaged \cup {pc[q]}}
    BY <1>0, RmRfEffect
  <1>2. damaged' \subseteq Removals
    BY <1>0, <1>1 DEF TypeOK
  <1>3. tree'[Base].state # "copying"
    <2>1. CASE p = Base
      BY <1>0, <2>1, RmRfEffect, NothingTree
    <2>2. CASE p # Base
      BY <1>0, <2>2, RmRfEffect, PlacesApart DEF TypeInv
    <2> QED BY <2>1, <2>2
  <1> QED BY <1>0, <1>2, <1>3, RmRfEffect DEF OwnTrees

\* rm -rf of the build place before the copy.
LEMMA RmStage ==
  ASSUME TypeInv, NEW q \in Sessions, NEW ok \in BOOLEAN, Rm(q, ok)
  PROVE  TypeInv' /\ Others(q)
  <1> DEFINE l == IF ok THEN "cp" ELSE "done"
             r == IF ok THEN ret[q] ELSE 1
  <1>0. TypeOK /\ StageShape(q) /\ pc[q] = "rm" /\ RmRf(q, Build(q), ok)
    BY DEF TypeInv, Rm
  <1>1. OwnTrees(q) /\ damaged' \subseteq Removals
    BY <1>0, RmTree, PlacesApart DEF Removals, StageShape, Fits, Touched
  <1>2. Step(q, l, r)
    BY <1>0, <1>1 DEF Rm, Goto, Return, ghostVars, TypeOK, Stages, Step
  <1>3. tree'[Build(q)].state \in {"absent", "partial"}
    BY <1>0, RmRfEffect, PlacesApart, NothingTree
  <1>4. Lands(q, l, r)
    BY <1>0, <1>3 DEF StageShape, Fits, Lands, Built
  <1> QED BY <1>1, <1>2, <1>4, StepStage

\* cp -al begins to fill the build place, if there is a base.
LEMMA CpBeginsStage ==
  ASSUME TypeInv, NEW q \in Sessions, CpBegins(q)
  PROVE  TypeInv' /\ Others(q)
  <1>0. TypeOK /\ StageShape(q) /\ Proper(tree[Base]) /\ pc[q] = "cp"
    BY PlacesApart, ProperTrees DEF TypeInv, CpBegins
  <1>1. CASE Exists(Base)
    <2> DEFINE new == [state |-> IF tree[Base].state = "whole" THEN "copying"
                                                              ELSE "partial",
                       saved |-> tree[Base].saved,
                       list |-> IF tree[Base].list = "none" THEN "none" ELSE "old",
                       mounted |-> FALSE]
    <2>1. SetTree(Build(q), new)
      BY <1>1 DEF CpBegins
    <2>2. Proper(new) /\ new.state \in {"copying", "partial"}
      BY <1>0 DEF Proper, Tree
    <2> HIDE DEF new
    <2>3. OwnTrees(q) /\ tree'[Build(q)] = new
      BY <1>0, <2>1, <2>2, BuildTree DEF StageShape, Fits
    <2>4. Step(q, "copying", ret[q])
      BY <1>0, <1>1 DEF CpBegins, Goto, ghostVars, TypeOK, Stages, Step
    <2>5. Lands(q, "copying", ret[q])
      BY <1>0, <2>2, <2>3 DEF StageShape, Fits, Lands
    <2> QED BY <2>3, <2>4, <2>5, StepStage
  <1>2. CASE ~Exists(Base)
    <2>1. Step(q, "done", 1) /\ UNCHANGED tree
      BY <1>0, <1>2 DEF CpBegins, Return, Goto, ghostVars, TypeOK, Stages, Step
    <2>2. Lands(q, "done", 1)
      BY <1>0, <2>1 DEF StageShape, Fits, Lands, Built
    <2> QED BY <2>1, <2>2, NoTree, StepStage
  <1> QED BY <1>1, <1>2

\* cp -al ends, with a whole copy or a part of one.
LEMMA CpEndsStage ==
  ASSUME TypeInv, NEW q \in Sessions, NEW ok \in BOOLEAN, CpEnds(q, ok)
  PROVE  TypeInv' /\ Others(q)
  <1> DEFINE old == tree[Build(q)]
             new == [old EXCEPT !.state = IF ok /\ old.state = "copying"
                                          THEN "whole" ELSE "partial"]
             l == IF ok THEN "unlink" ELSE "done"
             r == IF ok THEN ret[q] ELSE 1
  <1>0. TypeOK /\ StageShape(q) /\ Proper(old) /\ pc[q] = "copying"
    BY PlacesApart, ProperTrees DEF TypeInv, CpEnds
  <1>1. SetTree(Build(q), new)
    BY DEF CpEnds
  <1>2. Proper(new) /\ new.state \in {"whole", "partial"}
    BY <1>0 DEF Proper, Tree
  <1>3. Step(q, l, r)
    BY <1>0 DEF CpEnds, Return, Goto, ghostVars, TypeOK, Stages, Step
  <1> HIDE DEF new
  <1>4. OwnTrees(q) /\ tree'[Build(q)] = new
    BY <1>0, <1>1, <1>2, BuildTree DEF StageShape, Fits
  <1>5. Lands(q, l, r)
    BY <1>0, <1>2, <1>4 DEF StageShape, Fits, Lands
  <1> HIDE DEF l, r
  <1> QED BY <1>3, <1>4, <1>5, StepStage

\* The list that came with the copy goes.
LEMMA UnlinkIlistStage ==
  ASSUME TypeInv, NEW q \in Sessions, UnlinkIlist(q)
  PROVE  TypeInv' /\ Others(q)
  <1> DEFINE new == [tree[Build(q)] EXCEPT !.list = ListAfterUnlink(tree[Build(q)])]
             l == IF op[q] = "build" THEN "ilistcreate" ELSE "pbuilder"
  <1>0. TypeOK /\ StageShape(q) /\ Proper(tree[Build(q)]) /\ pc[q] = "unlink"
    BY PlacesApart, ProperTrees DEF TypeInv, UnlinkIlist
  <1>1. SetTree(Build(q), new)
    BY DEF UnlinkIlist
  <1>2. op[q] # "create" /\ Exists(Build(q)) /\ tree[Build(q)].state # "copying"
    BY <1>0 DEF StageShape, Fits, Built
  <1>3. Proper(new) /\ new.state \notin {"absent", "copying"}
    BY <1>0, <1>2 DEF Proper, Tree, ListAfterUnlink, Exists
  <1>4. Step(q, l, ret[q])
    BY <1>0 DEF UnlinkIlist, Goto, ghostVars, TypeOK, Stages, Step
  <1> HIDE DEF new
  <1>5. OwnTrees(q) /\ tree'[Build(q)] = new
    BY <1>0, <1>1, <1>2, <1>3, BuildTree
  <1>6. Lands(q, l, ret[q])
    BY <1>0, <1>2, <1>3, <1>5 DEF StageShape, Fits, Lands
  <1> HIDE DEF l
  <1> QED BY <1>4, <1>5, <1>6, StepStage

\* The list that came with the copy cannot be removed.
LEMMA UnlinkIlistFailsStage ==
  ASSUME TypeInv, NEW q \in Sessions, UnlinkIlistFails(q)
  PROVE  TypeInv' /\ Others(q)
  <1> DEFINE l == IF op[q] = "build" THEN "ilistcreate" ELSE "pbuilder"
  <1>0. TypeOK /\ StageShape(q) /\ pc[q] = "unlink" /\ UNCHANGED tree
    BY DEF TypeInv, UnlinkIlistFails
  <1>1. op[q] # "create" /\ Exists(Build(q)) /\ tree[Build(q)].state # "copying"
    BY <1>0 DEF StageShape, Fits, Built
  <1>2. Step(q, l, ret[q])
    BY <1>0 DEF UnlinkIlistFails, Goto, TypeOK, Stages, Step
  <1>3. Lands(q, l, ret[q])
    BY <1>0, <1>1 DEF StageShape, Fits, Lands, Exists
  <1> HIDE DEF l
  <1> QED BY <1>0, <1>2, <1>3, NoTree, StepStage

\* A list is made in the build place, or is not.
LEMMA ListStage ==
  ASSUME TypeInv, NEW q \in Sessions, pc[q] \in {"ilistcreate", "fallback"},
         NEW x \in {"none", "own", "old", "half"}, SetList(q, x),
         NEW l \in {"pbuilder", "fallback", "done"}, pc' = [pc EXCEPT ![q] = l],
         NEW r \in {ret[q], 1}, ret' = [ret EXCEPT ![q] = r],
         UNCHANGED <<op, damaged, ghostVars>>
  PROVE  /\ TypeInv' /\ Others(q)
         /\ tree'[Build(q)].list = x
  <1> DEFINE new == [tree[Build(q)] EXCEPT !.list = x]
  <1>0. TypeOK /\ StageShape(q) /\ Proper(tree[Build(q)])
    BY PlacesApart, ProperTrees DEF TypeInv
  <1>1. SetTree(Build(q), new)
    BY DEF SetList
  <1>2. /\ op[q] = "build" /\ op[q] \notin SavingOps
        /\ Exists(Build(q)) /\ tree[Build(q)].state # "copying"
    BY <1>0, OpAssumption DEF StageShape, Fits, Built
  <1>3. Proper(new) /\ new.state \notin {"absent", "copying"} /\ new.list = x
    BY <1>0, <1>2 DEF Proper, Tree, Exists
  <1>4. Step(q, l, r)
    BY <1>0 DEF ghostVars, TypeOK, Stages, Step
  <1> HIDE DEF new
  <1>5. OwnTrees(q) /\ tree'[Build(q)] = new
    BY <1>0, <1>1, <1>2, <1>3, BuildTree
  <1>6. Lands(q, l, r)
    BY <1>2, <1>3, <1>5 DEF Fits, Lands
  <1> QED BY <1>3, <1>4, <1>5, <1>6, StepStage

\* ilistcreate in the chroot, and what is tried when it fails.
LEMMA IlistStage ==
  ASSUME TypeInv, NEW q \in Sessions, NEW ok \in BOOLEAN,
         IlistCreate(q, ok) \/ EtchFallback(q, ok) \/ HostFallback(q, ok)
  PROVE  TypeInv' /\ Others(q)
  <1>0. TypeOK /\ Proper(tree[Build(q)]) /\ pc[q] \in {"ilistcreate", "fallback"}
    BY PlacesApart, ProperTrees DEF TypeInv, IlistCreate, EtchFallback, HostFallback
  <1>1. PICK x \in {"none", "own", "old", "half"} : SetList(q, x)
    BY <1>0 DEF IlistCreate, EtchFallback, HostFallback, ListLeft, Proper, Tree
  <1>2. /\ \E l \in {"pbuilder", "fallback", "done"} : pc' = [pc EXCEPT ![q] = l]
        /\ \E r \in {ret[q], 1} : ret' = [ret EXCEPT ![q] = r]
        /\ UNCHANGED <<op, damaged, ghostVars>>
    BY <1>0 DEF IlistCreate, EtchFallback, HostFallback, Goto, Return, TypeOK
  <1> QED BY <1>0, <1>1, <1>2, ListStage

\* pbuilder starts to work in the build place.
LEMMA PbuilderBeginsStage ==
  ASSUME TypeInv, NEW q \in Sessions, PbuilderBegins(q)
  PROVE  TypeInv' /\ Others(q)
  <1> DEFINE old == tree[Build(q)]
             new == [old EXCEPT !.state = IF @ = "whole" THEN "running" ELSE @,
                                !.list = IF @ = "none" /\ ~(op[q] = "update" /\ NoCow)
                                         THEN "own" ELSE @,
                                !.mounted = TRUE]
  <1>0. TypeOK /\ StageShape(q) /\ Proper(old) /\ pc[q] = "pbuilder"
    BY PlacesApart, ProperTrees DEF TypeInv, PbuilderBegins
  <1>1. op[q] # "create" /\ Exists(Build(q)) /\ old.state # "copying"
    BY <1>0 DEF StageShape, Fits, Built
  <1>2. Proper(new) /\ new.state \notin {"absent", "copying"}
    BY <1>0, <1>1 DEF Proper, Tree, Exists
  <1>3. tree' = Worked(q, [tree EXCEPT ![Build(q)] = new])
    BY DEF PbuilderBegins
  <1>4. Step(q, "running", ret[q])
    BY <1>0 DEF PbuilderBegins, Goto, ghostVars, TypeOK, Stages, Step
  <1> HIDE DEF new
  <1>5. /\ tree' \in [Places -> Tree] /\ \A x \in Places : Proper(tree'[x])
        /\ tree'[Build(q)] = [new EXCEPT !.saved = @ \cup {q}]
        /\ \A x \in Places : x # Build(q) =>
             /\ Alike(x) /\ tree'[x].state = tree[x].state
             /\ tree'[x].saved \subseteq tree[x].saved \cup {q}
        /\ Quiet(q) => \A x \in Places : x # Build(q) => tree'[x] = tree[x]
    BY <1>0, <1>2, <1>3, WorkedEffect DEF Quiet
  <1>8. OwnTrees(q)
    BY <1>0, <1>1, <1>5, PlacesApart DEF OwnTrees, Alike, TypeInv, Touched
  <1>6. tree'[Build(q)].state = new.state
    BY <1>2, <1>5 DEF Proper, Tree
  <1>7. Lands(q, "running", ret[q])
    BY <1>0, <1>2, <1>6 DEF StageShape, Fits, Lands
  <1> QED BY <1>4, <1>7, <1>8, StepStage

\* pbuilder ends, and may leave a mount behind.
LEMMA PbuilderEndsStage ==
  ASSUME TypeInv, NEW q \in Sessions, NEW r \in {-1, 0, 1, 128}, NEW stale \in BOOLEAN,
         PbuilderEnds(q, r, stale)
  PROVE  TypeInv' /\ Others(q)
  <1> DEFINE old == tree[Build(q)]
             new == [old EXCEPT
                       !.state = IF @ = "running" /\ Completes(q, r) THEN "whole"
                                                                     ELSE "partial",
                       !.mounted = stale]
             l == AfterPbuilder(q, r)
  <1>0. TypeOK /\ StageShape(q) /\ Proper(old) /\ pc[q] = "running" /\ op[q] # "create"
    BY PlacesApart, ProperTrees DEF TypeInv, PbuilderEnds
  <1>1. SetTree(Build(q), new)
    BY DEF PbuilderEnds
  <1>2. Proper(new) /\ new.state \in {"whole", "partial"}
    BY <1>0 DEF Proper, Tree
  <1>3. l \in {"done", "aside", "rmbuild", "aptclean", "clean"}
    BY DEF AfterPbuilder
  <1>4. Step(q, l, r)
    BY <1>0, <1>3 DEF PbuilderEnds, Goto, ghostVars, TypeOK, Stages, Step
  <1>5. Fits(op[q], l) /\ (l = "done" => r # 0)
    BY <1>0, OpAssumption DEF AfterPbuilder, Fits, Saves
  <1> HIDE DEF new, l
  <1>6. OwnTrees(q) /\ tree'[Build(q)] = new
    BY <1>0, <1>1, <1>2, BuildTree
  <1>7. Lands(q, l, r)
    BY <1>2, <1>3, <1>5, <1>6 DEF Lands
  <1> QED BY <1>4, <1>6, <1>7, StepStage

\* cleancow, refused or not.
LEMMA CleanStage ==
  ASSUME TypeInv, NEW q \in Sessions, NEW ok \in BOOLEAN,
         CleanRefused(q) \/ Clean(q, ok) \/ RemoveBuild(q, ok)
  PROVE  TypeInv' /\ Others(q)
  <1>0. TypeOK /\ StageShape(q) /\ pc[q] \in {"clean", "rmbuild"}
    BY DEF TypeInv, CleanRefused, Clean, RemoveBuild
  <1>1. op[q] \notin SavingOps /\ op[q] # "create"
    BY <1>0, OpAssumption DEF StageShape, Fits, Saves
  <1>2. CASE CleanRefused(q)
    <2>1. Step(q, "done", ret[q]) /\ UNCHANGED tree
      BY <1>0, <1>2 DEF CleanRefused, Goto, ghostVars, TypeOK, Stages, Step
    <2>2. Lands(q, "done", ret[q])
      BY <1>0, <1>1, <2>1 DEF StageShape, Fits, Lands, Built
    <2> QED BY <2>1, <2>2, NoTree, StepStage
  <1>3. CASE Clean(q, ok) \/ RemoveBuild(q, ok)
    <2>1. RmRf(q, Build(q), ok)
      BY <1>3 DEF Clean, RemoveBuild
    <2>2. OwnTrees(q) /\ damaged' \subseteq Removals
      BY <1>0, <1>1, <2>1, RmTree, PlacesApart DEF Removals, Touched
    <2>3. tree'[Build(q)].state \in {"absent", "partial"}
      BY <1>0, <2>1, RmRfEffect, PlacesApart, NothingTree
    <2>4. Step(q, "done", ret[q])
      BY <1>0, <1>3, <2>2 DEF Clean, RemoveBuild, Goto, ghostVars, TypeOK, Stages, Step
    <2>5. Lands(q, "done", ret[q])
      BY <1>1, <2>3 DEF Fits, Lands, Built
    <2> QED BY <2>2, <2>4, <2>5, StepStage
  <1> QED BY <1>2, <1>3

\* apt-get clean, and a rename that fails.
LEMMA SaveStage ==
  ASSUME TypeInv, NEW q \in Sessions, NEW ok \in BOOLEAN,
         AptClean(q, ok) \/ RenameFails(q)
  PROVE  TypeInv' /\ Others(q)
  <1>0. TypeOK /\ StageShape(q) /\ UNCHANGED tree /\ pc[q] \in {"aptclean", "aside", "install"}
    BY DEF TypeInv, AptClean, RenameFails
  <1>1. /\ op[q] # "create" /\ Exists(Build(q)) /\ tree[Build(q)].state # "copying"
        /\ Saves(op[q])
    BY <1>0 DEF StageShape, Fits, Built
  <1>2. CASE AptClean(q, ok)
    <2> DEFINE r == IF ok THEN ret[q] ELSE -1
    <2>1. Step(q, "aside", r)
      BY <1>0, <1>2 DEF AptClean, Goto, ghostVars, TypeOK, Stages, Step
    <2>2. Lands(q, "aside", r)
      BY <1>0, <1>1 DEF Fits, Lands, Exists
    <2> HIDE DEF r
    <2> QED BY <1>0, <2>1, <2>2, NoTree, StepStage
  <1>3. CASE RenameFails(q)
    <2> DEFINE r == IF op[q] = "update" THEN ret[q] ELSE -1
    <2>1. Step(q, "done", r)
      BY <1>0, <1>3 DEF RenameFails, SaveFailed, Goto, ghostVars, TypeOK, Stages, Step
    <2>2. Lands(q, "done", r)
      BY <1>0, <1>1, OpAssumption DEF Fits, Lands, Exists, Built
    <2> HIDE DEF r
    <2> QED BY <1>0, <2>1, <2>2, NoTree, StepStage
  <1> QED BY <1>2, <1>3

\* The base is moved aside.
LEMMA MoveAsideStage ==
  ASSUME TypeInv, NEW q \in Sessions, MoveAside(q)
  PROVE  TypeInv' /\ Others(q)
  <1>0. TypeOK /\ StageShape(q) /\ pc[q] = "aside" /\ Move(Base, Aside(q))
    BY DEF TypeInv, MoveAside
  <1>1. OwnTrees(q) /\ Alike(Build(q))
    BY <1>0, MoveEffect, PlacesApart, NothingTree
    DEF OwnTrees, TypeInv, Touched, StageShape, Fits
  <1>2. Step(q, "install", ret[q])
    BY <1>0 DEF MoveAside, Goto, ghostVars, TypeOK, Stages, Step
  <1>3. Lands(q, "install", ret[q])
    BY <1>0, <1>1 DEF StageShape, Fits, Lands, Exists, Alike, Built
  <1> QED BY <1>1, <1>2, <1>3, StepStage

\* The build place becomes the base.
LEMMA InstallStage ==
  ASSUME TypeInv, NEW q \in Sessions, Install(q)
  PROVE  TypeInv' /\ Others(q)
  <1>0. TypeOK /\ StageShape(q) /\ pc[q] = "install" /\ Move(Build(q), Base)
    BY DEF TypeInv, Install
  <1>1. tree[Build(q)].state # "copying" /\ op[q] # "create"
    BY <1>0 DEF StageShape, Fits
  <1>2. OwnTrees(q) /\ tree'[Build(q)] = Nothing
    BY <1>0, <1>1, MoveEffect, PlacesApart DEF OwnTrees, Touched
  <1>3. Step(q, "rmaside", ret[q]) /\ q \in installed'
    BY <1>0 DEF Install, Goto, TypeOK, Stages, Step
  <1>4. Lands(q, "rmaside", ret[q])
    BY <1>0, <1>2, <1>3, NothingTree DEF StageShape, Fits, Lands, Built
  <1> QED BY <1>2, <1>3, <1>4, StepStage

\* The old base is removed.
LEMMA RemoveAsideStage ==
  ASSUME TypeInv, NEW q \in Sessions, NEW ok \in BOOLEAN, RemoveAside(q, ok)
  PROVE  TypeInv' /\ Others(q)
  <1> DEFINE r == IF ok \/ op[q] = "update" THEN ret[q] ELSE -1
  <1>0. TypeOK /\ StageShape(q) /\ Reported(q) /\ pc[q] = "rmaside" /\ RmRf(q, Aside(q), ok)
    BY DEF TypeInv, RemoveAside
  <1>1. OwnTrees(q) /\ damaged' \subseteq Removals
    BY <1>0, RmTree, PlacesApart DEF Removals, StageShape, Fits, Touched
  <1>2. tree'[Build(q)] = tree[Build(q)]
    BY <1>0, RmRfEffect, PlacesApart
  <1>3. Step(q, "done", r) /\ installed' = installed
    BY <1>0, <1>1 DEF RemoveAside, SaveFailed, Goto, ghostVars, TypeOK, Stages, Step
  <1>4. Lands(q, "done", r)
    BY <1>0, <1>2, <1>3 DEF StageShape, Reported, Fits, Lands, Built
  <1> HIDE DEF r
  <1> QED BY <1>1, <1>3, <1>4, StepStage

\* create starts pbuilder on the base itself.
LEMMA CreateBeginsStage ==
  ASSUME TypeInv, NEW q \in Sessions, CreateBegins(q)
  PROVE  TypeInv' /\ Others(q)
  <1> DEFINE new == [tree[Base] EXCEPT !.state = "running", !.saved = @ \cup {q},
                                       !.mounted = TRUE]
  <1>0. TypeOK /\ StageShape(q) /\ Proper(tree[Base]) /\ pc[q] = "mkdir" /\ SetTree(Base, new)
    BY PlacesApart, ProperTrees DEF TypeInv, CreateBegins
  <1>1. op[q] = "create" /\ tree[Build(q)].state # "copying"
    BY <1>0 DEF StageShape, Fits
  <1>2. Proper(new) /\ new.state = "running"
    BY <1>0 DEF Proper, Tree
  <1> HIDE DEF new
  <1>3. OwnTrees(q) /\ Alike(Build(q))
    BY <1>0, <1>1, <1>2, SetTreeEffect, PlacesApart DEF OwnTrees, Touched
  <1>4. Step(q, "running", ret[q])
    BY <1>0 DEF CreateBegins, Goto, ghostVars, TypeOK, Stages, Step
  <1>5. Lands(q, "running", ret[q])
    BY <1>0, <1>1, <1>3 DEF StageShape, Fits, Lands, Alike
  <1> QED BY <1>3, <1>4, <1>5, StepStage

\* It ends, and the base is one that works or is removed.
LEMMA CreateEndsStage ==
  ASSUME TypeInv, NEW q \in Sessions, NEW r \in {-1, 0, 1, 128}, NEW stale \in BOOLEAN,
         CreateEnds(q, r, stale)
  PROVE  TypeInv' /\ Others(q)
  <1> DEFINE new == [tree[Base] EXCEPT !.state = IF r = 0 THEN "whole" ELSE "partial",
                                       !.mounted = stale]
             l == IF r = 0 THEN "done" ELSE "rmbase"
  <1>0. TypeOK /\ StageShape(q) /\ Proper(tree[Base]) /\ pc[q] = "running" /\ op[q] = "create"
    BY PlacesApart, ProperTrees DEF TypeInv, CreateEnds
  <1>1. tree[Build(q)].state # "copying" /\ op[q] \notin SavingOps
    BY <1>0, OpAssumption DEF StageShape, Fits
  <1>2. Proper(new) /\ new.state \in {"whole", "partial"}
    BY <1>0 DEF Proper, Tree
  <1>3. SetTree(Base, new) \/ UNCHANGED tree
    BY DEF CreateEnds
  <1> HIDE DEF new
  <1>4. OwnTrees(q) /\ Alike(Build(q))
    <2>1. CASE SetTree(Base, new)
      BY <1>0, <1>2, <2>1, SetTreeEffect, PlacesApart DEF OwnTrees, Touched
    <2>2. CASE UNCHANGED tree
      BY <2>2, NoTree DEF Alike
    <2> QED BY <1>3, <2>1, <2>2
  <1>5. Step(q, l, r)
    BY <1>0 DEF CreateEnds, Return, Goto, TypeOK, Stages, Step
  <1>6. Lands(q, l, r)
    BY <1>0, <1>1, <1>4 DEF Fits, Lands, Alike, Built
  <1> HIDE DEF l
  <1> QED BY <1>4, <1>5, <1>6, StepStage

\* A base whose create has failed is removed.
LEMMA RemoveBaseStage ==
  ASSUME TypeInv, NEW q \in Sessions, NEW ok \in BOOLEAN, RemoveBase(q, ok)
  PROVE  TypeInv' /\ Others(q)
  <1>0. TypeOK /\ StageShape(q) /\ pc[q] = "rmbase" /\ RmRf(q, Base, ok)
    BY DEF TypeInv, RemoveBase
  <1>1. OwnTrees(q) /\ damaged' \subseteq Removals
    BY <1>0, RmTree, PlacesApart DEF Removals, StageShape, Fits, Touched
  <1>2. Alike(Build(q))
    BY <1>0, RmRfEffect, PlacesApart
  <1>3. Step(q, "done", ret[q])
    BY <1>0, <1>1 DEF RemoveBase, Goto, ghostVars, TypeOK, Stages, Step
  <1>4. Lands(q, "done", ret[q])
    BY <1>0, <1>2, OpAssumption DEF StageShape, Fits, Lands, Alike, Built
  <1> QED BY <1>1, <1>3, <1>4, StepStage

\* A session is killed.
LEMMA CrashStage ==
  ASSUME TypeInv, NEW q \in Sessions, Crash(q)
  PROVE  TypeInv' /\ Others(q)
  <1>0. TypeOK /\ StageShape(q) /\ UNCHANGED tree
    BY DEF TypeInv, Crash
  <1>1. Step(q, "dead", ret[q])
    BY <1>0 DEF Crash, Goto, ghostVars, TypeOK, Stages, Step
  <1>2. Lands(q, "dead", ret[q])
    BY <1>0 DEF StageShape, Fits, Lands, Built
  <1> QED BY <1>0, <1>1, <1>2, NoTree, StepStage

\* A session is started.
LEMMA StartStage ==
  ASSUME TypeInv, NEW q \in Sessions, NEW o \in Ops, Start(q, o)
  PROVE  TypeInv' /\ Others(q)
  <1> DEFINE l == IF o = "create" THEN "mkdir" ELSE "rm"
  <1>0. /\ TypeOK /\ StageShape(q) /\ pc[q] = "idle"
        /\ pc' = [pc EXCEPT ![q] = l] /\ op' = [op EXCEPT ![q] = o]
        /\ UNCHANGED <<tree, ret, damaged, installed, misled>>
    BY DEF TypeInv, Start, Goto
  <1>1. overlapped' \in BOOLEAN
    BY <1>0 DEF Start, TypeOK
  <1>2. pc'[q] = l /\ op'[q] = o /\ l \in {"mkdir", "rm"}
    BY <1>0 DEF TypeOK
  <1>3. TypeOK'
    BY <1>0, <1>1 DEF TypeOK, Exists
  <1>4. StageShape(q)'
    BY <1>0, <1>2 DEF StageShape, Fits, Exists, Built
  <1>5. Reported(q)' /\ Others(q) /\ tree'[Base].state # "copying"
    BY <1>0, <1>2, SameTrees DEF Reported, TypeOK, TypeInv
  <1> QED BY <1>0, <1>3, <1>4, <1>5, OthersKeepStage

\* Every step of a session.
LEMMA StepTypes ==
  ASSUME TypeInv, NEW q \in Sessions, SessionStep(q)
  PROVE  TypeInv' /\ Others(q)
  <1>1. ASSUME NEW ok \in BOOLEAN, Command(q, ok)
        PROVE  TypeInv' /\ Others(q)
    BY <1>1, RmStage, CpEndsStage, IlistStage, CleanStage, SaveStage, RemoveAsideStage,
       RemoveBaseStage DEF Command
  <1>2. ASSUME NEW r \in {-1, 0, 1, 128}, NEW stale \in BOOLEAN,
               PbuilderEnds(q, r, stale) \/ CreateEnds(q, r, stale)
        PROVE  TypeInv' /\ Others(q)
    BY <1>2, PbuilderEndsStage, CreateEndsStage
  <1>3. CASE CleanRefused(q) \/ RenameFails(q)
    <2>1. TRUE \in BOOLEAN
      OBVIOUS
    <2> QED BY <1>3, <2>1, CleanStage, SaveStage
  <1> QED BY <1>1, <1>2, <1>3, StartStage, CpBeginsStage, UnlinkIlistStage,
             UnlinkIlistFailsStage, PbuilderBeginsStage, CreateBeginsStage,
             MoveAsideStage, InstallStage, CrashStage
          DEF SessionStep

\* No session has started.
LEMMA InitTypes == Init => TypeInv
  <1> SUFFICES ASSUME Init PROVE TypeInv
    OBVIOUS
  <1>1. PICK b \in {Nothing, FirstBase}, held \in [Leftover -> BOOLEAN] :
          tree = [p \in Places |->
                    IF p = Base THEN b
                    ELSE IF \E s \in Leftover : p = Build(s)
                         THEN LeftTree(held[CHOOSE s \in Leftover : p = Build(s)])
                         ELSE Nothing]
    BY DEF Init
  <1>2. /\ Proper(b) /\ b.state # "copying"
        /\ \A h \in BOOLEAN : Proper(LeftTree(h)) /\ LeftTree(h).state = "partial"
    <2>1. FirstBase \in Tree /\ FirstBase.state = "whole"
      BY DEF FirstBase, Tree
    <2>2. \A h \in BOOLEAN : LeftTree(h) \in Tree
      BY <2>1 DEF LeftTree, Tree
    <2>3. \A h \in BOOLEAN : LeftTree(h).state = "partial"
      BY <2>1 DEF LeftTree, Tree
    <2> QED BY <1>1, <2>1, <2>2, <2>3, NothingTree DEF Proper
  <1>3. ASSUME NEW p \in Places, p # Base
        PROVE  Proper(tree[p]) /\ tree[p].state # "copying"
    <2>1. CASE \E s \in Leftover : p = Build(s)
      <3>1. held[CHOOSE s \in Leftover : p = Build(s)] \in BOOLEAN
        BY <2>1
      <3> QED BY <1>1, <1>2, <1>3, <2>1, <3>1
    <2>2. CASE ~\E s \in Leftover : p = Build(s)
      BY <1>1, <1>3, <2>2, NothingTree
    <2> QED BY <2>1, <2>2
  <1>4. tree[Base] = b /\ \A s \in Sessions : tree[Build(s)].state # "copying"
    BY <1>1, <1>3, PlacesApart
  <1>8. tree \in [Places -> Tree] /\ \A p \in Places : Proper(tree[p])
    BY <1>1, <1>2, <1>3, <1>4 DEF Proper
  <1>5. installed \subseteq Sessions \cup {None}
    BY <1>1, <1>2, <1>4 DEF Init, Proper, Tree
  <1>6. TypeOK
    BY <1>5, <1>8 DEF Init, TypeOK, Proper, Exists
  <1>7. \A s \in Sessions : StageShape(s) /\ Reported(s)
    BY <1>4 DEF Init, StageShape, Fits, Reported, Built
  <1> QED BY <1>2, <1>4, <1>6, <1>7 DEF TypeInv

\* Every step keeps the types and the stages.
LEMMA NextTypes == TypeInv /\ [Next]_vars => TypeInv'
  <1>1. TypeInv /\ Next => TypeInv'
    BY StepTypes DEF Next
  <1>2. TypeInv /\ UNCHANGED vars => TypeInv'
    BY DEF vars, ghostVars, TypeInv, TypeOK, Exists, StageShape, Reported, Fits
  <1> QED BY <1>1, <1>2

\* The types hold in every state.
LEMMA TypeInvCorrect == Spec => []TypeInv
  BY InitTypes, NextTypes, PTL DEF Spec

\* The types; above all that a path where there is no tree has no mount, no
\* list and no work either, however the sessions' commands interleave.
THEOREM TypeOKCorrect == Spec => []TypeOK
  <1>1. TypeInv => TypeOK
    BY DEF TypeInv
  <1> QED BY <1>1, TypeInvCorrect, PTL

\* A login or execute that is to be saved and returns 0 is in the base,
\* whichever of its commands have failed, and whatever other sessions do.
THEOREM SaveReportedCorrect == Spec => []SaveReported
  <1>1. TypeInv => SaveReported
    BY DEF TypeInv, Reported, SaveReported
  <1> QED BY <1>1, TypeInvCorrect, PTL

----------------------------------------------------------------------------
(* Sessions that are kept apart, and mounts.                                *)

\* While save keeps sessions out of each other's way, one that saves runs beside
\* no other that saves, and a create beside no other session, on no base.
Apart(s, q) == /\ ~(Saves(op[s]) /\ Saves(op[q]))
               /\ op[s] # "create" /\ op[q] # "create"
ApartInv == ~overlapped =>
    /\ \A s, q \in Sessions : s # q /\ Active(s) /\ Active(q) => Apart(s, q)
    /\ \A s \in Sessions : op[s] = "create" /\ Active(s) => installed = {}

\* A base is installed by a session that saves, or by a create that ends.
LEMMA StepGhosts ==
  ASSUME TypeInv, NEW q \in Sessions, SessionStep(q), ~\E o \in Ops : Start(q, o)
  PROVE  /\ Active(q) /\ pc'[q] \notin {"idle", pc[q]}
         /\ op' = op /\ overlapped' = overlapped /\ misled \subseteq misled'
         /\ \/ installed' = installed
            \/ pc[q] = "install" /\ pc'[q] = "rmaside" /\ installed' = installed \cup {q}
            \/ op[q] = "create" /\ pc'[q] = "done" /\ installed' = installed \cup {q}
  <1>0. TypeOK
    BY DEF TypeInv
  <1> USE <1>0 DEF Active, ghostVars, Goto, Return, TypeOK
  <1>1. CASE \E ok \in BOOLEAN : Command(q, ok)
    BY <1>1 DEF Command, Rm, CpEnds, IlistCreate, EtchFallback, HostFallback, Clean, AptClean,
                RemoveAside, RemoveBuild, RemoveBase
  <1>2. CASE Install(q)
    BY <1>2 DEF Install
  <1>3. CASE \E r \in {-1, 0, 1, 128}, stale \in BOOLEAN : CreateEnds(q, r, stale)
    BY <1>3 DEF CreateEnds
  <1>4. CASE \E r \in {-1, 0, 1, 128}, stale \in BOOLEAN : PbuilderEnds(q, r, stale)
    BY <1>4 DEF PbuilderEnds, AfterPbuilder
  <1>5. CASE CpBegins(q) \/ UnlinkIlist(q) \/ UnlinkIlistFails(q) \/ PbuilderBegins(q)
             \/ CreateBegins(q)
    BY <1>5 DEF CpBegins, UnlinkIlist, UnlinkIlistFails, PbuilderBegins, CreateBegins
  <1>6. CASE CleanRefused(q) \/ MoveAside(q) \/ RenameFails(q) \/ Crash(q)
    BY <1>6 DEF CleanRefused, MoveAside, RenameFails, Crash
  <1> QED BY <1>1, <1>2, <1>3, <1>4, <1>5, <1>6 DEF SessionStep

\* A start that brings sessions together is recorded.
LEMMA StartApart ==
  ASSUME TypeInv, ApartInv, NEW q \in Sessions, NEW o \in Ops, Start(q, o), ~overlapped'
  PROVE  /\ ~overlapped /\ op'[q] = o /\ ~Active(q) /\ installed' = installed
         /\ \A s \in Sessions \ {q} :
              Active(s) => ~(Saves(op[s]) /\ Saves(o)) /\ op[s] # "create" /\ o # "create"
         /\ o = "create" => installed = {}
  <1>0. TypeOK
    BY DEF TypeInv
  <1>1. /\ ~overlapped /\ op'[q] = o /\ ~Active(q) /\ installed' = installed
    BY <1>0 DEF Start, Active, TypeOK
  <1>2. \A s \in Sessions : Active(s) =>
          ~(Saves(op[s]) /\ Saves(o)) /\ op[s] # "create" /\ o # "create"
    BY DEF Start
  <1>3. o = "create" => installed = {}
    BY DEF Start
  <1> QED BY <1>1, <1>2, <1>3

\* Every step keeps them apart.
LEMMA ApartStep ==
  ASSUME TypeInv, ApartInv, NEW q \in Sessions, SessionStep(q)
  PROVE  ApartInv'
  <1> SUFFICES ASSUME ~overlapped' PROVE ApartInv'
    BY DEF ApartInv
  <1>0. TypeOK /\ Others(q)
    BY StepTypes DEF TypeInv
  <1>1. \A s \in Sessions \ {q} : op'[s] = op[s] /\ (Active(s)' <=> Active(s))
    BY <1>0 DEF Others, Active
  <1>2. ASSUME NEW o \in Ops, Start(q, o)
        PROVE  ApartInv'
    BY <1>1, <1>2, StartApart DEF ApartInv, Apart, Saves
  <1>3. CASE ~\E o \in Ops : Start(q, o)
    <2>1. /\ Active(q) /\ op' = op /\ ~overlapped
          /\ \/ installed' = installed
             \/ Saves(op[q]) /\ op[q] # "create"
             \/ op[q] = "create" /\ pc'[q] = "done"
      BY <1>3, StepGhosts DEF TypeInv, StageShape, Fits
    <2>2. \A s, t \in Sessions : s # t /\ Active(s)' /\ Active(t)' => Apart(s, t)'
      BY <1>1, <2>1 DEF ApartInv, Apart, Saves
    <2>3. ASSUME NEW s \in Sessions, op'[s] = "create", Active(s)'
          PROVE  installed' = {}
      <3>1. op[s] = "create" /\ Active(s)
        BY <1>1, <2>1, <2>3
      <3>2. installed = {}
        BY <2>1, <3>1 DEF ApartInv
      <3>3. s # q => Apart(s, q)
        BY <2>1, <3>1 DEF ApartInv
      <3> QED BY <2>1, <2>3, <3>1, <3>2, <3>3 DEF Apart, Active
    <2> QED BY <2>2, <2>3 DEF ApartInv
  <1> QED BY <1>2, <1>3

\* The places stay apart in every state.
LEMMA ApartInvCorrect == Spec => []ApartInv
  <1>1. Init => ApartInv
    BY DEF Init, ApartInv, Active
  <1>2. TypeInv /\ ApartInv /\ [Next]_vars => ApartInv'
    <2>1. TypeInv /\ ApartInv /\ Next => ApartInv'
      BY ApartStep DEF Next
    <2>2. ApartInv /\ UNCHANGED vars => ApartInv'
      BY DEF vars, ghostVars, ApartInv, Active, Apart
    <2> QED BY <2>1, <2>2
  <1> QED BY <1>1, <1>2, TypeInvCorrect, PTL DEF Spec

\* What HostIntact takes for granted of the host and of pbuilder: /etc/mtab can
\* be read, and pbuilder leaves no mount in the operations after which the tree
\* is removed with no check_mountpoint.
MountsSeen == MtabReadable /\ StaleOps \cap {"update", "create"} = {}

\* Where a mount may be that a session is about to go through with rm -rf, or
\* to move to where another one does.
MountInv ==
    /\ \A s \in Sessions : pc[s] = "rmbuild" => ~tree[Build(s)].mounted
    /\ ~overlapped =>
         /\ damaged \subseteq {"rm"}
         /\ \A s \in Sessions :
              /\ pc[s] \in Copied /\ Saves(op[s]) => ~tree[Base].mounted
              /\ pc[s] \in {"install", "rmaside"} => ~tree[Aside(s)].mounted
              /\ pc[s] = "rmbase" => ~tree[Base].mounted

\* A step of q keeps the others' part.
LEMMA OthersKeepMounts ==
  ASSUME TypeInv, ApartInv, MountInv, NEW q \in Sessions, SessionStep(q),
         pc'[q] = "rmbuild" => ~tree'[Build(q)].mounted,
         ~overlapped => damaged' \subseteq damaged \cup {"rm"},
         ~overlapped' =>
           /\ pc'[q] \in Copied /\ Saves(op'[q]) => ~tree'[Base].mounted
           /\ pc'[q] \in {"install", "rmaside"} => ~tree'[Aside(q)].mounted
           /\ pc'[q] = "rmbase" => ~tree'[Base].mounted
  PROVE  MountInv'
  <1>0. Others(q) /\ Base \in Places
    BY StepTypes, PlacesApart
  <1>1. ~overlapped' => ~overlapped
    BY StepGhosts DEF Start
  <1>2. ASSUME NEW s \in Sessions, s # q
        PROVE  /\ pc'[s] = "rmbuild" => ~tree'[Build(s)].mounted
               /\ pc'[s] \in {"install", "rmaside"} /\ ~overlapped => ~tree'[Aside(s)].mounted
    BY <1>0, <1>2 DEF Others, Alike, MountInv
  <1>3. ASSUME NEW s \in Sessions, s # q, ~overlapped',
               pc'[s] = "rmbase" \/ (pc'[s] \in Copied /\ Saves(op'[s]))
        PROVE  ~tree'[Base].mounted
    <2>1. pc[s] = "rmbase" \/ (pc[s] \in Copied /\ Saves(op[s]))
      BY <1>0, <1>3 DEF Others
    <2>2. ~tree[Base].mounted /\ Active(s)
      BY <1>1, <1>3, <2>1 DEF MountInv, Active, Copied, Built
    <2>3. CASE \E o \in Ops : Start(q, o)
      BY <2>2, <2>3 DEF Start
    <2>4. CASE ~\E o \in Ops : Start(q, o)
      <3>1. Active(q) /\ Apart(s, q)
        BY <1>1, <1>3, <2>2, <2>4, StepGhosts DEF ApartInv
      <3>2. op[q] # "create" /\ (Saves(op[q]) => FALSE)
        <4>1. pc[s] = "rmbase" => op[s] = "create"
          BY DEF TypeInv, StageShape, Fits
        <4> QED BY <2>1, <3>1, <4>1 DEF Apart
      <3>3. Base \notin Touched(q)
        BY <3>2, PlacesApart DEF TypeInv, StageShape, Fits, Touched
      <3>4. Alike(Base)
        BY <1>0, <3>3 DEF Others
      <3> QED BY <2>2, <3>4 DEF Alike
    <2> QED BY <2>3, <2>4
  <1> QED BY <1>1, <1>2, <1>3 DEF MountInv

\* rm -rf does no damage where nothing is mounted.
LEMMA NoDamage ==
  ASSUME TypeInv, NEW q \in Sessions, NEW p \in Places, NEW ok \in BOOLEAN, RmRf(q, p, ok),
         ~tree[p].mounted
  PROVE  damaged' = damaged
  BY RmRfEffect DEF TypeInv

\* Every step keeps the mounts where they may be.
LEMMA MountStep ==
  ASSUME MountsSeen, TypeInv, ApartInv, MountInv, NEW q \in Sessions, SessionStep(q)
  PROVE  MountInv'
  <1>0. /\ TypeOK /\ Others(q) /\ StageShape(q) /\ StageShape(q)'
        /\ Base \in Places /\ Build(q) \in Places /\ Aside(q) \in Places
        /\ Build(q) # Base /\ Aside(q) # Base /\ Build(q) # Aside(q)
        /\ Proper(tree[Base])
    BY StepTypes, PlacesApart, ProperTrees DEF TypeInv
  <1> USE DEF Goto, Return, ghostVars
  \* A stage that says nothing of mounts, or says what the one before did.
  <1>1. CASE /\ pc'[q] \in {"cp", "copying", "running", "clean", "mkdir", "done", "dead"}
             /\ damaged' \subseteq damaged \cup {"rm"}
             /\ pc'[q] \in Copied /\ Saves(op'[q]) /\ ~overlapped' => ~tree'[Base].mounted
    BY <1>1, OthersKeepMounts
  <1>2. ASSUME NEW o \in Ops, Start(q, o)
        PROVE  MountInv'
    <2>1. pc[q] = "idle" /\ pc'[q] \in {"rm", "mkdir"} /\ damaged' = damaged /\ tree' = tree
      BY <1>0, <1>2 DEF Start, TypeOK
    <2> QED BY <2>1, OthersKeepMounts DEF Copied, Built
  <1>3. ASSUME NEW ok \in BOOLEAN, Rm(q, ok)
        PROVE  MountInv'
    <2>1. pc[q] = "rm" /\ RmRf(q, Build(q), ok) /\ pc'[q] \in {"cp", "done"}
      BY <1>0, <1>3 DEF Rm, TypeOK
    <2>2. damaged' \subseteq damaged \cup {"rm"}
      BY <1>0, <2>1, RmRfEffect
    <2> QED BY <1>1, <2>1, <2>2 DEF Copied, Built
  <1>4. CASE CpBegins(q) \/ CreateBegins(q) \/ CleanRefused(q) \/ Crash(q)
    <2>1. /\ pc'[q] \in {"copying", "running", "done", "dead"} /\ damaged' = damaged
          /\ CreateBegins(q) => op'[q] = "create"
          /\ ~CreateBegins(q) => pc'[q] # "running"
      BY <1>0, <1>4 DEF CpBegins, CreateBegins, CleanRefused, Crash, StageShape, Fits, TypeOK
    <2>2. ~(pc'[q] \in Copied /\ Saves(op'[q]))
      BY <1>0, <2>1, OpAssumption DEF Copied, Built, Saves
    <2> QED BY <1>1, <2>1, <2>2
  <1>5. ASSUME NEW ok \in BOOLEAN, CpEnds(q, ok)
        PROVE  MountInv'
    <2>1. /\ pc[q] = "copying" /\ damaged' = damaged /\ op' = op
          /\ IF ok THEN pc'[q] = "unlink" /\ ~tree[Base].mounted ELSE pc'[q] = "done"
      BY <1>0, <1>5 DEF CpEnds, TypeOK
    <2>2. Base \notin Touched(q)
      BY <1>0, <2>1 DEF Touched, StageShape, Fits
    <2>3. tree'[Base].mounted = tree[Base].mounted
      BY <1>0, <2>2 DEF Others, Alike
    <2> QED BY <2>1, <2>3, OthersKeepMounts DEF Copied, Built
  \* Commands on the build place that come from a stage where the base is seen to.
  <1>6. ASSUME pc[q] \in Copied, pc[q] \notin {"aside", "install"}, op[q] # "create",
               damaged' = damaged, op' = op, overlapped' = overlapped,
               pc'[q] \notin {"install", "rmaside", "rmbase"},
               pc'[q] = "rmbuild" => ~tree'[Build(q)].mounted
        PROVE  MountInv'
    <2>1. Base \notin Touched(q)
      BY <1>0, <1>6 DEF Touched, Copied, Built
    <2>2. tree'[Base].mounted = tree[Base].mounted
      BY <1>0, <2>1 DEF Others, Alike
    <2> QED BY <1>6, <2>2, OthersKeepMounts DEF MountInv
  <1>7. CASE UnlinkIlist(q) \/ UnlinkIlistFails(q) \/ PbuilderBegins(q)
    <2>1. /\ pc[q] \in {"unlink", "pbuilder"} /\ damaged' = damaged /\ op' = op
          /\ overlapped' = overlapped /\ pc'[q] \in {"ilistcreate", "pbuilder", "running"}
      BY <1>0, <1>7 DEF UnlinkIlist, UnlinkIlistFails, PbuilderBegins, TypeOK
    <2> QED BY <1>0, <1>6, <2>1 DEF Copied, Built, StageShape, Fits
  <1>8. ASSUME NEW ok \in BOOLEAN,
               IlistCreate(q, ok) \/ EtchFallback(q, ok) \/ HostFallback(q, ok)
        PROVE  MountInv'
    <2>1. /\ pc[q] \in {"ilistcreate", "fallback"} /\ damaged' = damaged /\ op' = op
          /\ overlapped' = overlapped /\ pc'[q] \in {"pbuilder", "fallback", "done"}
      BY <1>0, <1>8 DEF IlistCreate, EtchFallback, HostFallback, TypeOK
    <2> QED BY <1>0, <1>6, <2>1 DEF Copied, Built, StageShape, Fits
  <1>9. ASSUME NEW r \in {-1, 0, 1, 128}, NEW stale \in BOOLEAN, PbuilderEnds(q, r, stale)
        PROVE  MountInv'
    <2> DEFINE new == [tree[Build(q)] EXCEPT
                         !.state = IF @ = "running" /\ Completes(q, r) THEN "whole"
                                                                       ELSE "partial",
                         !.mounted = stale]
    <2>1. /\ pc[q] = "running" /\ op[q] # "create" /\ damaged' = damaged /\ op' = op
          /\ overlapped' = overlapped /\ pc'[q] = AfterPbuilder(q, r)
          /\ stale => op[q] \in StaleOps
          /\ SetTree(Build(q), new)
      BY <1>0, <1>9 DEF PbuilderEnds, TypeOK
    <2>2. pc'[q] = "rmbuild" => op[q] = "update"
      BY <1>0, <2>1 DEF StageShape, Fits
    <2>3. Proper(new) /\ new.mounted = stale
      BY <1>0, ProperTrees DEF Proper, Tree
    <2> HIDE DEF new
    <2>4. tree'[Build(q)].mounted = stale
      BY <1>0, <2>1, <2>3, SetTreeEffect
    <2>5. pc'[q] = "rmbuild" => ~tree'[Build(q)].mounted
      BY <2>1, <2>2, <2>4 DEF MountsSeen
    <2>6. pc'[q] \in {"done", "aside", "rmbuild", "aptclean", "clean"}
      BY <2>1 DEF AfterPbuilder
    <2> QED BY <1>6, <2>1, <2>5, <2>6 DEF Copied, Built
  <1>10. ASSUME NEW ok \in BOOLEAN, Clean(q, ok) \/ RemoveBuild(q, ok)
         PROVE  MountInv'
    <2>1. /\ RmRf(q, Build(q), ok) /\ pc'[q] = "done"
          /\ ~MountBelow(q) \/ pc[q] = "rmbuild"
      BY <1>0, <1>10 DEF Clean, RemoveBuild, TypeOK
    <2>2. ~tree[Build(q)].mounted
      BY <2>1 DEF MountBelow, MountsSeen, MountInv
    <2>3. damaged' = damaged
      BY <1>0, <2>1, <2>2, NoDamage
    <2> QED BY <1>1, <2>1, <2>3 DEF Copied, Built
  <1>11. ASSUME NEW ok \in BOOLEAN, AptClean(q, ok)
         PROVE  MountInv'
    <2>1. /\ pc[q] = "aptclean" /\ damaged' = damaged /\ op' = op
          /\ overlapped' = overlapped /\ pc'[q] = "aside"
      BY <1>0, <1>11 DEF AptClean, TypeOK
    <2> QED BY <1>0, <1>6, <2>1 DEF Copied, Built, StageShape, Fits
  <1>12. CASE MoveAside(q)
    <2>1. /\ pc[q] = "aside" /\ pc'[q] = "install" /\ damaged' = damaged
          /\ Move(Base, Aside(q)) /\ overlapped' = overlapped
      BY <1>0, <1>12 DEF MoveAside, TypeOK
    <2>2. tree'[Base] = Nothing /\ tree'[Aside(q)] = tree[Base]
      BY <1>0, <2>1, MoveEffect DEF TypeInv
    <2>3. Saves(op[q])
      BY <1>0, <2>1 DEF StageShape, Fits
    <2>4. ~overlapped => ~tree[Base].mounted
      BY <2>1, <2>3 DEF MountInv, Copied, Built
    <2> QED BY <2>1, <2>2, <2>4, NothingTree, OthersKeepMounts
  <1>13. CASE Install(q)
    <2>1. /\ pc[q] = "install" /\ pc'[q] = "rmaside" /\ damaged' = damaged
          /\ overlapped' = overlapped
      BY <1>0, <1>13 DEF Install, TypeOK
    <2>2. Aside(q) \notin Touched(q)
      BY <1>0, <2>1 DEF Touched, StageShape, Fits
    <2>3. tree'[Aside(q)].mounted = tree[Aside(q)].mounted
      BY <1>0, <2>2 DEF Others, Alike
    <2> QED BY <2>1, <2>3, OthersKeepMounts DEF MountInv, Copied, Built
  <1>14. CASE RenameFails(q)
    <2>1. pc'[q] = "done" /\ damaged' = damaged
      BY <1>0, <1>14 DEF RenameFails, TypeOK
    <2> QED BY <1>1, <2>1 DEF Copied, Built
  <1>15. ASSUME NEW ok \in BOOLEAN, RemoveAside(q, ok)
         PROVE  MountInv'
    <2>1. /\ pc[q] = "rmaside" /\ RmRf(q, Aside(q), ok) /\ pc'[q] = "done"
          /\ overlapped' = overlapped
      BY <1>0, <1>15 DEF RemoveAside, TypeOK
    <2>2. ~overlapped => damaged' = damaged
      BY <1>0, <2>1, NoDamage DEF MountInv
    <2> QED BY <2>1, <2>2, OthersKeepMounts DEF Copied, Built
  <1>16. ASSUME NEW r \in {-1, 0, 1, 128}, NEW stale \in BOOLEAN, CreateEnds(q, r, stale)
         PROVE  MountInv'
    <2> DEFINE new == [tree[Base] EXCEPT
                         !.state = IF r = 0 THEN "whole" ELSE "partial",
                         !.mounted = stale]
    <2>1. /\ op[q] = "create" /\ damaged' = damaged /\ op' = op /\ ~stale
          /\ pc'[q] \in {"done", "rmbase"}
          /\ SetTree(Base, new) \/ (~Exists(Base) /\ UNCHANGED tree)
      BY <1>0, <1>16 DEF CreateEnds, MountsSeen, TypeOK
    <2>2. Proper(new) /\ new.mounted = stale /\ new.state # "copying"
      BY <1>0 DEF Proper, Tree
    <2> HIDE DEF new
    <2>3. ~tree'[Base].mounted
      BY <1>0, <2>1, <2>2, SetTreeEffect, NothingTree DEF Exists, Proper
    <2> QED BY <2>1, <2>3, OthersKeepMounts DEF Copied, Built
  <1>17. ASSUME NEW ok \in BOOLEAN, RemoveBase(q, ok)
         PROVE  MountInv'
    <2>1. /\ pc[q] = "rmbase" /\ RmRf(q, Base, ok) /\ pc'[q] = "done"
          /\ overlapped' = overlapped
      BY <1>0, <1>17 DEF RemoveBase, TypeOK
    <2>2. ~overlapped => damaged' = damaged
      BY <1>0, <2>1, NoDamage DEF MountInv
    <2> QED BY <2>1, <2>2, OthersKeepMounts DEF Copied, Built
  <1> QED BY <1>2, <1>3, <1>4, <1>5, <1>7, <1>8, <1>9, <1>10, <1>11, <1>12, <1>13, <1>14,
             <1>15, <1>16, <1>17 DEF SessionStep, Command

\* At first no session is about to remove a tree.
LEMMA InitMounts == Init => MountInv
  BY PlacesApart DEF Init, MountInv, Copied, Built, Nothing, FirstBase

\* What pbuilder has mounted into a tree is still there when the tree has been
\* removed (cowbuilder.c:223-228), as long as save keeps sessions out of each
\* other's way: for any number of sessions, whatever fails, and whatever earlier
\* processes have left mounted.  What a rm -rf does that precedes a copy
\* (cowbuilder.c:183), which looks for no mount, is not spoken of.
THEOREM HostIntactCorrect ==
  ASSUME MountsSeen
  PROVE  Spec => []HostIntact
  <1>1. TypeInv /\ ApartInv /\ MountInv /\ [Next]_vars => MountInv'
    <2>1. TypeInv /\ ApartInv /\ MountInv /\ Next => MountInv'
      BY MountStep DEF Next
    <2>2. MountInv /\ UNCHANGED vars => MountInv'
      BY DEF vars, ghostVars, MountInv
    <2> QED BY <2>1, <2>2
  <1>2. MountInv => HostIntact
    BY DEF MountInv, HostIntact
  <1> QED BY <1>1, <1>2, InitMounts, TypeInvCorrect, ApartInvCorrect, PTL DEF Spec

----------------------------------------------------------------------------
(* The lists, and whose work a tree contains.                               *)

\* What the protection of the base rests on: a failing ilistcreate leaves no
\* list that can be loaded, and update is not told to run without the library.
ListsTold == ~Truncates /\ ~NoCow

\* A session starts pbuilder with no list, which cow-shell then makes, or with
\* one of its own tree; but for those that could not remove the base's.
ListInv == \A s \in Sessions \ misled :
    /\ pc[s] \in {"ilistcreate", "fallback"} => tree[Build(s)].list = "none"
    /\ pc[s] = "pbuilder" => tree[Build(s)].list \in {"none", "own"}

\* A session that works with the base's list goes on to.
LEMMA MisledStay ==
  ASSUME TypeInv, NEW q \in Sessions, SessionStep(q)
  PROVE  misled \subseteq misled'
  <1>1. CASE \E o \in Ops : Start(q, o)
    BY <1>1 DEF Start
  <1>2. CASE ~\E o \in Ops : Start(q, o)
    BY <1>2, StepGhosts
  <1> QED BY <1>1, <1>2

\* The step before makes the list, or removes the old one.
LEMMA ListStep ==
  ASSUME ListsTold, TypeInv, ListInv, NEW q \in Sessions, SessionStep(q)
  PROVE  ListInv'
  <1>0. /\ TypeOK /\ Others(q) /\ Build(q) \in Places /\ Build(q) # Base
        /\ Proper(tree[Build(q)]) /\ misled \subseteq misled'
    BY StepTypes, MisledStay, PlacesApart, ProperTrees DEF TypeInv
  <1> USE DEF Goto, Return, ghostVars
  <1>1. ASSUME NEW s \in Sessions \ misled', s # q
        PROVE  /\ pc'[s] \in {"ilistcreate", "fallback"} => tree'[Build(s)].list = "none"
               /\ pc'[s] = "pbuilder" => tree'[Build(s)].list \in {"none", "own"}
    BY <1>0, <1>1 DEF Others, Alike, ListInv
  <1>2. CASE pc'[q] \notin {"ilistcreate", "fallback", "pbuilder"}
    BY <1>1, <1>2 DEF ListInv
  <1>3. ASSUME NEW x \in {"none", "own"}, SetList(q, x), pc'[q] = "pbuilder" \/ x = "none"
        PROVE  ListInv'
    <2> DEFINE new == [tree[Build(q)] EXCEPT !.list = x]
    <2>1. SetTree(Build(q), new)
      BY <1>3 DEF SetList
    <2>2. new.list = x
      BY <1>0 DEF Proper, Tree
    <2>3. tree'[Build(q)] = new
      BY <1>0, <2>1 DEF SetTree, TypeOK
    <2> HIDE DEF new
    <2> QED BY <1>1, <1>3, <2>2, <2>3 DEF ListInv
  <1>4. CASE UnlinkIlist(q)
    <2>1. SetList(q, "none")
      BY <1>4 DEF UnlinkIlist, SetList, ListAfterUnlink
    <2> QED BY <1>3, <2>1
  <1>12. CASE q \in misled'
    BY <1>1, <1>12 DEF ListInv
  <1>5. ASSUME NEW ok \in BOOLEAN, q \notin misled,
               IlistCreate(q, ok) \/ EtchFallback(q, ok) \/ HostFallback(q, ok)
        PROVE  ListInv'
    <2>1. tree[Build(q)].list = "none"
      BY <1>5 DEF ListInv, IlistCreate, EtchFallback, HostFallback
    <2>2. \E x \in {"none", "own"} : SetList(q, x) /\ (ok \/ x = "none")
      BY <1>5, <2>1 DEF ListsTold, ListLeft, IlistCreate, EtchFallback, HostFallback
    <2>3. ok => pc'[q] = "pbuilder"
      BY <1>0, <1>5 DEF IlistCreate, EtchFallback, HostFallback, TypeOK
    <2> QED BY <1>3, <2>2, <2>3
  <1>6. CASE \E o \in Ops : Start(q, o)
    BY <1>0, <1>2, <1>6 DEF Start, TypeOK
  <1>7. ASSUME NEW ok \in BOOLEAN,
               \/ Rm(q, ok) \/ Clean(q, ok) \/ AptClean(q, ok)
               \/ RemoveAside(q, ok) \/ RemoveBuild(q, ok) \/ RemoveBase(q, ok)
        PROVE  ListInv'
    BY <1>0, <1>2, <1>7 DEF Rm, Clean, AptClean, RemoveAside, RemoveBuild, RemoveBase, TypeOK
  <1>8. ASSUME NEW ok \in BOOLEAN, CpEnds(q, ok)
        PROVE  ListInv'
    BY <1>0, <1>2, <1>8 DEF CpEnds, TypeOK
  <1>9. ASSUME NEW r \in {-1, 0, 1, 128}, NEW stale \in BOOLEAN,
               PbuilderEnds(q, r, stale) \/ CreateEnds(q, r, stale)
        PROVE  ListInv'
    BY <1>0, <1>2, <1>9 DEF PbuilderEnds, AfterPbuilder, CreateEnds, TypeOK
  <1>10. CASE CpBegins(q) \/ PbuilderBegins(q) \/ CreateBegins(q)
    BY <1>0, <1>2, <1>10 DEF CpBegins, PbuilderBegins, CreateBegins, TypeOK
  <1>11. CASE CleanRefused(q) \/ MoveAside(q) \/ Install(q) \/ RenameFails(q) \/ Crash(q)
    BY <1>0, <1>2, <1>11 DEF CleanRefused, MoveAside, Install, RenameFails, Crash, TypeOK
  <1>13. CASE UnlinkIlistFails(q)
    BY <1>0, <1>12, <1>13 DEF UnlinkIlistFails
  <1> QED BY <1>0, <1>4, <1>5, <1>6, <1>7, <1>8, <1>9, <1>10, <1>11, <1>12, <1>13
          DEF SessionStep, Command

\* It holds in every state.
LEMMA ListInvCorrect ==
  ASSUME ListsTold
  PROVE  Spec => []ListInv
  <1>1. Init => ListInv
    BY DEF Init, ListInv
  <1>2. TypeInv /\ ListInv /\ [Next]_vars => ListInv'
    <2>1. TypeInv /\ ListInv /\ Next => ListInv'
      BY ListStep DEF Next
    <2>2. ListInv /\ UNCHANGED vars => ListInv'
      BY DEF vars, ghostVars, ListInv
    <2> QED BY <2>1, <2>2
  <1> QED BY <1>1, <1>2, TypeInvCorrect, PTL DEF Spec

\* With such a list a session writes into no other tree.
LEMMA QuietStep ==
  ASSUME ListsTold, TypeInv, ListInv, NEW q \in Sessions, SessionStep(q),
         NEW x \in Places, x \notin Touched(q)
  PROVE  Alike(x) /\ tree'[x].saved \subseteq tree[x].saved \cup misled
  <1>1. Others(q)
    BY StepTypes
  <1>2. CASE q \in misled
    BY <1>1, <1>2 DEF Others
  <1>3. CASE q \notin misled
    <2>1. Quiet(q)
      BY <1>3 DEF ListsTold, ListInv, Quiet, Protected
    <2> QED BY <1>1, <2>1 DEF Others
  <1> QED BY <1>2, <1>3

\* The tree of a session that has been copied is changed by no step of another
\* session, and no other session writes into it but those that could not remove
\* the base's .ilist (cowbuilder.c:196-202, 592); also where sessions are not kept
\* apart.
THEOREM RunningUndisturbedCorrect ==
  ASSUME ListsTold
  PROVE  Spec => RunningUndisturbed
  <1> DEFINE Undisturbed(s) ==
               /\ Active(s) /\ pc'[s] = pc[s]
               /\ pc[s] \notin {"rm", "cp", "copying", "mkdir"} /\ op[s] # "create"
               => LET before == tree[Build(s)]
                      after == tree'[Build(s)]
                  IN  /\ after = [before EXCEPT !.saved = after.saved]
                      /\ before.saved \subseteq after.saved
                      /\ after.saved \subseteq before.saved \cup misled
  <1>1. TypeInv /\ ListInv /\ [Next]_vars => [\A s \in Sessions : Undisturbed(s)]_vars
    <2> SUFFICES ASSUME TypeInv, ListInv, NEW q \in Sessions, SessionStep(q), NEW s \in Sessions,
                        Active(s), pc'[s] = pc[s],
                        pc[s] \notin {"rm", "cp", "copying", "mkdir"}, op[s] # "create"
                 PROVE  Undisturbed(s)
      BY DEF Next
    <2>1. s # q
      BY StepGhosts DEF Start, Active
    <2>3. Build(s) \in Places /\ Build(s) \notin Touched(q)
      BY <2>1, PlacesApart DEF Touched
    <2>4. tree[Build(s)] \in Tree /\ tree'[Build(s)] \in Tree
      BY <2>3, StepTypes DEF TypeInv, TypeOK
    <2>5. tree[Build(s)].state # "copying"
      BY DEF TypeInv, StageShape, Active
    <2>6. Alike(Build(s)) /\ tree'[Build(s)].saved \subseteq tree[Build(s)].saved \cup misled
      BY <2>3, QuietStep
    <2> QED BY <2>4, <2>5, <2>6 DEF Alike, Tree
  <1>2. RunningUndisturbed <=> [][\A s \in Sessions : Undisturbed(s)]_vars
    BY PTL DEF RunningUndisturbed
  <1> QED BY <1>1, <1>2, TypeInvCorrect, ListInvCorrect, PTL DEF Spec

\* The work in the base is of sessions that were installed, or that created it, or
\* that work with the base's list; a build place contains that, and the session's
\* own.
Creators == {s \in Sessions : op[s] = "create" /\ pc[s] # "idle"}
SavedInv ==
    /\ tree[Base].saved \subseteq installed \cup Creators \cup misled
    /\ \A s \in Sessions : pc[s] \in Built /\ op[s] # "create" =>
         tree[Build(s)].saved \subseteq installed \cup Creators \cup misled \cup {s}

\* Who has been installed, has created, or works with the base's list, stays so.
LEMMA CreatorsStay ==
  ASSUME TypeInv, NEW q \in Sessions, SessionStep(q)
  PROVE  /\ Creators \subseteq Creators' /\ installed \subseteq installed'
         /\ misled \subseteq misled'
  <1>0. Others(q) /\ misled \subseteq misled'
    BY StepTypes, MisledStay
  <1>1. CASE \E o \in Ops : Start(q, o)
    BY <1>0, <1>1 DEF Start, Creators, Others
  <1>2. CASE ~\E o \in Ops : Start(q, o)
    BY <1>0, <1>2, StepGhosts DEF Creators, Others
  <1> QED BY <1>0, <1>1, <1>2

\* A step of q keeps it if it keeps what it says of the base and of q.
LEMMA OthersKeepSaved ==
  ASSUME ListsTold, TypeInv, ListInv, SavedInv, NEW q \in Sessions, SessionStep(q),
         Base \in Touched(q) =>
           tree'[Base].saved \subseteq installed' \cup Creators' \cup misled',
         pc'[q] \in Built /\ op'[q] # "create" =>
           tree'[Build(q)].saved \subseteq installed' \cup Creators' \cup misled' \cup {q}
  PROVE  SavedInv'
  <1>0. /\ Others(q) /\ Creators \subseteq Creators' /\ installed \subseteq installed'
        /\ misled \subseteq misled'
    BY StepTypes, CreatorsStay
  <1>1. tree'[Base].saved \subseteq installed' \cup Creators' \cup misled'
    <2>1. Base \notin Touched(q) => tree'[Base].saved \subseteq tree[Base].saved \cup misled
      BY PlacesApart, QuietStep
    <2> QED BY <1>0, <2>1 DEF SavedInv
  <1>2. ASSUME NEW s \in Sessions, s # q, pc'[s] \in Built, op'[s] # "create"
        PROVE  tree'[Build(s)].saved \subseteq installed' \cup Creators' \cup misled' \cup {s}
    <2>1. Build(s) \in Places /\ Build(s) \notin Touched(q)
      BY <1>2, PlacesApart DEF Touched
    <2>2. tree'[Build(s)].saved \subseteq tree[Build(s)].saved \cup misled
      BY <2>1, QuietStep
    <2>3. pc[s] \in Built /\ op[s] # "create"
      BY <1>0, <1>2 DEF Others
    <2> QED BY <1>0, <2>2, <2>3 DEF SavedInv
  <1> QED BY <1>1, <1>2 DEF SavedInv

\* Every step keeps it.
LEMMA SavedStep ==
  ASSUME ListsTold, TypeInv, ListInv, SavedInv, NEW q \in Sessions, SessionStep(q)
  PROVE  SavedInv'
  <1>0. /\ TypeOK /\ Others(q) /\ StageShape(q) /\ StageShape(q)'
        /\ Creators \subseteq Creators' /\ installed \subseteq installed'
        /\ misled \subseteq misled'
        /\ Base \in Places /\ Build(q) \in Places /\ Aside(q) \in Places
        /\ Build(q) # Base /\ Aside(q) # Base /\ Build(q) # Aside(q)
        /\ Proper(tree[Base]) /\ Proper(tree[Build(q)])
    BY StepTypes, CreatorsStay, PlacesApart, ProperTrees DEF TypeInv
  <1> USE DEF Goto, Return, ghostVars
  <1>1. CASE \E o \in Ops : Start(q, o)
    <2>1. tree' = tree /\ pc'[q] \notin Built
      BY <1>0, <1>1 DEF Start, Built, TypeOK
    <2> QED BY <1>0, <2>1, OthersKeepSaved DEF SavedInv
  \* Steps that are about the base.
  <1>2. CASE MoveAside(q)
    <2>1. tree'[Base] = Nothing /\ Alike(Build(q)) /\ tree'[Build(q)].saved = tree[Build(q)].saved
      BY <1>0, <1>2, MoveEffect DEF MoveAside, TypeInv
    <2>2. pc[q] \in Built /\ op[q] # "create" /\ op' = op
      BY <1>0, <1>2 DEF MoveAside, Built, StageShape, Fits
    <2> QED BY <1>0, <2>1, <2>2, NothingTree, OthersKeepSaved DEF SavedInv
  <1>3. CASE Install(q)
    <2>1. /\ pc[q] = "install" /\ pc'[q] = "rmaside" /\ Move(Build(q), Base)
          /\ installed' = installed \cup {q} /\ op[q] # "create"
      BY <1>0, <1>3 DEF Install, StageShape, Fits, TypeOK
    <2>2. tree[Build(q)].state # "copying"
      BY <1>0, <2>1 DEF StageShape
    <2>3. tree'[Base] = tree[Build(q)]
      BY <1>0, <2>1, <2>2, MoveEffect
    <2>4. tree[Build(q)].saved \subseteq installed \cup Creators \cup misled \cup {q}
      BY <2>1 DEF SavedInv, Built
    <2> QED BY <1>0, <2>1, <2>3, <2>4, OthersKeepSaved DEF Built
  <1>4. CASE op[q] = "create" /\ ~\E o \in Ops : Start(q, o)
    <2>1. op'[q] = "create" /\ q \in Creators'
      BY <1>4, StepGhosts DEF Creators
    <2>2. CASE CreateBegins(q)
      <3> DEFINE new == [tree[Base] EXCEPT !.state = "running", !.saved = @ \cup {q},
                                           !.mounted = TRUE]
      <3>1. SetTree(Base, new)
        BY <2>2 DEF CreateBegins
      <3>2. Proper(new) /\ new.state = "running" /\ new.saved = tree[Base].saved \cup {q}
        BY <1>0 DEF Proper, Tree
      <3> HIDE DEF new
      <3>3. tree'[Base].saved = tree[Base].saved \cup {q}
        BY <1>0, <3>1, <3>2, SetTreeEffect
      <3> QED BY <1>0, <2>1, <3>3, OthersKeepSaved DEF SavedInv
    <2>3. ASSUME NEW r \in {-1, 0, 1, 128}, NEW stale \in BOOLEAN, CreateEnds(q, r, stale)
          PROVE  SavedInv'
      <3> DEFINE new == [tree[Base] EXCEPT !.state = IF r = 0 THEN "whole" ELSE "partial",
                                           !.mounted = stale]
      <3>1. SetTree(Base, new) \/ UNCHANGED tree
        BY <2>3 DEF CreateEnds
      <3>2. Proper(new) /\ new.state # "copying" /\ new.saved = tree[Base].saved
        BY <1>0 DEF Proper, Tree
      <3> HIDE DEF new
      <3>3. tree'[Base].saved = tree[Base].saved
        BY <1>0, <3>1, <3>2, SetTreeEffect
      <3> QED BY <1>0, <2>1, <3>3, OthersKeepSaved DEF SavedInv
    <2>4. ASSUME NEW ok \in BOOLEAN, RemoveBase(q, ok)
          PROVE  SavedInv'
      <3>1. tree'[Base].saved \subseteq tree[Base].saved
        BY <1>0, <2>4, RmRfEffect DEF RemoveBase
      <3> QED BY <1>0, <2>1, <3>1, OthersKeepSaved DEF SavedInv
    <2>5. CASE Crash(q)
      BY <1>0, <2>1, <2>5, OthersKeepSaved DEF Crash, SavedInv
    <2>6. pc[q] \in {"mkdir", "running", "rmbase"}
      BY <1>0, <1>4, StepGhosts DEF StageShape, Fits, Active
    <2>7. ASSUME NEW ok \in BOOLEAN, Command(q, ok)
          PROVE  RemoveBase(q, ok)
      BY <1>4, <2>6, <2>7 DEF Command, Rm, CpEnds, IlistCreate, EtchFallback, HostFallback,
         Clean, AptClean, RemoveAside, RemoveBuild
    <2>8. ~(CpBegins(q) \/ UnlinkIlist(q) \/ UnlinkIlistFails(q) \/ PbuilderBegins(q)
            \/ CleanRefused(q) \/ MoveAside(q) \/ Install(q) \/ RenameFails(q))
      BY <2>6 DEF CpBegins, UnlinkIlist, UnlinkIlistFails, PbuilderBegins, CleanRefused,
                  MoveAside, Install, RenameFails
    <2>9. \A r \in {-1, 0, 1, 128}, stale \in BOOLEAN : ~PbuilderEnds(q, r, stale)
      BY <1>4 DEF PbuilderEnds
    <2> QED BY <1>4, <2>2, <2>3, <2>4, <2>5, <2>7, <2>8, <2>9 DEF SessionStep
  \* Steps on the build place.
  <1>5. ASSUME op[q] # "create", op' = op, Base \notin Touched(q),
               pc'[q] \in Built =>
                 pc[q] \in Built /\ tree'[Build(q)].saved \subseteq tree[Build(q)].saved \cup {q}
        PROVE  SavedInv'
    BY <1>0, <1>5, OthersKeepSaved DEF SavedInv
  <1>6. ASSUME UNCHANGED tree, op[q] # "create", op' = op, pc'[q] \in Built => pc[q] \in Built
        PROVE  SavedInv'
    BY <1>0, <1>6, OthersKeepSaved DEF SavedInv
  <1>7. ASSUME NEW ok \in BOOLEAN, op[q] # "create", Command(q, ok)
        PROVE  SavedInv'
    <2>1. CASE AptClean(q, ok)
      BY <1>0, <1>6, <1>7, <2>1 DEF AptClean, Built
    <2>2. CASE Rm(q, ok) \/ Clean(q, ok) \/ RemoveBuild(q, ok) \/ RemoveAside(q, ok)
               \/ RemoveBase(q, ok)
      <3>1. pc'[q] \in {"cp", "done"} /\ Base \notin Touched(q) /\ op' = op
        BY <1>0, <1>7, <2>2
        DEF Rm, Clean, RemoveBuild, RemoveAside, RemoveBase, Touched, TypeOK
      <3> QED BY <1>5, <1>7, <3>1 DEF Built
    <2>3. ASSUME NEW new, SetTree(Build(q), new), new.saved = tree[Build(q)].saved,
                 pc[q] \in {"copying", "ilistcreate", "fallback"}, op' = op
          PROVE  SavedInv'
      <3>1. tree'[Build(q)] = new
        BY <1>0, <2>3 DEF SetTree, TypeOK
      <3>2. Base \notin Touched(q)
        BY <1>0, <1>7, <2>3 DEF Touched
      <3> QED BY <1>5, <1>7, <2>3, <3>1, <3>2 DEF Built
    <2>4. CASE CpEnds(q, ok)
      <3> DEFINE new == [tree[Build(q)] EXCEPT
                           !.state = IF ok /\ tree[Build(q)].state = "copying"
                                     THEN "whole" ELSE "partial"]
      <3>1. SetTree(Build(q), new) /\ pc[q] = "copying" /\ op' = op
        BY <2>4 DEF CpEnds
      <3>2. new.saved = tree[Build(q)].saved
        BY <1>0 DEF Proper, Tree
      <3> HIDE DEF new
      <3> QED BY <2>3, <3>1, <3>2
    <2>5. CASE IlistCreate(q, ok) \/ EtchFallback(q, ok) \/ HostFallback(q, ok)
      <3>1. PICK x : SetList(q, x)
        BY <2>5 DEF IlistCreate, EtchFallback, HostFallback
      <3> DEFINE new == [tree[Build(q)] EXCEPT !.list = x]
      <3>2. SetTree(Build(q), new) /\ pc[q] \in {"ilistcreate", "fallback"} /\ op' = op
        BY <2>5, <3>1 DEF IlistCreate, EtchFallback, HostFallback, SetList
      <3>3. new.saved = tree[Build(q)].saved
        BY <1>0 DEF Proper, Tree
      <3> HIDE DEF new
      <3> QED BY <2>3, <3>2, <3>3
    <2> QED BY <1>7, <2>1, <2>2, <2>4, <2>5 DEF Command
  <1>8. CASE UnlinkIlist(q)
    <2> DEFINE new == [tree[Build(q)] EXCEPT !.list = ListAfterUnlink(tree[Build(q)])]
    <2>1. SetTree(Build(q), new) /\ pc[q] = "unlink" /\ op' = op /\ op[q] # "create"
      BY <1>0, <1>8 DEF UnlinkIlist, StageShape, Fits
    <2>2. new.saved = tree[Build(q)].saved
      BY <1>0 DEF Proper, Tree
    <2>3. tree'[Build(q)] = new
      BY <1>0, <2>1 DEF SetTree, TypeOK
    <2> HIDE DEF new
    <2>4. Base \notin Touched(q)
      BY <1>0, <2>1 DEF Touched
    <2> QED BY <1>5, <2>1, <2>2, <2>3, <2>4 DEF Built
  <1>9. CASE CpBegins(q) /\ op[q] # "create"
    <2>1. CASE Exists(Base)
      <3> DEFINE new == [state |-> IF tree[Base].state = "whole" THEN "copying" ELSE "partial",
                         saved |-> tree[Base].saved,
                         list |-> IF tree[Base].list = "none" THEN "none" ELSE "old",
                         mounted |-> FALSE]
      <3>1. SetTree(Build(q), new) /\ pc[q] = "cp" /\ op' = op
        BY <1>9, <2>1 DEF CpBegins
      <3>2. new.saved = tree[Base].saved
        OBVIOUS
      <3>3. tree'[Build(q)] = new
        BY <1>0, <3>1 DEF SetTree, TypeOK
      <3> HIDE DEF new
      <3>4. Base \notin Touched(q)
        BY <1>0, <1>9, <3>1 DEF Touched
      <3> QED BY <1>0, <1>9, <3>1, <3>2, <3>3, <3>4, OthersKeepSaved DEF SavedInv
    <2>2. CASE ~Exists(Base)
      BY <1>0, <1>6, <1>9, <2>2 DEF CpBegins, TypeOK, Built
    <2> QED BY <2>1, <2>2
  <1>10. CASE PbuilderBegins(q)
    <2> DEFINE new == [tree[Build(q)] EXCEPT
                         !.state = IF @ = "whole" THEN "running" ELSE @,
                         !.list = IF @ = "none" /\ ~(op[q] = "update" /\ NoCow)
                                  THEN "own" ELSE @,
                         !.mounted = TRUE]
    <2>1. /\ tree' = Worked(q, [tree EXCEPT ![Build(q)] = new])
          /\ pc[q] = "pbuilder" /\ op' = op /\ op[q] # "create"
      BY <1>0, <1>10 DEF PbuilderBegins, StageShape, Fits
    <2>2. Exists(Build(q))
      BY <1>0, <2>1 DEF StageShape, Built
    <2>3. Proper(new) /\ new.saved = tree[Build(q)].saved /\ new.state # "absent"
      BY <1>0, <2>2 DEF Proper, Tree, Exists
    <2> HIDE DEF new
    <2>4. tree'[Build(q)] = [new EXCEPT !.saved = @ \cup {q}]
      BY <1>0, <2>1, <2>3, WorkedEffect
    <2>5. tree'[Build(q)].saved = tree[Build(q)].saved \cup {q}
      BY <2>3, <2>4 DEF Proper, Tree
    <2>6. Base \notin Touched(q)
      BY <1>0, <2>1 DEF Touched
    <2> QED BY <1>5, <2>1, <2>5, <2>6 DEF Built
  <1>11. ASSUME NEW r \in {-1, 0, 1, 128}, NEW stale \in BOOLEAN, PbuilderEnds(q, r, stale)
         PROVE  SavedInv'
    <2> DEFINE new == [tree[Build(q)] EXCEPT
                         !.state = IF @ = "running" /\ Completes(q, r) THEN "whole"
                                                                       ELSE "partial",
                         !.mounted = stale]
    <2>1. SetTree(Build(q), new) /\ pc[q] = "running" /\ op' = op /\ op[q] # "create"
      BY <1>11 DEF PbuilderEnds
    <2>2. new.saved = tree[Build(q)].saved
      BY <1>0 DEF Proper, Tree
    <2>3. tree'[Build(q)] = new
      BY <1>0, <2>1 DEF SetTree, TypeOK
    <2> HIDE DEF new
    <2>4. Base \notin Touched(q)
      BY <1>0, <2>1 DEF Touched
    <2> QED BY <1>5, <2>1, <2>2, <2>3, <2>4 DEF Built
  <1>12. CASE (CleanRefused(q) \/ RenameFails(q) \/ Crash(q)) /\ op[q] # "create"
    BY <1>0, <1>6, <1>12 DEF CleanRefused, RenameFails, Crash, Built, TypeOK
  <1>14. CASE UnlinkIlistFails(q)
    <2>1. pc[q] = "unlink" /\ op' = op /\ op[q] # "create" /\ tree' = tree
      BY <1>0, <1>14 DEF UnlinkIlistFails, StageShape, Fits
    <2> QED BY <1>6, <2>1 DEF Built
  <1>13. op[q] # "create" => ~CreateBegins(q) /\ \A r \in {-1, 0, 1, 128}, stale \in BOOLEAN :
                                                   ~CreateEnds(q, r, stale)
    BY <1>0 DEF CreateBegins, CreateEnds, StageShape, Fits
  <1> QED BY <1>1, <1>2, <1>3, <1>4, <1>7, <1>8, <1>9, <1>10, <1>11, <1>12, <1>13, <1>14
          DEF SessionStep

\* A session shows in the base only once its tree has been installed, and a
\* build never does, unless it is one that could not remove the base's .ilist: for
\* any number of sessions, also of those that nothing keeps apart.
THEOREM OnlyInstalledCorrect ==
  ASSUME ListsTold
  PROVE  Spec => []OnlyInstalled
  <1>1. Init => SavedInv
    BY DEF Init, SavedInv, Built
  <1>2. TypeInv /\ ListInv /\ SavedInv /\ [Next]_vars => SavedInv'
    <2>1. TypeInv /\ ListInv /\ SavedInv /\ Next => SavedInv'
      BY SavedStep DEF Next
    <2>2. SavedInv /\ UNCHANGED vars => SavedInv'
      BY DEF vars, ghostVars, SavedInv, Creators
    <2> QED BY <2>1, <2>2
  <1>3. SavedInv => OnlyInstalled
    BY DEF SavedInv, Creators, OnlyInstalled
  <1> QED BY <1>1, <1>2, <1>3, TypeInvCorrect, ListInvCorrect, PTL DEF Spec

----------------------------------------------------------------------------
(* The base is kept.                                                        *)

\* What BaseKept takes for granted of the operations that save: their pbuilder is
\* not killed by a signal, after which a part of a tree would be installed.
SavingSurvives == SavingOps \cap KilledOps = {}

\* There has been a base that works.
Wanted == installed \cap ({None} \cup {s \in Sessions : op[s] = "create"}) # {}
\* A whole tree with the work of all who have been installed.
Holds(p) == tree[p].state = "whole" /\ installed \subseteq tree[p].saved

\* It is the base, or between the two renames it is beside it, and stays there if
\* the second one is not made.
BaseHeld ==
    \/ Holds(Base)
    \/ /\ ~Exists(Base)
       /\ \E s \in Sessions : pc[s] \in {"install", "done", "dead"} /\ Holds(Aside(s))

\* A session that saves has a whole copy of it to work in, and installs that.
WorksOnCopy(s) ==
    /\ pc[s] = "copying" => /\ tree[Build(s)].state = "copying"
                            /\ installed \subseteq tree[Build(s)].saved
    /\ pc[s] \in {"unlink", "pbuilder"} => Holds(Build(s))
    /\ pc[s] = "running" => /\ tree[Build(s)].state = "running"
                            /\ installed \cup {s} \subseteq tree[Build(s)].saved
    /\ pc[s] \in {"aptclean", "aside", "install"} =>
         Holds(Build(s)) /\ s \in tree[Build(s)].saved

KeptInv == ~overlapped =>
    /\ Wanted => BaseHeld /\ \A s \in Sessions : Saves(op[s]) => WorksOnCopy(s)
    /\ \A s \in Sessions : op[s] = "create" /\ pc[s] = "running" => s \in tree[Base].saved

\* A tree that is left alone still holds what was installed.
LEMMA AlikeHolds ==
  ASSUME NEW p, Alike(p), installed' = installed, Holds(p)
  PROVE  Holds(p)'
  BY DEF Alike, Holds

\* A start that is not recorded as bringing sessions together.
LEMMA StartKept ==
  ASSUME TypeInv, ApartInv, KeptInv, NEW q \in Sessions, NEW o \in Ops, Start(q, o)
  PROVE  KeptInv'
  <1> SUFFICES ASSUME ~overlapped' PROVE KeptInv'
    BY DEF KeptInv
  <1>0. /\ TypeOK /\ Others(q) /\ ~overlapped /\ pc[q] = "idle"
        /\ pc'[q] \in {"rm", "mkdir"} /\ op'[q] = o /\ tree' = tree /\ installed' = installed
    <2>1. TypeOK /\ Others(q)
      BY StepTypes DEF TypeInv, SessionStep
    <2> QED BY <2>1 DEF TypeOK, Start, Goto
  <1>1. o = "create" => installed = {}
    BY StartApart
  <1>2. Wanted' => Wanted
    BY <1>0, <1>1 DEF Wanted, Others
  <1>3. Wanted => BaseHeld'
    <2>1. \A x \in Places : Holds(x)' = Holds(x) /\ Exists(x)' = Exists(x)
      BY <1>0 DEF Holds, Exists
    <2>2. \A s \in Sessions : pc[s] \in {"install", "done", "dead"} => pc'[s] = pc[s]
      BY <1>0 DEF Others
    <2> QED BY <1>0, <2>1, <2>2, PlacesApart DEF KeptInv, BaseHeld
  <1>4. ASSUME Wanted, NEW s \in Sessions, Saves(op'[s])
        PROVE  WorksOnCopy(s)'
    <2>1. CASE s = q
      BY <1>0, <2>1 DEF WorksOnCopy
    <2>2. CASE s # q
      BY <1>0, <1>4, <2>2 DEF WorksOnCopy, KeptInv, Others, Holds
    <2> QED BY <2>1, <2>2
  <1>5. \A s \in Sessions : op'[s] = "create" /\ pc'[s] = "running" => s \in tree'[Base].saved
    BY <1>0 DEF KeptInv, Others
  <1> QED BY <1>2, <1>3, <1>4, <1>5 DEF KeptInv

\* create is alone, and there is nothing to keep before it ends.
LEMMA CreateKept ==
  ASSUME TypeInv, ApartInv, KeptInv, NEW q \in Sessions, SessionStep(q),
         ~\E o \in Ops : Start(q, o), op[q] = "create"
  PROVE  KeptInv'
  <1> SUFFICES ASSUME ~overlapped' PROVE KeptInv'
    BY DEF KeptInv
  <1>0. /\ TypeOK /\ Others(q) /\ StageShape(q) /\ Active(q) /\ ~overlapped /\ op' = op
        /\ Base \in Places /\ Proper(tree[Base])
    BY StepTypes, StepGhosts, PlacesApart, ProperTrees DEF TypeInv
  <1>1. installed = {}
    BY <1>0 DEF ApartInv
  <1>2. \A s \in Sessions \ {q} : ~Active(s) /\ pc'[s] = pc[s]
    BY <1>0 DEF ApartInv, Apart, Others
  <1>3. \A s \in Sessions : Saves(op'[s]) => WorksOnCopy(s)'
    BY <1>0, <1>2, OpAssumption DEF Active, WorksOnCopy, Saves
  <1>4. CASE \E r \in {-1, 0, 1, 128}, stale \in BOOLEAN : CreateEnds(q, r, stale)
    <2>1. PICK r \in {-1, 0, 1, 128}, stale \in BOOLEAN : CreateEnds(q, r, stale)
      BY <1>4
    <2> DEFINE new == [tree[Base] EXCEPT !.state = IF r = 0 THEN "whole" ELSE "partial",
                                         !.mounted = stale]
    <2>2. /\ pc[q] = "running" /\ pc'[q] \in {"done", "rmbase"}
          /\ \/ r = 0 /\ installed' = {q} /\ SetTree(Base, new)
             \/ installed' = {}
      BY <1>0, <1>1, <2>1 DEF CreateEnds, Return, Goto, TypeOK
    <2>3. /\ Proper(new) /\ new.state # "copying" /\ new.saved = tree[Base].saved
          /\ r = 0 => new.state = "whole"
      BY <1>0 DEF Proper, Tree
    <2> HIDE DEF new
    <2>4. q \in tree[Base].saved
      BY <1>0, <2>2 DEF KeptInv
    <2>5. Wanted' => Holds(Base)'
      <3>1. CASE installed' = {}
        BY <3>1 DEF Wanted
      <3>2. CASE r = 0 /\ installed' = {q} /\ SetTree(Base, new)
        BY <1>0, <2>3, <2>4, <3>2, SetTreeEffect DEF Holds
      <3> QED BY <2>2, <3>1, <3>2
    <2>6. \A s \in Sessions : ~(op'[s] = "create" /\ pc'[s] = "running")
      BY <1>0, <1>2, <2>2 DEF Active
    <2> QED BY <1>3, <2>5, <2>6 DEF KeptInv, BaseHeld
  <1>5. CASE CreateBegins(q)
    <2> DEFINE new == [tree[Base] EXCEPT !.state = "running", !.saved = @ \cup {q},
                                         !.mounted = TRUE]
    <2>1. SetTree(Base, new) /\ installed' = {}
      BY <1>1, <1>5 DEF CreateBegins, ghostVars
    <2>2. Proper(new) /\ new.state # "copying" /\ q \in new.saved
      BY <1>0 DEF Proper, Tree
    <2> HIDE DEF new
    <2>3. q \in tree'[Base].saved
      BY <1>0, <2>1, <2>2, SetTreeEffect
    <2>4. \A s \in Sessions : op'[s] = "create" /\ pc'[s] = "running" => s = q
      BY <1>2 DEF Active
    <2> QED BY <2>1, <2>3, <2>4 DEF KeptInv, Wanted
  <1>6. CASE ~CreateBegins(q) /\ ~\E r \in {-1, 0, 1, 128}, stale \in BOOLEAN :
                                    CreateEnds(q, r, stale)
    <2>1. pc[q] \in {"mkdir", "running", "rmbase"}
      BY <1>0 DEF StageShape, Fits, Active
    <2>2. pc'[q] \in {"done", "dead"} /\ installed' = installed
      <3>1. CASE \E ok \in BOOLEAN : Command(q, ok)
        BY <1>0, <2>1, <3>1
        DEF Command, Rm, CpEnds, IlistCreate, EtchFallback, HostFallback, Clean, AptClean,
            RemoveAside, RemoveBuild, RemoveBase, Goto, ghostVars, TypeOK
      <3>2. CASE Crash(q)
        BY <1>0, <3>2 DEF Crash, Goto, ghostVars, TypeOK
      <3> QED BY <1>6, <2>1, <3>1, <3>2
              DEF SessionStep, CpBegins, UnlinkIlist, UnlinkIlistFails, PbuilderBegins,
                  PbuilderEnds, CleanRefused, MoveAside, Install, RenameFails
    <2>3. \A s \in Sessions : ~(op'[s] = "create" /\ pc'[s] = "running")
      BY <1>2, <2>2 DEF Active
    <2> QED BY <1>1, <2>2, <2>3 DEF KeptInv, Wanted
  <1> QED BY <1>4, <1>5, <1>6

\* No create runs beside another session.
LEMMA NoCreate ==
  ASSUME ApartInv, ~overlapped, NEW q \in Sessions, Active(q), op[q] # "create"
  PROVE  \A s \in Sessions : op[s] = "create" => ~Active(s)
  BY DEF ApartInv, Apart

\* A step of a session that leaves the base where it is keeps it; what it does
\* to the session's own copy is left to see to.
LEMMA OthersKept ==
  ASSUME TypeInv, ApartInv, KeptInv, NEW q \in Sessions, SessionStep(q),
         ~\E o \in Ops : Start(q, o), op[q] # "create", Base \notin Touched(q),
         Wanted /\ Saves(op[q]) /\ ~overlapped => WorksOnCopy(q)'
  PROVE  KeptInv'
  <1> SUFFICES ASSUME ~overlapped' PROVE KeptInv'
    BY DEF KeptInv
  <1>0. /\ TypeOK /\ Others(q) /\ Active(q) /\ ~overlapped /\ op' = op
        /\ pc[q] # "install" /\ installed' = installed /\ Base \in Places
    BY StepTypes, StepGhosts, PlacesApart DEF TypeInv, Touched
  <1>1. Wanted' <=> Wanted
    BY <1>0 DEF Wanted
  <1>2. Wanted => BaseHeld'
    <2> SUFFICES ASSUME Wanted PROVE BaseHeld'
      OBVIOUS
    <2>1. Alike(Base)
      BY <1>0 DEF Others
    <2>2. CASE Holds(Base)
      BY <1>0, <2>1, <2>2, AlikeHolds DEF BaseHeld
    <2>3. CASE ~Holds(Base)
      <3>1. PICK s \in Sessions : pc[s] \in {"install", "done", "dead"} /\ Holds(Aside(s))
        BY <1>0, <2>3 DEF KeptInv, BaseHeld
      <3>2. s # q /\ ~Exists(Base)
        BY <1>0, <2>3, <3>1 DEF Active, KeptInv, BaseHeld
      <3>3. Alike(Aside(s)) /\ pc'[s] = pc[s]
        BY <1>0, <3>2 DEF Others
      <3>4. Holds(Aside(s))'
        BY <1>0, <3>1, <3>3, AlikeHolds
      <3>5. ~Exists(Base)'
        BY <2>1, <3>2 DEF Exists, Alike
      <3> QED BY <3>1, <3>3, <3>4, <3>5 DEF BaseHeld
    <2> QED BY <2>2, <2>3
  <1>3. ASSUME Wanted, NEW s \in Sessions, Saves(op'[s])
        PROVE  WorksOnCopy(s)'
    <2>1. CASE s = q
      BY <1>0, <1>3, <2>1
    <2>2. CASE s # q
      <3>1. Build(s) \in Places /\ Build(s) \notin Touched(q)
        BY <2>2, PlacesApart DEF Touched
      <3>2. /\ pc'[s] = pc[s] /\ tree'[Build(s)].state = tree[Build(s)].state
            /\ tree[Build(s)].saved \subseteq tree'[Build(s)].saved
        BY <1>0, <2>2, <3>1 DEF Others, Alike
      <3>3. WorksOnCopy(s)
        BY <1>0, <1>3 DEF KeptInv
      <3> QED BY <1>0, <3>2, <3>3 DEF WorksOnCopy, Holds
    <2> QED BY <2>1, <2>2
  <1>4. ASSUME NEW s \in Sessions, op'[s] = "create", pc'[s] = "running"
        PROVE  FALSE
    BY <1>0, <1>4, NoCreate DEF Others, Active
  <1> QED BY <1>1, <1>2, <1>3, <1>4 DEF KeptInv

\* The two renames, and their failure.
LEMMA RenamesKept ==
  ASSUME TypeInv, ApartInv, KeptInv, NEW q \in Sessions, SessionStep(q),
         ~\E o \in Ops : Start(q, o), Base \in Touched(q), op[q] # "create"
  PROVE  KeptInv'
  <1> SUFFICES ASSUME ~overlapped' PROVE KeptInv'
    BY DEF KeptInv
  <1>0. /\ TypeOK /\ Others(q) /\ Active(q) /\ ~overlapped /\ op' = op
        /\ Base \in Places /\ Build(q) \in Places /\ Aside(q) \in Places
        /\ Build(q) # Base /\ Aside(q) # Base /\ Build(q) # Aside(q)
    BY StepTypes, StepGhosts, PlacesApart DEF TypeInv
  <1>1. pc[q] \in {"aside", "install"} /\ Saves(op[q])
    BY <1>0, PlacesApart DEF Touched, TypeInv, StageShape, Fits
  <1>2. \A s \in Sessions \ {q} : Saves(op[s]) => ~Active(s) /\ pc'[s] = pc[s]
    BY <1>0, <1>1 DEF ApartInv, Apart, Others
  <1>3. \A s \in Sessions \ {q} : Saves(op[s]) => WorksOnCopy(s)'
    BY <1>2 DEF Active, WorksOnCopy
  <1>4. \A s \in Sessions : ~(op'[s] = "create" /\ pc'[s] = "running")
    <2>1. \A s \in Sessions : op[s] = "create" => ~Active(s)
      BY <1>0, NoCreate
    <2> QED BY <1>0, <2>1 DEF Others, Active
  <1>5. None \notin Sessions /\ (installed' = installed \/ installed' = installed \cup {q})
    BY OpAssumption, StepGhosts
  <1>6. Wanted' <=> Wanted
    BY <1>0, <1>5 DEF Wanted
  <1>7. Wanted => WorksOnCopy(q)
    BY <1>0, <1>1 DEF KeptInv
  <1>8. CASE MoveAside(q)
    <2>1. /\ Move(Base, Aside(q)) /\ Exists(Base) /\ pc'[q] = "install" /\ pc[q] = "aside"
          /\ installed' = installed
      BY <1>0, <1>8 DEF MoveAside, Goto, ghostVars, TypeOK
    <2>2. /\ tree'[Base] = Nothing /\ tree'[Aside(q)] = tree[Base]
          /\ Alike(Build(q)) /\ tree'[Build(q)].saved = tree[Build(q)].saved
      BY <1>0, <2>1, MoveEffect DEF TypeInv
    <2>3. Wanted => BaseHeld'
      <3>1. Wanted => Holds(Base)
        BY <1>0, <2>1 DEF KeptInv, BaseHeld
      <3>2. Wanted => Holds(Aside(q))'
        BY <2>1, <2>2, <3>1 DEF Holds
      <3>3. ~Exists(Base)'
        BY <2>2, NothingTree DEF Exists
      <3> QED BY <2>1, <3>2, <3>3 DEF BaseHeld
    <2>4. Wanted => WorksOnCopy(q)'
      BY <1>7, <2>1, <2>2, AlikeHolds DEF WorksOnCopy
    <2> QED BY <1>0, <1>3, <1>4, <1>6, <2>3, <2>4 DEF KeptInv
  <1>9. CASE Install(q)
    <2>1. /\ Move(Build(q), Base) /\ pc'[q] = "rmaside" /\ pc[q] = "install"
          /\ installed' = installed \cup {q}
      BY <1>0, <1>9 DEF Install, Goto, TypeOK
    <2>2. tree[Build(q)].state # "copying"
      BY <2>1 DEF TypeInv, StageShape
    <2>3. tree'[Base] = tree[Build(q)]
      BY <1>0, <2>1, <2>2, MoveEffect
    <2>4. Wanted => Holds(Base)'
      BY <1>7, <2>1, <2>3 DEF WorksOnCopy, Holds
    <2>5. WorksOnCopy(q)'
      BY <2>1 DEF WorksOnCopy
    <2> QED BY <1>0, <1>3, <1>4, <1>6, <2>4, <2>5 DEF KeptInv, BaseHeld
  <1>10. CASE RenameFails(q) \/ Crash(q)
    <2>1. tree' = tree /\ installed' = installed /\ pc'[q] \in {"done", "dead"}
      BY <1>0, <1>10 DEF RenameFails, Crash, Goto, ghostVars, TypeOK
    <2>2. \A x \in Places : Holds(x)' = Holds(x) /\ Exists(x)' = Exists(x)
      BY <2>1 DEF Holds, Exists
    <2>3. \A s \in Sessions : pc[s] \in {"install", "done", "dead"} =>
                                pc'[s] \in {"install", "done", "dead"}
      BY <1>0, <2>1 DEF Others
    <2>4. Wanted => BaseHeld'
      BY <1>0, <2>2, <2>3, PlacesApart DEF KeptInv, BaseHeld
    <2>5. WorksOnCopy(q)'
      BY <2>1 DEF WorksOnCopy
    <2> QED BY <1>0, <1>3, <1>4, <1>6, <2>4, <2>5 DEF KeptInv
  <1> QED BY <1>1, <1>8, <1>9, <1>10
          DEF SessionStep, Command, Rm, CpEnds, IlistCreate, EtchFallback, HostFallback, Clean,
              AptClean, RemoveAside, RemoveBuild, RemoveBase, CpBegins, UnlinkIlist,
              UnlinkIlistFails, PbuilderBegins, PbuilderEnds, CreateBegins, CreateEnds, CleanRefused

\* A session that saves works on a whole copy of the base.
LEMMA CopyKept ==
  ASSUME SavingSurvives, TypeInv, ApartInv, KeptInv, NEW q \in Sessions, SessionStep(q),
         ~\E o \in Ops : Start(q, o), op[q] # "create", Base \notin Touched(q),
         Wanted, Saves(op[q]), ~overlapped
  PROVE  WorksOnCopy(q)'
  <1>0. /\ TypeOK /\ StageShape(q) /\ WorksOnCopy(q) /\ op' = op
        /\ Base \in Places /\ Build(q) \in Places /\ Build(q) # Base
        /\ Proper(tree[Base]) /\ Proper(tree[Build(q)])
    BY StepGhosts, PlacesApart, ProperTrees DEF TypeInv, KeptInv
  <1>1. installed' = installed /\ pc[q] \notin {"aside", "install"}
    BY <1>0, StepGhosts DEF Touched
  <1>2. op[q] # "build"
    BY OpAssumption DEF Saves
  <1> USE DEF Goto, Return, ghostVars
  <1>3. CASE pc'[q] \notin {"copying", "unlink", "pbuilder", "running", "aptclean",
                            "aside", "install"}
    BY <1>3 DEF WorksOnCopy
  <1>4. ASSUME NEW ok \in BOOLEAN, Command(q, ok)
        PROVE  WorksOnCopy(q)'
    <2>1. CASE Rm(q, ok) \/ Clean(q, ok) \/ RemoveBuild(q, ok) \/ RemoveAside(q, ok)
               \/ RemoveBase(q, ok)
      <3>1. pc'[q] \in {"cp", "done"}
        BY <1>0, <2>1 DEF Rm, Clean, RemoveBuild, RemoveAside, RemoveBase, TypeOK
      <3> QED BY <1>3, <3>1
    <2>2. CASE AptClean(q, ok)
      <3>1. pc[q] = "aptclean" /\ pc'[q] = "aside" /\ tree' = tree
        BY <1>0, <2>2 DEF AptClean, TypeOK
      <3> QED BY <1>0, <1>1, <3>1 DEF WorksOnCopy, Holds
    <2>3. CASE CpEnds(q, ok)
      <3> DEFINE new == [tree[Build(q)] EXCEPT
                           !.state = IF ok /\ tree[Build(q)].state = "copying"
                                     THEN "whole" ELSE "partial"]
      <3>1. /\ SetTree(Build(q), new) /\ pc[q] = "copying"
            /\ pc'[q] = IF ok THEN "unlink" ELSE "done"
        BY <1>0, <2>3 DEF CpEnds, TypeOK
      <3>2. /\ new.saved = tree[Build(q)].saved
            /\ ok /\ tree[Build(q)].state = "copying" => new.state = "whole"
        BY <1>0 DEF Proper, Tree
      <3>3. tree'[Build(q)] = new
        BY <1>0, <3>1 DEF SetTree, TypeOK
      <3> HIDE DEF new
      <3> QED BY <1>0, <1>1, <3>1, <3>2, <3>3 DEF WorksOnCopy, Holds
    <2>4. CASE IlistCreate(q, ok) \/ EtchFallback(q, ok) \/ HostFallback(q, ok)
      BY <1>0, <1>2, <2>4 DEF IlistCreate, EtchFallback, HostFallback, StageShape, Fits
    <2> QED BY <1>4, <2>1, <2>2, <2>3, <2>4 DEF Command
  <1>5. CASE CpBegins(q)
    <2>1. CASE Exists(Base)
      <3> DEFINE new == [state |-> IF tree[Base].state = "whole" THEN "copying" ELSE "partial",
                         saved |-> tree[Base].saved,
                         list |-> IF tree[Base].list = "none" THEN "none" ELSE "old",
                         mounted |-> FALSE]
      <3>1. SetTree(Build(q), new) /\ pc'[q] = "copying"
        BY <1>0, <1>5, <2>1 DEF CpBegins, TypeOK
      <3>2. new.saved = tree[Base].saved /\ (tree[Base].state = "whole" => new.state = "copying")
        OBVIOUS
      <3>3. tree'[Build(q)] = new
        BY <1>0, <3>1 DEF SetTree, TypeOK
      <3> HIDE DEF new
      <3>4. Holds(Base)
        BY <2>1 DEF KeptInv, BaseHeld
      <3> QED BY <1>1, <3>1, <3>2, <3>3, <3>4 DEF WorksOnCopy, Holds
    <2>2. CASE ~Exists(Base)
      BY <1>0, <1>3, <1>5, <2>2 DEF CpBegins, TypeOK
    <2> QED BY <2>1, <2>2
  <1>6. CASE UnlinkIlist(q)
    <2> DEFINE new == [tree[Build(q)] EXCEPT !.list = ListAfterUnlink(tree[Build(q)])]
    <2>1. SetTree(Build(q), new) /\ pc[q] = "unlink" /\ pc'[q] = "pbuilder"
      BY <1>0, <1>2, <1>6 DEF UnlinkIlist, TypeOK
    <2>2. new.saved = tree[Build(q)].saved /\ new.state = tree[Build(q)].state
      BY <1>0 DEF Proper, Tree
    <2>3. tree'[Build(q)] = new
      BY <1>0, <2>1 DEF SetTree, TypeOK
    <2> HIDE DEF new
    <2> QED BY <1>0, <1>1, <2>1, <2>2, <2>3 DEF WorksOnCopy, Holds
  <1>11. CASE UnlinkIlistFails(q)
    <2>1. pc[q] = "unlink" /\ pc'[q] = "pbuilder" /\ tree' = tree
      BY <1>0, <1>2, <1>11 DEF UnlinkIlistFails, TypeOK
    <2> QED BY <1>0, <1>1, <2>1 DEF WorksOnCopy, Holds
  <1>7. CASE PbuilderBegins(q)
    <2> DEFINE new == [tree[Build(q)] EXCEPT
                         !.state = IF @ = "whole" THEN "running" ELSE @,
                         !.list = IF @ = "none" /\ ~(op[q] = "update" /\ NoCow)
                                  THEN "own" ELSE @,
                         !.mounted = TRUE]
    <2>1. /\ tree' = Worked(q, [tree EXCEPT ![Build(q)] = new])
          /\ pc[q] = "pbuilder" /\ pc'[q] = "running"
      BY <1>0, <1>7 DEF PbuilderBegins, TypeOK
    <2>2. tree[Build(q)].state = "whole" /\ installed \subseteq tree[Build(q)].saved
      BY <1>0, <2>1 DEF WorksOnCopy, Holds
    <2>3. Proper(new) /\ new.saved = tree[Build(q)].saved /\ new.state = "running"
      BY <1>0, <2>2 DEF Proper, Tree
    <2> HIDE DEF new
    <2>4. tree'[Build(q)] = [new EXCEPT !.saved = @ \cup {q}]
      BY <1>0, <2>1, <2>3, WorkedEffect
    <2>5. tree'[Build(q)].saved = tree[Build(q)].saved \cup {q} /\ tree'[Build(q)].state = "running"
      BY <2>3, <2>4 DEF Proper, Tree
    <2> QED BY <1>1, <2>1, <2>2, <2>5 DEF WorksOnCopy
  <1>8. ASSUME NEW r \in {-1, 0, 1, 128}, NEW stale \in BOOLEAN, PbuilderEnds(q, r, stale)
        PROVE  WorksOnCopy(q)'
    <2> DEFINE new == [tree[Build(q)] EXCEPT
                         !.state = IF @ = "running" /\ Completes(q, r) THEN "whole"
                                                                       ELSE "partial",
                         !.mounted = stale]
    <2>1. /\ SetTree(Build(q), new) /\ pc[q] = "running" /\ pc'[q] = AfterPbuilder(q, r)
          /\ r = -1 => op[q] \in KilledOps
      BY <1>0, <1>8 DEF PbuilderEnds, TypeOK
    <2>2. /\ tree[Build(q)].state = "running"
          /\ installed \cup {q} \subseteq tree[Build(q)].saved
      BY <1>0, <2>1 DEF WorksOnCopy
    <2>3. new.saved = tree[Build(q)].saved /\ (Completes(q, r) => new.state = "whole")
      BY <1>0, <2>2 DEF Proper, Tree
    <2>4. tree'[Build(q)] = new
      BY <1>0, <2>1 DEF SetTree, TypeOK
    <2> HIDE DEF new
    <2>5. pc'[q] \in {"aptclean", "aside"} => Completes(q, r)
      <3>1. CASE op[q] = "update"
        BY <2>1, <3>1 DEF AfterPbuilder, Completes
      <3>2. CASE op[q] \in SavingOps
        <4>1. op[q] \in {"login", "execute"} /\ r # -1
          BY <2>1, <3>2, OpAssumption DEF SavingSurvives
        <4> QED BY <4>1 DEF Completes
      <3> QED BY <3>1, <3>2 DEF Saves
    <2>6. pc'[q] \in {"aptclean", "aside", "done", "rmbuild", "clean"}
      BY <2>1 DEF AfterPbuilder
    <2> QED BY <1>1, <2>2, <2>3, <2>4, <2>5, <2>6 DEF WorksOnCopy, Holds
  <1>9. CASE CleanRefused(q) \/ RenameFails(q) \/ Crash(q)
    <2>1. pc'[q] \in {"done", "dead"}
      BY <1>0, <1>9 DEF CleanRefused, RenameFails, Crash, TypeOK
    <2> QED BY <1>3, <2>1
  <1>10. /\ ~CreateBegins(q) /\ ~MoveAside(q) /\ ~Install(q)
         /\ \A r \in {-1, 0, 1, 128}, stale \in BOOLEAN : ~CreateEnds(q, r, stale)
    BY <1>0, <1>1 DEF CreateBegins, CreateEnds, MoveAside, Install, StageShape, Fits
  <1> QED BY <1>4, <1>5, <1>6, <1>7, <1>8, <1>9, <1>10, <1>11 DEF SessionStep

\* At first the base is whole, or there is none.
LEMMA InitKept == Init => KeptInv
  <1> SUFFICES ASSUME Init PROVE KeptInv
    OBVIOUS
  <1>1. tree[Base] \in {Nothing, FirstBase} /\ installed = tree[Base].saved
    BY PlacesApart DEF Init
  <1>2. Wanted => Holds(Base)
    BY <1>1, NothingTree DEF Wanted, Holds, FirstBase
  <1>3. \A s \in Sessions : WorksOnCopy(s) /\ pc[s] # "running"
    BY DEF Init, WorksOnCopy
  <1> QED BY <1>2, <1>3 DEF KeptInv, BaseHeld

\* Whatever fails and whoever is killed, a whole tree with the work of every
\* session installed so far is kept, once there has been a base that works: for
\* any number of sessions that save keeps out of each other's way.
THEOREM BaseKeptCorrect ==
  ASSUME SavingSurvives
  PROVE  Spec => []BaseKept
  <1>1. TypeInv /\ ApartInv /\ KeptInv /\ [Next]_vars => KeptInv'
    <2>1. ASSUME TypeInv, ApartInv, KeptInv, NEW q \in Sessions, SessionStep(q)
          PROVE  KeptInv'
      <3>1. CASE \E o \in Ops : Start(q, o)
        BY <2>1, <3>1, StartKept
      <3>2. CASE op[q] = "create" /\ ~\E o \in Ops : Start(q, o)
        BY <2>1, <3>2, CreateKept
      <3>3. CASE /\ op[q] # "create" /\ ~\E o \in Ops : Start(q, o)
                 /\ Base \notin Touched(q)
        BY <2>1, <3>3, CopyKept, OthersKept
      <3>4. CASE /\ op[q] # "create" /\ ~\E o \in Ops : Start(q, o)
                 /\ Base \in Touched(q)
        BY <2>1, <3>4, RenamesKept
      <3> QED BY <3>1, <3>2, <3>3, <3>4
    <2>2. KeptInv /\ UNCHANGED vars => KeptInv'
      BY DEF vars, ghostVars, KeptInv, Wanted, BaseHeld, Holds, Exists, WorksOnCopy
    <2> QED BY <2>1, <2>2 DEF Next
  <1>2. KeptInv => BaseKept
    BY PlacesApart DEF KeptInv, Wanted, BaseHeld, Holds, BaseKept
  <1> QED BY <1>1, <1>2, InitKept, TypeInvCorrect, ApartInvCorrect, PTL DEF Spec
=============================================================================
