------------------------- MODULE LibraryInit_proof -------------------------
(***************************************************************************)
(* Proofs about LibraryInit, for any number of threads, of calls and of    *)
(* changes of the file.                                                    *)
(***************************************************************************)
EXTENDS LibraryInit, TLAPS

\* A thread that commits has loaded a list.
TypeInv == TypeOK /\ \A t \in Threads : pc[t] = "commit" => local[t] \in Lists

\* The lookup of chown has been done, or a thread that found no versioned
\* symbol is just doing it again.
ChownReady == \/ origlibc_chown = "libc"
              \/ ~Versioned /\ \E u \in Threads : pc[u] = "dlsym_chown"

PastDlsym == {"dlsym_chown", "test", "load", "commit", "fail", "loop", "verdict"}

\* While the constructor runs, the first thread is alone and has not been
\* through initialize_functions before; what it has looked up depends on where
\* it is.  Afterwards everything has been looked up, because the constructor
\* does not return before dlsym, not even with an error.
PointerInv ==
    /\ inCtor =>
        /\ \A t \in Threads \ {Main} : pc[t] = "out"
        /\ pc[Main] \in {"out", "claim", "dlsym"} \cup PastDlsym
        /\ pc[Main] = "out" => initialized = 0
        /\ pc[Main] \in PastDlsym => origlibc = "libc"
        /\ pc[Main] \in PastDlsym \ {"dlsym_chown"} => ChownReady
    /\ ~inCtor => origlibc = "libc" /\ ChownReady

\* The list comes after its length and before the flag, and all are of lists that
\* have been loaded.
LoadedInv ==
    /\ ilist # NULL => {ilist, ilist_len} \subseteq loaded
    /\ initialized = 2 => ilist # NULL /\ origlibc # NULL
    /\ \A t \in Threads : pc[t] = "commit" =>
          /\ local[t] \in loaded
          /\ "ilist_len" \notin unstored[t] => ilist_len \in loaded
          /\ "ilist" \notin unstored[t] => "ilist_len" \notin unstored[t] /\ ilist # NULL

LibInv == TypeInv /\ PointerInv /\ LoadedInv

----------------------------------------------------------------------------
\* Nothing is looked up, nothing is loaded, nobody runs.
LEMMA InitLib == Init => LibInv
  <1> SUFFICES ASSUME Init PROVE LibInv
    OBVIOUS
  <1>1. TypeInv
    BY BoundAssumption DEF Init, TypeInv, TypeOK, Stores
  <1>2. PointerInv
    BY ThreadAssumption DEF Init, PointerInv, PastDlsym
  <1>3. LoadedInv
    BY DEF Init, LoadedInv
  <1> QED BY <1>1, <1>2, <1>3 DEF LibInv

\* Every step keeps the types; a failed load loses no descriptor above the limit.
LEMMA NextType ==
  ASSUME TypeInv, [Next]_vars
  PROVE  TypeInv'
  <1> USE BoundAssumption DEF TypeInv, TypeOK, Goto, library, world, locals, Stores, StoreVisible
  <1>1. ASSUME NEW t \in Threads, Enter(t) PROVE TypeInv'
    BY <1>1 DEF Enter
  <1>2. ASSUME NEW t \in Threads, Step(t) PROVE TypeInv'
    <2>1. CASE Claim(t)
      BY <2>1 DEF Claim, Claimed
    <2>2. CASE Dlsym(t)
      BY <2>2 DEF Dlsym
    <2>3. CASE DlsymChown(t)
      BY <2>3 DEF DlsymChown, UnversionedChown
    <2>4. CASE TestIlist(t)
      BY <2>4 DEF TestIlist
    <2>5. CASE LoadSucceeds(t)
      BY <2>5 DEF LoadSucceeds
    <2>6. CASE LoadFails(t)
      BY <2>6 DEF LoadFails
    <2>7. CASE CommitLength(t)
      BY <2>7 DEF CommitLength
    <2>8. CASE CommitList(t)
      BY <2>8 DEF CommitList
    <2>9. CASE Publish(t)
      BY <2>9 DEF Publish
    <2>10. CASE Fail(t)
      <3>1. inCtor' \in BOOLEAN
        BY <2>10, Zenon DEF Fail
      <3>2. /\ initialized' = 0
            /\ pc' = [pc EXCEPT ![t] = "out"]
            /\ UNCHANGED <<ilist, ilist_len, origlibc, origlibc_chown, world, locals, calls>>
        BY <2>10, Zenon DEF Fail, FlagAfterFailure
      <3> QED BY <3>1, <3>2
    <2>11. CASE Loop(t)
      BY <2>11 DEF Loop
    <2>12. CASE Verdict(t)
      BY <2>12 DEF Verdict
    <2>13. CASE Search(t) \/ CallLibc(t)
      BY <2>13 DEF Search, CallLibc
    <2> QED BY <1>2, <2>1, <2>2, <2>3, <2>4, <2>5, <2>6, <2>7, <2>8, <2>9,
               <2>10, <2>11, <2>12, <2>13 DEF Step
  <1>3. CASE FileChange
    BY <1>3 DEF FileChange
  <1>4. CASE UNCHANGED vars
    BY <1>4 DEF vars
  <1> QED BY <1>1, <1>2, <1>3, <1>4 DEF Next

\* Every step keeps the order in which the list is published.
LEMMA NextLoaded ==
  ASSUME InOrder, TypeOK, LoadedInv, [Next]_vars,
         \A t \in Threads : pc[t] = "commit" => origlibc # NULL
  PROVE  LoadedInv'
  <1> USE ListAssumption
      DEF LoadedInv, TypeOK, Goto, library, world, locals, Stores, StoreVisible, Earlier
  <1>1. ASSUME NEW t \in Threads, Enter(t) PROVE LoadedInv'
    BY <1>1 DEF Enter
  <1>2. ASSUME NEW t \in Threads, Step(t) PROVE LoadedInv'
    <2>1. CASE Claim(t)
      BY <2>1 DEF Claim, Claimed
    <2>2. CASE Dlsym(t)
      BY <2>2 DEF Dlsym
    <2>3. CASE DlsymChown(t)
      BY <2>3 DEF DlsymChown
    <2>4. CASE TestIlist(t)
      BY <2>4 DEF TestIlist
    <2>5. CASE LoadSucceeds(t)
      BY <2>5 DEF LoadSucceeds
    <2>6. CASE LoadFails(t)
      BY <2>6 DEF LoadFails
    <2>7. CASE CommitLength(t)
      BY <2>7 DEF CommitLength
    <2>8. CASE CommitList(t)
      BY <2>8 DEF CommitList
    <2>9. CASE Publish(t)
      BY <2>9 DEF Publish
    <2>10. CASE Fail(t)
      BY <2>10 DEF Fail, FlagAfterFailure
    <2>11. CASE Loop(t)
      BY <2>11 DEF Loop
    <2>12. CASE Verdict(t)
      BY <2>12 DEF Verdict
    <2>13. CASE Search(t) \/ CallLibc(t)
      BY <2>13 DEF Search, CallLibc
    <2> QED BY <1>2, <2>1, <2>2, <2>3, <2>4, <2>5, <2>6, <2>7, <2>8, <2>9,
               <2>10, <2>11, <2>12, <2>13 DEF Step
  <1>3. CASE FileChange
    BY <1>3 DEF FileChange
  <1>4. CASE UNCHANGED vars
    BY <1>4 DEF vars
  <1> QED BY <1>1, <1>2, <1>3, <1>4 DEF Next

\* Every step keeps what is known of the pointers.
LEMMA NextPointers ==
  ASSUME TypeOK, PointerInv, [Next]_vars
  PROVE  PointerInv'
  <1> USE ThreadAssumption, BoundAssumption
      DEF PointerInv, PastDlsym, ChownReady, TypeOK, Goto, library, world, StoreVisible
  <1>1. ASSUME NEW t \in Threads, Enter(t) PROVE PointerInv'
    BY <1>1 DEF Enter
  <1>2. ASSUME NEW t \in Threads, Step(t) PROVE PointerInv'
    <2>0. inCtor => t = Main \/ pc[t] = "out"
      OBVIOUS
    <2>1. CASE Claim(t)
      BY <2>0, <2>1 DEF Claim
    <2>2. CASE Dlsym(t)
      BY <2>0, <2>2 DEF Dlsym
    <2>3. CASE DlsymChown(t)
      BY <2>0, <2>3 DEF DlsymChown, UnversionedChown
    <2>4. CASE TestIlist(t)
      BY <2>0, <2>4 DEF TestIlist
    <2>5. CASE LoadSucceeds(t)
      BY <2>0, <2>5 DEF LoadSucceeds
    <2>6. CASE LoadFails(t)
      BY <2>0, <2>6 DEF LoadFails
    <2>7. CASE CommitLength(t)
      BY <2>0, <2>7 DEF CommitLength
    <2>8. CASE CommitList(t)
      BY <2>0, <2>8 DEF CommitList
    <2>9. CASE Publish(t)
      BY <2>0, <2>9 DEF Publish
    <2>10. CASE Fail(t)
      BY <2>0, <2>10 DEF Fail
    <2>11. CASE Loop(t)
      BY <2>0, <2>11 DEF Loop
    <2>12. CASE Verdict(t)
      BY <2>0, <2>12 DEF Verdict
    <2>13. CASE Search(t) \/ CallLibc(t)
      BY <2>0, <2>13 DEF Search, CallLibc
    <2> QED BY <1>2, <2>1, <2>2, <2>3, <2>4, <2>5, <2>6, <2>7, <2>8, <2>9,
               <2>10, <2>11, <2>12, <2>13 DEF Step
  <1>3. CASE FileChange
    BY <1>3 DEF FileChange
  <1>4. CASE UNCHANGED vars
    BY <1>4 DEF vars
  <1> QED BY <1>1, <1>2, <1>3, <1>4 DEF Next

\* A thread that is about to publish has looked the pointers up.
LEMMA PublisherReady ==
  ASSUME PointerInv, NEW t \in Threads, pc[t] = "commit"
  PROVE  origlibc = "libc"
  BY DEF PointerInv, PastDlsym

\* Types and pointers, whatever the order of the stores.
LEMMA PointersCorrect == Spec => [](TypeInv /\ PointerInv)
  <1>1. Init => TypeInv /\ PointerInv
    BY InitLib DEF LibInv
  <1>2. TypeInv /\ PointerInv /\ [Next]_vars => (TypeInv /\ PointerInv)'
    BY NextType, NextPointers DEF TypeInv
  <1> QED BY <1>1, <1>2, PTL DEF Spec

\* The invariant is one.
LEMMA LibCorrect ==
  ASSUME InOrder
  PROVE  Spec => []LibInv
  <1>1. LibInv /\ [Next]_vars => LibInv'
    BY NextType, NextLoaded, NextPointers, PublisherReady, PointerAssumption DEF LibInv, TypeInv
  <1> QED BY <1>1, InitLib, PTL DEF Spec

----------------------------------------------------------------------------
\* The state of the initialization keeps its type; descriptors are lost up to
\* the limit and not beyond it (cowdancer.c:78-135).
THEOREM TypeOKCorrect == Spec => []TypeOK
  <1>1. TypeInv /\ PointerInv => TypeOK
    BY DEF TypeInv
  <1> QED BY <1>1, PointersCorrect, PTL

\* However many threads initialize at once, whatever versions of the list they
\* load, and however often the file breaks meanwhile: a list that can be seen has
\* the length of a loaded list, its own when all have loaded the same
\* (cowdancer.c:125-134).  The stores have to become visible in their order.
THEOREM PublishedWholeCorrect ==
  ASSUME InOrder
  PROVE  Spec => []PublishedWhole
  <1>1. LibInv => PublishedWhole
    BY DEF LibInv, LoadedInv, PublishedWhole
  <1> QED BY <1>1, LibCorrect, PTL

\* No thread calls libc through a pointer nobody has looked up, not even after
\* a failed initialization or during another thread's (cowdancer.c:164-231).
THEOREM PointersReadyCorrect == Spec => []PointersReady
  <1>1. TypeInv /\ PointerInv => PointersReady
    <2> SUFFICES ASSUME PointerInv, NEW t \in Threads, pc[t] = "libc"
                 PROVE  /\ origlibc # NULL
                        /\ origlibc_chown = NULL =>
                              ~Versioned /\ \E u \in Threads : pc[u] = "dlsym_chown"
      BY DEF PointersReady
    <2>1. ~inCtor
      BY DEF PointerInv, PastDlsym
    <2> QED BY <2>1, PointerAssumption DEF PointerInv, ChownReady
  <1> QED BY <1>1, PointersCorrect, PTL
=============================================================================
