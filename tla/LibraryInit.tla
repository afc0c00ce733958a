---------------------------- MODULE LibraryInit ----------------------------
(***************************************************************************)
(* How the threads of a program bring libcowdancer.so up: the static       *)
(* variable "initialized" of initialize_functions, the two variables that  *)
(* load_ilist publishes, and the pointers to the real libc functions.      *)
(* Nothing is locked: each read and write of these variables is one action *)
(* and the threads interleave between any two.  Every wrapper begins with  *)
(* initialize_functions, and the library's constructor runs it once in the *)
(* first thread before the program has others.                             *)
(***************************************************************************)
EXTENDS Naturals, FiniteSets

CONSTANTS
    Threads,
    Main,             \* the thread that runs the constructor
    Versioned,        \* TRUE: libc has the symbol chown@GLIBC_2.1
    InOrder,          \* TRUE: stores become visible in the order of the source
    Lists,            \* what .ilist can hold: lists of different lengths, so that
                      \* a list stands for its length as well
    NULL,
    FileChanges,      \* bound: how often .ilist appears, changes or vanishes
    FdLimit,          \* how many descriptors failed loads can lose before open fails
    MaxCalls          \* bound: wrapper calls a thread makes, ctor included

ASSUME ThreadAssumption == Main \in Threads
ASSUME BoundAssumption == /\ FileChanges \in Nat /\ FdLimit \in Nat
                          /\ MaxCalls \in Nat
ASSUME SwitchAssumption == Versioned \in BOOLEAN /\ InOrder \in BOOLEAN
ASSUME ListAssumption == Lists \cap {NULL, "missing", "bad"} = {}
ASSUME PointerAssumption == NULL # "libc"

VARIABLES
    initialized,      \* 0: not yet, 1: somebody is at it, 2: done
    ilist,            \* NULL or a list
    ilist_len,        \* 0 or the length of a list
    origlibc,         \* the function pointers other than origlibc_chown
    origlibc_chown,
    file, changes,    \* the file COWDANCER_ILISTFILE names
    leaked,           \* descriptors lost by failed loads
    local,            \* the list a thread has loaded: local_ilist, local_ilist_len
    unstored,         \* the variables it has still to store into
    loaded,           \* history: the lists that threads have loaded
    inCtor,           \* TRUE until the constructor has returned
    pc, calls

library == <<initialized, ilist, ilist_len, origlibc, origlibc_chown>>
world == <<file, changes, leaked>>
locals == <<local, unstored, loaded>>
vars == <<library, world, locals, inCtor, pc, calls>>

Stores == {"ilist_len", "ilist", "initialized"}

TypeOK ==
    /\ initialized \in 0..2
    /\ ilist \in {NULL} \cup Lists /\ ilist_len \in {0} \cup Lists
    /\ origlibc \in {NULL, "libc"} /\ origlibc_chown \in {NULL, "libc"}
    /\ file \in {"missing", "bad"} \cup Lists /\ changes \in 0..FileChanges
    /\ leaked \in 0..FdLimit
    /\ local \in [Threads -> {NULL} \cup Lists]
    /\ unstored \in [Threads -> SUBSET Stores]
    /\ loaded \in SUBSET Lists
    /\ inCtor \in BOOLEAN
    /\ pc \in [Threads -> {"out", "claim", "dlsym", "dlsym_chown", "test", "load",
                           "commit", "fail", "loop", "verdict", "search", "libc"}]
    /\ calls \in [Threads -> 0..MaxCalls]

Init ==
    /\ initialized = 0
    /\ ilist = NULL /\ ilist_len = 0
    /\ origlibc = NULL /\ origlibc_chown = NULL
    /\ file \in {"missing", "bad"} \cup Lists /\ changes = 0
    /\ leaked = 0
    /\ local = [t \in Threads |-> NULL]
    /\ unstored = [t \in Threads |-> {}]
    /\ loaded = {}
    /\ inCtor = TRUE
    /\ pc = [t \in Threads |-> "out"]
    /\ calls = [t \in Threads |-> 0]

----------------------------------------------------------------------------
(* Seeded faults: what the definitions below would be with a plausible bug. *)

\* the list is published before its length
ListFirst == [ilist |-> {}, ilist_len |-> {"ilist"}, initialized |-> Stores \ {"initialized"}]
\* a failed load leaves the flag at 1
FlagStays == 1
\* the unversioned chown is not asked for
NoFallback == NULL
\* the flag counts the threads that initialize
FlagCounts == initialized + 1

----------------------------------------------------------------------------
(* initialize_functions                                                    *)

Goto(t, l) == pc' = [pc EXCEPT ![t] = l]

\* Line 167: the flag is read.
Enter(t) ==
    /\ pc[t] = "out" /\ calls[t] < MaxCalls
    /\ inCtor => t = Main /\ calls[t] = 0
    /\ calls' = [calls EXCEPT ![t] = @ + 1]
    /\ Goto(t, IF initialized = 0 THEN "claim" ELSE "loop")
    /\ UNCHANGED <<library, world, locals, inCtor>>

\* The value the initializing thread writes while it works.
Claimed == 1

Claim(t) ==
    /\ pc[t] = "claim"
    /\ initialized' = Claimed
    /\ Goto(t, "dlsym")
    /\ UNCHANGED <<ilist, ilist_len, origlibc, origlibc_chown, world, locals, inCtor, calls>>

\* dlvsym gives NULL where libc has no versioned chown; the pointer is NULL
\* until dlsym has been asked.
Dlsym(t) ==
    /\ pc[t] = "dlsym"
    /\ origlibc' = "libc"
    /\ IF Versioned THEN origlibc_chown' = "libc" /\ Goto(t, "test")
                    ELSE origlibc_chown' = NULL /\ Goto(t, "dlsym_chown")
    /\ UNCHANGED <<initialized, ilist, ilist_len, world, locals, inCtor, calls>>

\* what dlsym(RTLD_NEXT, "chown") gives
UnversionedChown == "libc"

DlsymChown(t) ==
    /\ pc[t] = "dlsym_chown"
    /\ origlibc_chown' = UnversionedChown
    /\ Goto(t, "test")
    /\ UNCHANGED <<initialized, ilist, ilist_len, origlibc, world, locals, inCtor, calls>>

\* Line 213: with a list already there nothing more is done, and the flag
\* keeps the value Claim gave it.
TestIlist(t) ==
    /\ pc[t] = "test"
    /\ Goto(t, IF ilist = NULL THEN "load" ELSE "loop")
    /\ UNCHANGED <<library, world, locals, inCtor, calls>>

\* load_ilist up to line 123.  A file that opens but cannot be used costs a
\* descriptor: no error return closes it.
LoadSucceeds(t) ==
    /\ pc[t] = "load"
    /\ file \in Lists /\ leaked < FdLimit
    /\ local' = [local EXCEPT ![t] = file]
    /\ unstored' = [unstored EXCEPT ![t] = Stores]
    /\ loaded' = loaded \cup {file}
    /\ Goto(t, "commit")
    /\ UNCHANGED <<library, world, inCtor, calls>>

LoadFails(t) ==
    /\ pc[t] = "load"
    /\ \/ file = "missing" /\ UNCHANGED leaked
       \/ leaked = FdLimit /\ UNCHANGED leaked
       \/ file = "bad" /\ leaked < FdLimit /\ leaked' = leaked + 1
    /\ Goto(t, "fail")
    /\ UNCHANGED <<library, file, changes, locals, inCtor, calls>>

\* Lines 133, 134 and 220: the stores that come before a store in the source.
\* Nothing but the build and the machine keeps them in this order: the lists
\* are not volatile, and there is no barrier.
Earlier == [ilist_len |-> {}, ilist |-> {"ilist_len"},
            initialized |-> {"ilist_len", "ilist"}]

\* A store becomes visible to the other threads; after the last one the call
\* goes on.
StoreVisible(t, v) ==
    /\ pc[t] = "commit"
    /\ v \in unstored[t]
    /\ InOrder => unstored[t] \cap Earlier[v] = {}
    /\ unstored' = [unstored EXCEPT ![t] = @ \ {v}]
    /\ IF unstored[t] = {v}
       THEN Goto(t, "loop") /\ local' = [local EXCEPT ![t] = NULL]
       ELSE UNCHANGED <<pc, local>>
    /\ UNCHANGED <<origlibc, origlibc_chown, world, loaded, inCtor, calls>>

CommitLength(t) ==
    /\ StoreVisible(t, "ilist_len")
    /\ ilist_len' = local[t]
    /\ UNCHANGED <<initialized, ilist>>

CommitList(t) ==
    /\ StoreVisible(t, "ilist")
    /\ ilist' = local[t]
    /\ UNCHANGED <<initialized, ilist_len>>

Publish(t) ==
    /\ StoreVisible(t, "initialized")
    /\ initialized' = 2
    /\ UNCHANGED <<ilist, ilist_len>>

\* return 1, the flag reset: the wrapper gives up with ENOMEM
FlagAfterFailure == 0

Fail(t) ==
    /\ pc[t] = "fail"
    /\ initialized' = FlagAfterFailure
    /\ inCtor' = FALSE
    /\ Goto(t, "out")
    /\ UNCHANGED <<ilist, ilist_len, origlibc, origlibc_chown, world, locals, calls>>

\* Lines 228 and 229: spin until the flag is not 1.
Loop(t) ==
    /\ pc[t] = "loop"
    /\ initialized # 1
    /\ Goto(t, "verdict")
    /\ UNCHANGED <<library, world, locals, inCtor, calls>>

\* Line 231 reads the flag once more: return 1, or 0.  The constructor has
\* nothing to do after either.
Verdict(t) ==
    /\ pc[t] = "verdict"
    /\ Goto(t, IF initialized = 0 \/ inCtor THEN "out" ELSE "search")
    /\ inCtor' = FALSE
    /\ UNCHANGED <<library, world, locals, calls>>

----------------------------------------------------------------------------
(* The rest of a wrapper, as far as it uses what was initialized.          *)

\* bsearch(&search_target, ilist, ilist_len, ...)
Search(t) ==
    /\ pc[t] = "search"
    /\ Goto(t, "libc")
    /\ UNCHANGED <<library, world, locals, inCtor, calls>>

\* the call through origlibc_*
CallLibc(t) ==
    /\ pc[t] = "libc"
    /\ Goto(t, "out")
    /\ UNCHANGED <<library, world, locals, inCtor, calls>>

\* Somebody writes, truncates or unlinks the file.
FileChange ==
    /\ changes < FileChanges
    /\ changes' = changes + 1
    /\ file' \in ({"missing", "bad"} \cup Lists) \ {file}
    /\ UNCHANGED <<library, leaked, locals, inCtor, pc, calls>>

Step(t) ==
    \/ Claim(t) \/ Dlsym(t) \/ DlsymChown(t) \/ TestIlist(t)
    \/ LoadSucceeds(t) \/ LoadFails(t)
    \/ CommitLength(t) \/ CommitList(t) \/ Publish(t) \/ Fail(t)
    \/ Loop(t) \/ Verdict(t) \/ Search(t) \/ CallLibc(t)

Next == (\E t \in Threads : Enter(t) \/ Step(t)) \/ FileChange

Spec == Init /\ [][Next]_vars

\* Every runnable thread is scheduled; a thread in the loop yields and is
\* scheduled again.  Nothing obliges a program to call a wrapper.
Fairness == \A t \in Threads : WF_vars(Step(t))
FairSpec == Spec /\ Fairness

----------------------------------------------------------------------------
(* Properties.                                                             *)

\* Who reads the list or the flag finds a whole list (cowdancer.c:125-134): with
\* a list there is the length of one that has been loaded, which is its own as
\* long as all who initialize load the same ("Pray that same result will result
\* in multiple invocations"), and the flag says "done" only of a list and of
\* pointers that are there.
PublishedWhole ==
    /\ ilist # NULL => /\ {ilist, ilist_len} \subseteq loaded
                       /\ (\E v \in Lists : loaded = {v}) => ilist_len = ilist
    /\ initialized = 2 => ilist # NULL /\ origlibc # NULL

\* No thread calls libc through a pointer that is not set.  The one exception
\* is chown where it has no versioned symbol, while a second thread that saw
\* the flag at 0 looks it up again (cowdancer.c:177-197).
PointersReady == \A t \in Threads : pc[t] = "libc" =>
    /\ origlibc # NULL
    /\ origlibc_chown = NULL => /\ ~Versioned
                               /\ \E u \in Threads : pc[u] = "dlsym_chown"

\* initialize_functions reports success, and lets the wrapper search the list
\* and call libc, only when the list has been loaded (cowdancer.c:154).
SuccessMeansLoaded == \A t \in Threads : pc[t] \in {"search", "libc"} => ilist # NULL

\* Every call of a wrapper comes back, with ENOMEM or without
\* (tests/015_test_ilistdelete.c: a missing list is handled, nothing hangs).
CallsReturn == \A t \in Threads : pc[t] # "out" ~> pc[t] = "out"

Initializing(t) == pc[t] \in {"claim", "dlsym", "dlsym_chown", "test", "load",
                              "commit", "fail"}
OneInitializer == Cardinality({t \in Threads : Initializing(t)}) <= 1

\* As long as no two threads run the initialization at once, every call comes
\* back: a thread that waits for another's initialization is released by its
\* failure as well as by its success.
SerialCallsReturn == []OneInitializer => CallsReturn
=============================================================================
