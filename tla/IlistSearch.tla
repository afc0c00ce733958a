---------------------------- MODULE IlistSearch ----------------------------
(***************************************************************************)
(* The list of protected inodes: ilistcreate reads it from find into a     *)
(* growing array and sorts it with qsort (ilistcreate.c); the library      *)
(* looks inodes up in it with bsearch (cowdancer.c).  Both use             *)
(* compare_ilist, which subtracts 64-bit inode numbers into an int.        *)
(* Arithmetic keeps its width: an int holds -Half .. Half - 1.             *)
(***************************************************************************)
EXTENDS Integers, Sequences

CONSTANTS
    Half,             \* 2^31 in the program
    Devs, InodeNumbers,
    Entry,            \* struct ilist_struct
    InitialCapacity,  \* 2000 in the program
    MaxEntries,       \* bound: how many lines find prints
    Qsort(_)          \* libc's qsort with compare_ilist

ASSUME NumberAssumption == /\ Half \in Nat \ {0}
                           /\ Devs \subseteq Nat /\ InodeNumbers \subseteq Nat
                           /\ InitialCapacity \in Nat \ {0}
                           /\ MaxEntries \in Nat
ASSUME EntryAssumption == Entry = [dev : Devs, inode : InodeNumbers]

Arrays(n) == [1..n -> Entry]
Elements(a) == {a[k] : k \in DOMAIN a}

\* Conversion of a difference to int.
ToInt(x) == ((x + Half) % (2 * Half)) - Half

----------------------------------------------------------------------------
(* Seeded faults: what the definitions below would be with a plausible bug. *)

\* devices are not compared
ComparesInodesOnly(a, b) == ToInt(a.inode - b.inode)
\* the array grows one entry too late
GrowsLate(i, capacity) == i > capacity
\* a probe that compares greater is skipped together with its neighbour
SkipsTwo(idx) == idx + 2
\* a probe that compares less takes its left neighbour with it
SkipsBelow(idx) == IF idx = 0 THEN 0 ELSE idx - 1

----------------------------------------------------------------------------
compare_ilist(a, b) == IF ToInt(a.inode - b.inode) # 0
                       THEN ToInt(a.inode - b.inode)
                       ELSE ToInt(a.dev - b.dev)

\* Every difference that compare_ilist may be asked for fits an int.
Fits(x) == -Half <= x /\ x < Half
Consistent(S) == \A a, b \in S : Fits(a.inode - b.inode) /\ Fits(a.dev - b.dev)

Ordered(a) == \A j, k \in DOMAIN a : j < k => compare_ilist(a[j], a[k]) <= 0

\* What the C standard promises of qsort: it rearranges, and orders when the
\* comparison is consistent.
ASSUME QsortContract ==
    \A n \in 0..MaxEntries : \A a \in Arrays(n) :
        /\ Qsort(a) \in Arrays(n)
        /\ Elements(Qsort(a)) = Elements(a)
        /\ Consistent(Elements(a)) => Ordered(Qsort(a))

VARIABLES
    stage,            \* "read", "failed", "sorted", "search" or "answered"
    ilist, capacity,  \* the array and how many entries it has room for
    listed,           \* history: the entries find printed
    key, l, u,        \* bsearch: what is looked for, and its two bounds
    match

vars == <<stage, ilist, capacity, listed, key, l, u, match>>
searchVars == <<key, l, u, match>>

TypeOK ==
    /\ stage \in {"read", "failed", "sorted", "search", "answered"}
    /\ \E n \in 0..MaxEntries : ilist \in Arrays(n)
    /\ capacity \in Nat
    /\ listed \in SUBSET Entry
    /\ key \in Entry
    /\ l \in 0..Len(ilist) /\ u \in l..Len(ilist)
    /\ match \in BOOLEAN

Init ==
    /\ stage = "read"
    /\ ilist = <<>> /\ capacity = InitialCapacity
    /\ listed = {}
    /\ key \in Entry
    /\ l = 0 /\ u = 0 /\ match = FALSE

----------------------------------------------------------------------------
(* ilistcreate                                                             *)

MustGrow(i, room) == i >= room

\* fscanf gives one more pair; realloc doubles the array when it is full.
ReadEntry(e) ==
    /\ stage = "read" /\ Len(ilist) < MaxEntries
    /\ ilist' = Append(ilist, e)
    /\ capacity' = IF MustGrow(Len(ilist) + 1, capacity) THEN 2 * capacity ELSE capacity
    /\ listed' = listed \cup {e}
    /\ UNCHANGED <<stage, searchVars>>

\* calloc, realloc, popen fails, or pclose reports that find or stat failed.
CreateFails ==
    /\ stage = "read"
    /\ stage' = "failed"
    /\ UNCHANGED <<ilist, capacity, listed, searchVars>>

Sort ==
    /\ stage = "read"
    /\ ilist' = Qsort(ilist)
    /\ stage' = "sorted"
    /\ UNCHANGED <<capacity, listed, searchVars>>

----------------------------------------------------------------------------
(* bsearch(&search_target, ilist, ilist_len, ...), as glibc does it        *)

Search(e) ==
    /\ stage \in {"sorted", "answered"}
    /\ key' = e
    /\ l' = 0 /\ u' = Len(ilist) /\ match' = FALSE
    /\ stage' = "search"
    /\ UNCHANGED <<ilist, capacity, listed>>

UpperAfter(idx) == idx
LowerAfter(idx) == idx + 1

Probe ==
    /\ stage = "search" /\ l < u
    /\ LET idx == (l + u) \div 2
           c == compare_ilist(key, ilist[idx + 1])
       IN  \/ c < 0 /\ u' = UpperAfter(idx) /\ UNCHANGED <<l, match, stage>>
           \/ c > 0 /\ l' = LowerAfter(idx) /\ UNCHANGED <<u, match, stage>>
           \/ c = 0 /\ match' = TRUE /\ stage' = "answered" /\ UNCHANGED <<l, u>>
    /\ UNCHANGED <<ilist, capacity, listed, key>>

NoMatch ==
    /\ stage = "search" /\ l >= u
    /\ stage' = "answered"
    /\ UNCHANGED <<ilist, capacity, listed, key, l, u, match>>

Next == \/ \E e \in Entry : ReadEntry(e) \/ Search(e)
        \/ CreateFails \/ Sort \/ Probe \/ NoMatch

Spec == Init /\ [][Next]_vars

----------------------------------------------------------------------------
(* Properties.                                                             *)

\* The next fscanf result is stored inside the array (ilistcreate.c:50-69).
RoomForNext == stage = "read" => Len(ilist) < capacity

\* The library protects an inode exactly when find listed it (cow-shell.1:43-46).
FoundIffListed == stage = "answered" => (match <=> key \in listed)

\* Array, sorting and search together are the set of entries that find
\* printed: ProtectedInodes is implemented, step by step.
Phase == CASE stage = "read" -> "filling"
           [] stage = "sorted" -> "ready"
           [] stage = "search" -> "asked"
           [] OTHER -> stage

Protected == INSTANCE ProtectedInodes WITH phase <- Phase, found <- match

IsASet == Protected!Spec
=============================================================================
