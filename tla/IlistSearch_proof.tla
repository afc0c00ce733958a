------------------------- MODULE IlistSearch_proof -------------------------
(***************************************************************************)
(* Proofs about IlistSearch for lists of any length, any width of int and  *)
(* any starting capacity.                                                  *)
(***************************************************************************)
EXTENDS IlistSearch, SequenceTheorems, TLAPS

----------------------------------------------------------------------------
(* compare_ilist is an order as long as differences fit an int.            *)

\* A difference that fits is not changed by the conversion.
LEMMA ToIntFits ==
  ASSUME NEW x \in Int, Fits(x)
  PROVE  ToInt(x) = x
  <1>1. x + Half \in 0..(2 * Half - 1)
    BY NumberAssumption DEF Fits
  <1>2. (x + Half) % (2 * Half) = x + Half
    BY <1>1, NumberAssumption
  <1> QED BY <1>2, NumberAssumption DEF ToInt

\* Entries are pairs of integers.
LEMMA EntryParts ==
  ASSUME NEW a \in Entry
  PROVE  a.inode \in Int /\ a.dev \in Int /\ a = [dev |-> a.dev, inode |-> a.inode]
  <1>1. a \in [dev : Devs, inode : InodeNumbers]
    BY EntryAssumption
  <1>2. a.inode \in InodeNumbers /\ a.dev \in Devs
    BY <1>1
  <1>3. a = [dev |-> a.dev, inode |-> a.inode]
    BY <1>1
  <1> QED BY <1>2, <1>3, NumberAssumption

\* What compare_ilist computes when nothing is cut off.
LEMMA CompareExact ==
  ASSUME Consistent(Entry), NEW a \in Entry, NEW b \in Entry
  PROVE  compare_ilist(a, b) = IF a.inode # b.inode THEN a.inode - b.inode
                                                    ELSE a.dev - b.dev
  <1>1. /\ a.inode \in Int /\ a.dev \in Int
        /\ b.inode \in Int /\ b.dev \in Int
    BY EntryParts
  <1>2. Fits(a.inode - b.inode) /\ Fits(a.dev - b.dev)
    BY DEF Consistent
  <1>3. ToInt(a.inode - b.inode) = a.inode - b.inode
    BY <1>1, <1>2, ToIntFits
  <1>4. ToInt(a.dev - b.dev) = a.dev - b.dev
    BY <1>1, <1>2, ToIntFits
  <1> QED BY <1>1, <1>3, <1>4 DEF compare_ilist

\* It is 0 for equal entries only, and swapping its arguments swaps its sign.
LEMMA CompareOrder ==
  ASSUME Consistent(Entry), NEW a \in Entry, NEW b \in Entry
  PROVE  /\ compare_ilist(a, b) \in Int
         /\ compare_ilist(a, b) = 0 <=> a = b
         /\ compare_ilist(a, b) < 0 <=> compare_ilist(b, a) > 0
  <1>1. /\ a.inode \in Int /\ a.dev \in Int /\ a = [dev |-> a.dev, inode |-> a.inode]
        /\ b.inode \in Int /\ b.dev \in Int /\ b = [dev |-> b.dev, inode |-> b.inode]
    BY EntryParts
  <1> QED BY <1>1, CompareExact

----------------------------------------------------------------------------
(* Type correctness, and room for the next entry.                          *)

\* Arrays and sequences are the same things.
LEMMA ArrayIsSeq ==
  ASSUME NEW n \in Nat, NEW a \in Arrays(n)
  PROVE  /\ a \in Seq(Entry) /\ Len(a) = n /\ DOMAIN a = 1..n
         /\ a \in Arrays(Len(a))
         /\ \A k \in 1..n : a[k] \in Entry
  <1>1. a \in Seq(Entry)
    BY SeqDef DEF Arrays
  <1>2. Len(a) = n
    BY <1>1, LenProperties DEF Arrays
  <1> QED BY <1>1, <1>2 DEF Arrays

\* fscanf adds one entry at the end.
LEMMA AppendArray ==
  ASSUME NEW n \in Nat, NEW a \in Arrays(n), NEW e \in Entry
  PROVE  /\ Append(a, e) \in Arrays(n + 1)
         /\ Len(Append(a, e)) = n + 1
         /\ Elements(Append(a, e)) = Elements(a) \cup {e}
  <1>1. a \in Seq(Entry) /\ Len(a) = n /\ DOMAIN a = 1..n
    BY ArrayIsSeq
  <1>2. /\ Append(a, e) \in Seq(Entry) /\ Len(Append(a, e)) = n + 1
        /\ \A k \in 1..n : Append(a, e)[k] = a[k]
        /\ Append(a, e)[n + 1] = e
    BY <1>1, AppendProperties
  <1>3. DOMAIN Append(a, e) = 1..(n + 1) /\ Append(a, e) \in [1..(n + 1) -> Entry]
    BY <1>2, LenProperties
  <1>4. Elements(Append(a, e)) = Elements(a) \cup {e}
    BY <1>1, <1>2, <1>3 DEF Elements
  <1> QED BY <1>2, <1>3, <1>4 DEF Arrays

\* qsort keeps the length and the entries.
LEMMA SortedArray ==
  ASSUME NEW n \in 0..MaxEntries, NEW a \in Arrays(n)
  PROVE  /\ Qsort(a) \in Arrays(n) /\ Len(Qsort(a)) = n
         /\ Elements(Qsort(a)) = Elements(a)
  <1>1. n \in Nat
    BY NumberAssumption
  <1>2. Qsort(a) \in Arrays(n) /\ Elements(Qsort(a)) = Elements(a)
    BY QsortContract
  <1> QED BY <1>1, <1>2, ArrayIsSeq

\* The array has its type, the bounds of the search lie inside it, the array
\* holds what find printed, and there is room for one more.
ListInv ==
    /\ TypeOK
    /\ Elements(ilist) = listed
    /\ RoomForNext

\* The empty array.
LEMMA InitList == Init => ListInv
  <1> SUFFICES ASSUME Init PROVE ListInv
    OBVIOUS
  <1>1. ilist \in Arrays(0) /\ 0 \in 0..MaxEntries
    BY NumberAssumption DEF Init, Arrays
  <1>2. Len(ilist) = 0 /\ Elements(ilist) = {}
    BY <1>1, ArrayIsSeq DEF Elements
  <1>3. InitialCapacity \in Nat /\ 0 < InitialCapacity
    BY NumberAssumption
  <1>4. l \in 0..Len(ilist) /\ u \in l..Len(ilist)
    BY <1>2 DEF Init
  <1>5. \E n \in 0..MaxEntries : ilist \in Arrays(n)
    BY <1>1
  <1>6. TypeOK
    BY <1>3, <1>4, <1>5 DEF Init, TypeOK
  <1>7. RoomForNext
    BY <1>2, <1>3 DEF Init, RoomForNext
  <1> QED BY <1>2, <1>6, <1>7 DEF Init, ListInv

\* A search leaves the array alone.
LEMMA SearchFrame ==
  ASSUME ListInv, UNCHANGED <<ilist, capacity, listed>>,
         stage' \in {"search", "answered"}, key' \in Entry, match' \in BOOLEAN,
         l' \in 0..Len(ilist), u' \in l'..Len(ilist)
  PROVE  ListInv'
  <1>1. \E n \in 0..MaxEntries : ilist' \in Arrays(n)
    BY DEF ListInv, TypeOK
  <1>2. l' \in 0..Len(ilist') /\ u' \in l'..Len(ilist')
    OBVIOUS
  <1>3. TypeOK'
    BY <1>1, <1>2 DEF ListInv, TypeOK
  <1> QED BY <1>3 DEF ListInv, RoomForNext

\* Every step keeps the types, the entries and the room.
LEMMA NextList ==
  ASSUME ListInv, [Next]_vars
  PROVE  ListInv'
  <1>0. PICK n \in 0..MaxEntries : ilist \in Arrays(n)
    BY DEF ListInv, TypeOK
  <1>1. n \in Nat /\ Len(ilist) = n /\ MaxEntries \in Nat
    BY <1>0, ArrayIsSeq, NumberAssumption
  <1>2. ASSUME NEW e \in Entry, ReadEntry(e) PROVE ListInv'
    <2>1. n + 1 \in 0..MaxEntries /\ stage = "read" /\ stage' = "read"
      BY <1>1, <1>2 DEF ReadEntry
    <2>2. /\ ilist' \in Arrays(n + 1) /\ Len(ilist') = n + 1
          /\ Elements(ilist') = Elements(ilist) \cup {e}
      BY <1>0, <1>1, <1>2, AppendArray DEF ReadEntry
    <2>3. capacity' \in Nat /\ n + 1 < capacity'
      BY <1>1, <1>2, <2>1 DEF ReadEntry, MustGrow, ListInv, RoomForNext, TypeOK
    <2>4. l' \in 0..Len(ilist') /\ u' \in l'..Len(ilist')
      BY <1>1, <1>2, <2>2 DEF ReadEntry, searchVars, ListInv, TypeOK
    <2>5. \E k \in 0..MaxEntries : ilist' \in Arrays(k)
      BY <2>1, <2>2
    <2>6. TypeOK'
      BY <1>2, <2>1, <2>3, <2>4, <2>5 DEF ReadEntry, searchVars, ListInv, TypeOK
    <2>7. RoomForNext' /\ (Elements(ilist) = listed)'
      BY <1>2, <2>2, <2>3 DEF ReadEntry, RoomForNext, ListInv
    <2> QED BY <2>6, <2>7 DEF ListInv
  <1>3. CASE CreateFails
    BY <1>3 DEF CreateFails, searchVars, ListInv, TypeOK, RoomForNext
  <1>4. CASE Sort
    <2>1. /\ ilist' \in Arrays(n) /\ Len(ilist') = Len(ilist)
          /\ Elements(ilist') = Elements(ilist)
      BY <1>0, <1>1, <1>4, SortedArray DEF Sort
    <2>2. TypeOK'
      BY <1>0, <1>4, <2>1 DEF Sort, searchVars, ListInv, TypeOK
    <2> QED BY <1>4, <2>1, <2>2 DEF Sort, ListInv, RoomForNext
  <1>5. ASSUME NEW e \in Entry, Search(e) PROVE ListInv'
    <2>1. l' \in 0..Len(ilist) /\ u' \in l'..Len(ilist)
      BY <1>1, <1>5 DEF Search
    <2> QED BY <1>5, <2>1, SearchFrame DEF Search
  <1>6. CASE Probe
    <2> DEFINE idx == (l + u) \div 2
    <2>1. l \in Nat /\ u \in Nat /\ l < u /\ u <= n
      BY <1>1, <1>6 DEF Probe, ListInv, TypeOK
    <2>2. idx \in Nat /\ l <= idx /\ idx < u
      BY <2>1
    <2>m. match \in BOOLEAN
      BY DEF ListInv, TypeOK
    <2>d. \/ u' = idx /\ l' = l /\ match' = match
          \/ l' = idx + 1 /\ u' = u /\ match' = match
          \/ match' = TRUE /\ l' = l /\ u' = u
      BY <1>6, ZenonT(30) DEF Probe, UpperAfter, LowerAfter
    <2> HIDE DEF idx
    <2>n. l' \in 0..n /\ u' \in l'..n
      BY <1>1, <2>1, <2>2, <2>d
    <2>b. match' \in BOOLEAN
      BY <2>m, <2>d, Zenon
    <2>3. l' \in 0..n /\ u' \in l'..n /\ match' \in BOOLEAN
      BY <2>n, <2>b
    <2>4. l' \in 0..Len(ilist) /\ u' \in l'..Len(ilist)
      BY <1>1, <2>3
    <2>5. stage' \in {"search", "answered"} /\ UNCHANGED <<ilist, capacity, listed, key>>
      BY <1>6 DEF Probe
    <2> QED BY <2>3, <2>4, <2>5, SearchFrame DEF ListInv, TypeOK
  <1>7. CASE NoMatch
    BY <1>7 DEF NoMatch, ListInv, TypeOK, RoomForNext
  <1>8. CASE UNCHANGED vars
    BY <1>8 DEF vars, ListInv, TypeOK, RoomForNext
  <1> QED BY <1>2, <1>3, <1>4, <1>5, <1>6, <1>7, <1>8 DEF Next

\* The list invariant is an invariant.
LEMMA ListCorrect == Spec => []ListInv
  <1> QED BY InitList, NextList, PTL DEF Spec

\* The state of ilistcreate and of bsearch keeps its type (ilistcreate.c:50-77,
\* cowdancer.c:186): the bounds of the search stay inside the array.
THEOREM TypeOKCorrect == Spec => []TypeOK
  <1>1. ListInv => TypeOK
    BY DEF ListInv
  <1> QED BY <1>1, ListCorrect, PTL

\* However many lines find prints, and whatever the first capacity is, fscanf
\* never writes behind the array (ilistcreate.c:50-69).
THEOREM RoomForNextCorrect == Spec => []RoomForNext
  <1>1. ListInv => RoomForNext
    BY DEF ListInv
  <1> QED BY <1>1, ListCorrect, PTL

----------------------------------------------------------------------------
(* The binary search finds what is listed.                                 *)

\* After the sort the array is in order; while the search runs, every place
\* that holds the key is between its bounds.
SearchInv ==
    /\ stage \in {"sorted", "search", "answered"} => Ordered(ilist)
    /\ stage = "search" =>
          /\ ~match
          /\ \A k \in 1..Len(ilist) : ilist[k] = key => l < k /\ k <= u
    /\ FoundIffListed

\* In an ordered array, an entry that compares with the one at m as the key
\* does not is on the key's side of m.
LEMMA SideOfProbe ==
  ASSUME Consistent(Entry), NEW n \in Nat, NEW a \in Arrays(n), Ordered(a),
         NEW m \in 1..n, NEW k \in 1..n
  PROVE  /\ compare_ilist(a[k], a[m]) < 0 => k < m
         /\ compare_ilist(a[k], a[m]) > 0 => m < k
  <1>1. a[k] \in Entry /\ a[m] \in Entry /\ DOMAIN a = 1..n
    BY ArrayIsSeq
  <1>2. /\ compare_ilist(a[k], a[m]) \in Int
        /\ compare_ilist(a[m], a[k]) \in Int
        /\ compare_ilist(a[k], a[m]) < 0 <=> compare_ilist(a[m], a[k]) > 0
    BY <1>1, CompareOrder
  <1>3. k = m => compare_ilist(a[k], a[m]) = 0
    BY <1>1, CompareOrder
  <1>4. /\ k < m => compare_ilist(a[k], a[m]) <= 0
        /\ m < k => compare_ilist(a[m], a[k]) <= 0
    BY <1>1 DEF Ordered
  <1> QED BY <1>2, <1>3, <1>4

\* Nothing has been searched yet.
LEMMA InitSearch == Init => SearchInv
  BY DEF Init, SearchInv, FoundIffListed

\* One probe keeps the key between the bounds, or has found it.
LEMMA ProbeSearch ==
  ASSUME Consistent(Entry), ListInv, SearchInv, Probe
  PROVE  SearchInv'
  <1>0. PICK n \in 0..MaxEntries : ilist \in Arrays(n)
    BY DEF ListInv, TypeOK
  <1>1. /\ n \in Nat /\ Len(ilist) = n /\ DOMAIN ilist = 1..n
        /\ \A k \in 1..n : ilist[k] \in Entry
    BY <1>0, ArrayIsSeq, NumberAssumption
  <1> DEFINE idx == (l + u) \div 2
             c == compare_ilist(key, ilist[idx + 1])
  <1>2. l \in Nat /\ u \in Nat /\ l < u /\ u <= n
    BY <1>1 DEF Probe, ListInv, TypeOK
  <1>3. idx \in Nat /\ l <= idx /\ idx < u /\ idx + 1 \in 1..n
    BY <1>1, <1>2
  <1>4. /\ stage = "search" /\ UNCHANGED <<ilist, listed, key>>
        /\ \/ c < 0 /\ u' = idx /\ UNCHANGED <<l, match, stage>>
           \/ c > 0 /\ l' = idx + 1 /\ UNCHANGED <<u, match, stage>>
           \/ c = 0 /\ match' = TRUE /\ stage' = "answered"
    BY ZenonT(30) DEF Probe, UpperAfter, LowerAfter
  <1>5. key \in Entry /\ c \in Int /\ (c = 0 <=> key = ilist[idx + 1])
    BY <1>1, <1>3, CompareOrder DEF ListInv, TypeOK
  <1>6. Ordered(ilist) /\ ~match
        /\ \A k \in 1..n : ilist[k] = key => l < k /\ k <= u
    BY <1>1, <1>4 DEF SearchInv
  <1>7. \A k \in 1..n : ilist[k] = key => /\ c < 0 => k < idx + 1
                                          /\ c > 0 => idx + 1 < k
    BY <1>0, <1>1, <1>3, <1>6, SideOfProbe
  <1>8. key = ilist[idx + 1] => key \in listed
    BY <1>1, <1>3 DEF ListInv, Elements
  <1> HIDE DEF idx, c
  <1>9. CASE c < 0 /\ u' = idx /\ UNCHANGED <<l, match, stage>>
    <2>1. \A k \in 1..n : ilist[k] = key => l < k /\ k <= u'
      BY <1>3, <1>6, <1>7, <1>9
    <2> QED BY <1>1, <1>4, <1>6, <1>9, <2>1 DEF SearchInv, FoundIffListed
  <1>10. CASE c > 0 /\ l' = idx + 1 /\ UNCHANGED <<u, match, stage>>
    <2>1. \A k \in 1..n : ilist[k] = key => l' < k /\ k <= u
      BY <1>3, <1>6, <1>7, <1>10
    <2> QED BY <1>1, <1>4, <1>6, <1>10, <2>1 DEF SearchInv, FoundIffListed
  <1>11. CASE c = 0 /\ match' = TRUE /\ stage' = "answered"
    BY <1>4, <1>5, <1>6, <1>8, <1>11 DEF SearchInv, FoundIffListed
  <1> QED BY <1>4, <1>9, <1>10, <1>11

\* Every step keeps the search invariant, given the list invariant.
LEMMA NextSearch ==
  ASSUME Consistent(Entry), ListInv, SearchInv, [Next]_vars
  PROVE  SearchInv'
  <1>0. PICK n \in 0..MaxEntries : ilist \in Arrays(n)
    BY DEF ListInv, TypeOK
  <1>1. /\ n \in Nat /\ Len(ilist) = n /\ DOMAIN ilist = 1..n
        /\ \A k \in 1..n : ilist[k] \in Entry
    BY <1>0, ArrayIsSeq, NumberAssumption
  <1>2. ASSUME NEW e \in Entry, ReadEntry(e) PROVE SearchInv'
    BY <1>2 DEF ReadEntry, SearchInv, FoundIffListed
  <1>3. CASE CreateFails
    BY <1>3 DEF CreateFails, SearchInv, FoundIffListed
  <1>4. CASE Sort
    <2>1. Consistent(Elements(ilist))
      BY <1>1 DEF Consistent, Elements
    <2>2. Ordered(Qsort(ilist))
      BY <1>0, <2>1, QsortContract
    <2> QED BY <1>4, <2>2 DEF Sort, SearchInv, FoundIffListed
  <1>5. ASSUME NEW e \in Entry, Search(e) PROVE SearchInv'
    <2>1. \A k \in 1..n : 0 < k /\ k <= n
      BY <1>1
    <2> QED BY <1>1, <1>5, <2>1 DEF Search, SearchInv, FoundIffListed
  <1>6. CASE Probe
    BY <1>6, ProbeSearch
  <1>7. CASE NoMatch
    <2>1. l \in Int /\ u \in Int /\ u <= l
      BY <1>1, <1>7 DEF NoMatch, ListInv, TypeOK
    <2>2. \A k \in 1..n : ilist[k] # key
      BY <1>1, <1>7, <2>1 DEF NoMatch, SearchInv
    <2>3. key \notin listed
      BY <1>1, <2>2 DEF ListInv, Elements
    <2> QED BY <1>7, <2>3 DEF NoMatch, SearchInv, FoundIffListed
  <1>8. CASE UNCHANGED vars
    BY <1>8 DEF vars, SearchInv, FoundIffListed
  <1> QED BY <1>2, <1>3, <1>4, <1>5, <1>6, <1>7, <1>8 DEF Next

\* As long as no difference of inode or device numbers overflows an int,
\* the library protects an inode exactly when find listed it
\* (cow-shell.1:43-46), for any list; the runs show that it is false without.
THEOREM FoundIffListedCorrect ==
  ASSUME Consistent(Entry)
  PROVE  Spec => []FoundIffListed
  <1>1. Init => SearchInv
    BY InitSearch
  <1>2. ListInv /\ SearchInv /\ [Next]_vars => SearchInv'
    BY NextSearch
  <1>3. SearchInv => FoundIffListed
    BY DEF SearchInv
  <1> QED BY <1>1, <1>2, <1>3, ListCorrect, PTL DEF Spec

----------------------------------------------------------------------------
(* The array is a set.                                                      *)

\* Each step of the array is a step of the set, or changes nothing of it: a
\* probe decides nothing before the last.
LEMMA StepOfSet ==
  ASSUME Consistent(Entry), ListInv, SearchInv, SearchInv', ListInv', [Next]_vars
  PROVE  [Protected!Next]_(Protected!vars)
  <1> USE DEF Protected!vars
  <1>0. match \in BOOLEAN /\ match' \in BOOLEAN
    BY DEF ListInv, TypeOK
  <1>1. ASSUME NEW e \in Entry, ReadEntry(e)
        PROVE  Protected!Fill(e)
    BY <1>1 DEF ReadEntry, searchVars, Protected!Fill, Phase
  <1>2. ASSUME NEW e \in Entry, Search(e)
        PROVE  Protected!Ask(e)
    BY <1>2 DEF Search, Protected!Ask, Phase
  <1>3. CASE CreateFails
    BY <1>3 DEF CreateFails, searchVars, Protected!Close, Protected!Next, Phase
  <1>4. CASE Sort
    BY <1>4 DEF Sort, searchVars, Protected!Close, Protected!Next, Phase
  <1>5. ASSUME stage = "search", stage' = "answered", UNCHANGED <<listed, key>>
        PROVE  Protected!Next
    <2>1. match' = (key' \in listed')
      BY <1>0, <1>5 DEF SearchInv, FoundIffListed
    <2> QED BY <2>1, <1>5 DEF Protected!Answer, Protected!Next, Phase
  <1>6. CASE Probe
    <2>1. CASE stage' = stage /\ UNCHANGED match
      BY <2>1, <1>6 DEF Probe, Phase
    <2>2. CASE stage' = "answered"
      BY <2>2, <1>5, <1>6 DEF Probe
    <2> QED BY <2>1, <2>2, <1>6 DEF Probe
  <1>7. CASE NoMatch
    BY <1>5, <1>7 DEF NoMatch
  <1>8. CASE UNCHANGED vars
    BY <1>8 DEF vars, Phase
  <1> QED BY <1>1, <1>2, <1>3, <1>4, <1>6, <1>7, <1>8 DEF Next, Protected!Next

\* When no difference overflows an int, growing array, qsort and bsearch
\* together implement the set of inodes that cow-shell.1:43-46 speaks of, for
\* any list.
THEOREM IsASetCorrect ==
  ASSUME Consistent(Entry)
  PROVE  Spec => IsASet
  <1>1. Init => Protected!Init
    BY DEF Init, Protected!Init, Phase
  <1>2. Init => SearchInv
    BY InitSearch
  <1>3. ListInv /\ SearchInv /\ [Next]_vars => SearchInv'
    BY NextSearch
  <1>4. ListInv /\ SearchInv /\ SearchInv' /\ ListInv' /\ [Next]_vars
           => [Protected!Next]_(Protected!vars)
    BY StepOfSet
  <1> QED BY <1>1, <1>2, <1>3, <1>4, ListCorrect, PTL DEF Spec, IsASet, Protected!Spec
=============================================================================
