--------------------------- MODULE MCIlistSearch ---------------------------
(***************************************************************************)
(* Instances of IlistSearch for TLC, with ints of 3 bits and the merge     *)
(* sort that glibc's qsort is.                                             *)
(***************************************************************************)
EXTENDS IlistSearch, TLC

MCEntry == [dev : Devs, inode : InodeNumbers]

RECURSIVE Merge(_, _)
Merge(a, b) ==
    IF a = <<>> THEN b
    ELSE IF b = <<>> THEN a
    ELSE IF compare_ilist(Head(a), Head(b)) <= 0
         THEN <<Head(a)>> \o Merge(Tail(a), b)
         ELSE <<Head(b)>> \o Merge(a, Tail(b))

RECURSIVE Msort(_)
Msort(a) ==
    IF Len(a) <= 1 THEN a
    ELSE LET n == Len(a) \div 2
         IN  Merge(Msort(SubSeq(a, 1, n)), Msort(SubSeq(a, n + 1, Len(a))))
=============================================================================
