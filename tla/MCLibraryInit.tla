--------------------------- MODULE MCLibraryInit ---------------------------
(* Instances of LibraryInit for TLC: the program's first thread and others. *)
EXTENDS LibraryInit
CONSTANTS t1, t2, t3, list1, list2
=============================================================================
