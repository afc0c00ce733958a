--------------------------- MODULE MCCopyOnWrite ---------------------------
(***************************************************************************)
(* Instances of CopyOnWrite for TLC: a tree with a file that has two names *)
(* and a symbolic link to one of them, all hard-linked with the other tree,*)
(* and a name that is unused.                                              *)
(***************************************************************************)
EXTENDS CopyOnWrite, TLC

CONSTANTS p1, p2, i1, i2, f1, f2, t1, t2

MCPaths == {"file", "twin", "link", "new"}
MCLinkTo == [n \in {"link"} |-> "file"]
MCFirstInode == [n \in MCPaths |-> CASE n \in {"file", "twin"} -> i1
                                      [] n = "link" -> i2 [] n = "new" -> None]

Mode(m) == [fn |-> "fopen", how |-> m]
Open(flags) == [fn |-> "open", how |-> flags]
Plain(f) == [fn |-> f, how |-> <<>>]

\* One request of each behaviour of the wrappers: opening for writing, through a
\* link and with a new file where there is none; changing attributes, of a link
\* itself and by a descriptor.
CoreRequests == {Open(<<"O_RDWR", "O_CREAT">>), Plain("lchown"), Plain("fchmod")}

\* fopen(name, "r+") opens for update, and is not taken for a write.
UpdateRequests == {Mode(<<"r", "+">>), Mode(<<"w">>)}

Symmetry == Permutations({f1, f2}) \cup Permutations({t1, t2})
=============================================================================
