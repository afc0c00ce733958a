-------------------------- MODULE ProtectedInodes --------------------------
(***************************************************************************)
(* What the list of protected inodes is for (cow-shell.1, FILES): a set of   *)
(* entries that is filled once, and asked whether it has an entry.          *)
(***************************************************************************)
CONSTANT Entry

VARIABLES phase, listed, key, found

vars == <<phase, listed, key, found>>

Init == phase = "filling" /\ listed = {} /\ key \in Entry /\ found = FALSE

Fill(e) ==
    /\ phase = "filling"
    /\ listed' = listed \cup {e}
    /\ UNCHANGED <<phase, key, found>>

\* The list is complete, or there will be none.
Close ==
    /\ phase = "filling"
    /\ phase' \in {"ready", "failed"}
    /\ UNCHANGED <<listed, key, found>>

Ask(e) ==
    /\ phase \in {"ready", "answered"}
    /\ phase' = "asked" /\ key' = e /\ found' = FALSE
    /\ UNCHANGED listed

Answer ==
    /\ phase = "asked"
    /\ phase' = "answered" /\ found' = (key \in listed)
    /\ UNCHANGED <<listed, key>>

Next == Close \/ Answer \/ \E e \in Entry : Fill(e) \/ Ask(e)

Spec == Init /\ [][Next]_vars
=============================================================================
