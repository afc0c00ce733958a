------------------------------ MODULE QemuRun ------------------------------
(***************************************************************************)
(* What fork_qemu promises (qemubuilder.c, comment above the function): it  *)
(* runs qemu until the words of the exit signal have come from inside it,   *)
(* and answers a return code, or -1 on an error.                           *)
(*                                                                         *)
(* An answer that is no error is given only after the guest has said that   *)
(* it is done and after the machine has ended.  An error can be the answer  *)
(* at any time, and then the machine may still be on.  Nothing is promised  *)
(* about when the answer comes.                                            *)
(***************************************************************************)
EXTENDS Integers

CONSTANT Codes   \* the return codes

VARIABLES machine, said, answer

vars == <<machine, said, answer>>

Pending == -2
Failed == -1

Init == machine = "off" /\ said = FALSE /\ answer = Pending

PowerOn ==
    /\ machine = "off" /\ answer = Pending
    /\ machine' = "on"
    /\ UNCHANGED <<said, answer>>

Say ==
    /\ machine = "on"
    /\ said' = TRUE
    /\ UNCHANGED <<machine, answer>>

PowerOff ==
    /\ machine = "on"
    /\ machine' = "ended"
    /\ UNCHANGED <<said, answer>>

Answer(c) ==
    /\ answer = Pending
    /\ said /\ machine = "ended"
    /\ answer' = c
    /\ UNCHANGED <<machine, said>>

Fail ==
    /\ answer = Pending
    /\ answer' = Failed
    /\ UNCHANGED <<machine, said>>

Next == PowerOn \/ Say \/ PowerOff \/ Fail \/ \E c \in Codes : Answer(c)

Spec == Init /\ [][Next]_vars
=============================================================================
