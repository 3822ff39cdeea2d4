----------------------------- MODULE RunContract ------------------------------
(***************************************************************************)
(* What the platform promises of a run that is executed by attempts, with  *)
(* workers, leases, messages and crashes left out: attempts succeed one    *)
(* another, a new one opens only when the last one is lost, and at most    *)
(* one attempt ever wins.                                                  *)
(***************************************************************************)
EXTENDS Naturals

CONSTANT Attempt

VARIABLES
    fate,     \* "unborn", "live", "won" or "lost", per attempt
    answers   \* answers published for the run

vars == <<fate, answers>>

TypeOK ==
    /\ fate \in [Attempt -> {"unborn", "live", "won", "lost"}]
    /\ answers \in Nat

Init ==
    /\ fate = [a \in Attempt |-> "unborn"]
    /\ answers = 0

Open(a) ==
    /\ fate[a] = "unborn"
    /\ \A b \in Attempt : fate[b] \notin {"live", "won"}
    /\ fate' = [fate EXCEPT ![a] = "live"]
    /\ UNCHANGED answers

Win(a) ==
    /\ fate[a] = "live"
    /\ fate' = [fate EXCEPT ![a] = "won"]
    /\ answers' = answers + 1

Lose(a) ==
    /\ fate[a] = "live"
    /\ fate' = [fate EXCEPT ![a] = "lost"]
    /\ UNCHANGED answers

Next == \E a \in Attempt : Open(a) \/ Win(a) \/ Lose(a)

Spec == Init /\ [][Next]_vars
===============================================================================
