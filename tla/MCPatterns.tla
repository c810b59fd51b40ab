----------------------------- MODULE MCPatterns -----------------------------
(* Pattern files for TLC: an approved document that expires, and one of    *)
(* another id that was signed and then rejected.                           *)
EXTENDS Patterns, TLC

CONSTANTS t1, t2

Approved == [whole |-> TRUE, id |-> "p", signed |-> TRUE, approved |-> TRUE, low |-> TRUE,
             safe |-> TRUE, expires |-> "dated"]
Rejected == [Approved EXCEPT !.id = "q", !.approved = FALSE]

SomeDocs == {Approved, Rejected}
ThreadSymmetry == Permutations(Threads)
=============================================================================
