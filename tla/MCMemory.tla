------------------------------ MODULE MCMemory ------------------------------
(* Small instances of the Memory projection for TLC. *)
EXTENDS MemoryProjection, TLC

CONSTANTS f1, f2, a1, a2, a3

\* a1 and a2 carry one fact, a2 with the stricter governance; a3 another fact.
MCSym == Permutations(Memory)

MCAdmissionFact == [a \in Admission |-> IF a = a3 THEN f2 ELSE f1]
MCAdmissionRisk == [a \in Admission |-> IF a = a2 THEN "high" ELSE "low"]
=============================================================================
