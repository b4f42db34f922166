------------------------------ MODULE MCWork ------------------------------
(* Small instances of the Work executor for TLC. *)
EXTENDS WorkRuntime, TLC

\* Items and Attempts are interchangeable.
WorkSym == Permutations(Item) \union Permutations(Attempt)

\* Without fairness the Runs are interchangeable too.
WorkRunSym == WorkSym \union Permutations(Run)
=============================================================================
