--------------------------- MODULE MCToolReview ---------------------------
(* Small instances of the tool Review protocol for TLC. *)
EXTENDS ToolReview, TLC

\* Attempts, callers, Reviews and the other Items are interchangeable.
ToolReviewSym ==
    Permutations(Attempt) \union Permutations(Caller)
       \union Permutations(Review) \union Permutations(Item \ Review)
=============================================================================
