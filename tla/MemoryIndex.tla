---------------------------- MODULE MemoryIndex ----------------------------
(***************************************************************************)
(* What the vector index promises about a Memory, whatever reconciles it:  *)
(* a row appears only for a Memory that was admitted, with the body it was *)
(* admitted with, and its deletion is final.  The deletion comes only      *)
(* after the Memory ended.                                                 *)
(***************************************************************************)
CONSTANTS Memory, NoFact

VARIABLES
    body,    \* the body each Memory was admitted with, NoFact: not admitted
    ended,   \* the Memories that were rolled back, superseded or erased
    indexed, \* the body the index holds, NoFact: none
    deleted  \* the Memories whose deletion reached the index

indexVars == <<body, ended, indexed, deleted>>

Init ==
    /\ body = [m \in Memory |-> NoFact] /\ indexed = [m \in Memory |-> NoFact]
    /\ ended = {} /\ deleted = {}

\* A transaction of the owner may admit one Memory and end another.
Own ==
    /\ \A m \in Memory : body[m] # NoFact => body'[m] = body[m]
    /\ ended \subseteq ended'
    /\ UNCHANGED <<indexed, deleted>>

Index(m) ==
    /\ m \notin deleted
    /\ indexed' = [indexed EXCEPT ![m] = body[m]]
    /\ UNCHANGED <<body, ended, deleted>>

Delete(m) ==
    /\ m \in ended
    /\ indexed' = [indexed EXCEPT ![m] = NoFact] /\ deleted' = deleted \union {m}
    /\ UNCHANGED <<body, ended>>

Next == Own \/ \E m \in Memory : Index(m) \/ Delete(m)

Spec == Init /\ [][Next]_indexVars
=============================================================================
