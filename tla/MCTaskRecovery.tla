--------------------------- MODULE MCTaskRecovery ---------------------------
(***************************************************************************)
(* Instances of TaskRecoveryRuntime for TLC.                                *)
(***************************************************************************)
EXTENDS TaskRecoveryRuntime, TLC

CONSTANTS c1, c2, e1, good, bad, h1, h2

\* One child with one side effect.
MCSoloEffect == [c \in Children |-> e1]
MCSoloRequest == [c \in Children |-> h1]

\* Two children that pass different requests under one side-effect ID.
MCPairRequest == [c \in Children |-> IF c = c1 THEN h1 ELSE h2]

MCIndependent == [c \in Children |-> {}]
MCChain == [c \in Children |-> IF c = c1 THEN {} ELSE {c1}]

MCStatusOfValue == [v \in Values |-> IF v = good THEN "COMPLETED" ELSE "FAILED"]

Symmetry == Permutations(Runtimes) \cup Permutations(Requests)
=============================================================================
