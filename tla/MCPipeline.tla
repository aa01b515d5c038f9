------------------------------ MODULE MCPipeline ------------------------------
(* Small instances of MediaPipeline for TLC. *)
EXTENDS DocumentedClaims, TLC

CONSTANTS j1, j2, v1, v2, w1, w2, h1

OneVideoEach == [j \in Job |-> IF j = j1 THEN v1 ELSE v2]
OneVideo == [j \in Job |-> v1]
OneHost == [w \in Worker |-> h1]

Workers == Permutations(Worker)
=============================================================================
