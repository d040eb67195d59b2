---------------------------- MODULE MCEmbedRebuild ----------------------------
(* A session whose second version is a chunk shorter; embedders of different *)
(* dimension, and a third that shares one.                                   *)
EXTENDS EmbedRebuild

CONSTANTS s1, la, lb, lc, i1, w1

MCChunksIn == [v \in Version |-> IF v = 1 THEN {0, 1} ELSE {0}]
OneChunk   == [v \in Version |-> {0}]
MCDim      == [l \in Lane |-> IF l = la THEN 1 ELSE 2]
=============================================================================
