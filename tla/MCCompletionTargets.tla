------------------------- MODULE MCCompletionTargets -------------------------
(* Instances of CompletionTargets for TLC: which session is in which          *)
(* conversation and which is watched at the start.                            *)
EXTENDS CompletionTargets

CONSTANTS a1, a2, c1, c2

OneEach == [a \in Apps |-> IF a = a1 THEN c1 ELSE c2]
OnlyFirst == [a \in Apps |-> IF a = a1 THEN c1 ELSE None]

BothWatched == Users \X Apps
=============================================================================
