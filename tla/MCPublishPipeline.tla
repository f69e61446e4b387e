-------------------------- MODULE MCPublishPipeline --------------------------
(***************************************************************************)
(* One asset published to TikTok and as a Reel, and two workers started     *)
(* without arguments, so that either takes from either queue.               *)
(***************************************************************************)
EXTENDS PublishPipeline, TLC

CONSTANTS a1, a2, j1, j2

OneJob == {j1}
TwoJobs == {j1, j2}
MCAssetOf == [j \in Jobs |-> a1]
ApartOf == [j \in Jobs |-> IF j = j1 THEN a1 ELSE a2]
MCPlatformOf == [j \in Jobs |-> IF j = j1 THEN "tiktok" ELSE "facebook_reel"]
EveryQueue == [w \in Workers |-> Queues]

Symmetry == Permutations(Workers) \cup Permutations(Handlers)
=============================================================================
