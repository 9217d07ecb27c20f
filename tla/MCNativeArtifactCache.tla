------------------------ MODULE MCNativeArtifactCache ------------------------
(* Instances of NativeBuild for TLC.                                       *)
EXTENDS NativeBuild, TLC

CONSTANTS b1, b2, b3

(* The native cache, while the Pods cache is busy: three builds, or two    *)
(* for iOS, whose artifacts may be torn, and a prune.  Both caches: two    *)
(* iOS builds.  The Pods cache, while the native one is busy and no prune  *)
(* plans to change that: two builds and a prune.                           *)
VARIABLE instance

Instances == {"native", "native pruned", "both", "Pods pruned"}

MCInit ==
  /\ BuildInit
  /\ instance \in Instances
  /\ instance = "native" \/ platform = "ios"
  /\ podsOrphaned = (instance \in {"native", "native pruned"})
  /\ instance = "both" => ~orphaned
  /\ instance = "Pods pruned" => orphaned

MCNext ==
  /\ BuildNext /\ UNCHANGED instance
  /\ instance # "native" => stage'[b3] = "idle"
  /\ instance \in {"native", "both"} => \A p \in Prunes : pruning'[p] = "off"
  /\ instance = "Pods pruned" => \A p \in Prunes : plan'[p] = NoPlan

MCSpec == MCInit /\ [][MCNext]_<<buildVars, instance>> /\ BuildFairness
=============================================================================
