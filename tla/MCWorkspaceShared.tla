-------------------------- MODULE MCWorkspaceShared --------------------------
(* A calm and a troubled instance of WorkspaceLifecycle.                   *)
EXTENDS MCWorkspaceLifecycle

CONSTANT p

(* Two instances in one run.  When it is calm the builds b2 and b3 want    *)
(* one workspace and there is a pruner.  When it is not, b1 and b2 have a  *)
(* workspace each and the cleaner is there, not the pruner.                *)
MCNext ==
  /\ Next
  /\ IF calm THEN pc'[b1] = "idle" ELSE pc'[b3] = "idle" /\ pc'[p] = "idle"
MCSpec == Init /\ [][MCNext]_vars
=============================================================================
