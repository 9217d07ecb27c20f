------------------------ MODULE MCWorkspaceLifecycle -------------------------
(* Small instances of WorkspaceLifecycle.                                  *)
EXTENDS WorkspaceLifecycle, TLC

CONSTANTS b1, b2, b3, w1, w2

(* Every build is for the same request.                                    *)
SameWorkspace == [b \in Builds |-> w1]

(* The first build has a workspace of its own.                             *)
OwnWorkspaces == [b \in Builds |-> IF b = b1 THEN w1 ELSE w2]
=============================================================================
