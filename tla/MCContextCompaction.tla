------------------------- MODULE MCContextCompaction -------------------------
(* Instances of ContextCompaction for TLC: the reviewed policy's 12000,    *)
(* 8000 and 9600 tokens in thousands, rounded down.                        *)
EXTENDS ContextCompaction
=============================================================================
