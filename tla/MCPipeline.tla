----------------------------- MODULE MCPipeline -----------------------------
(* Model-checking instance of Pipeline.                                    *)
EXTENDS Pipeline

MCStacks == SUBSET {"WithTrailers", "Fuse"}
=============================================================================
