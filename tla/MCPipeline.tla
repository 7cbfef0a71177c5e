----------------------------- MODULE MCPipeline -----------------------------
(* The pipeline on small instances; the cfg files give the constants. *)
EXTENDS Pipeline
=============================================================================
