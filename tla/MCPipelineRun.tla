--------------------------- MODULE MCPipelineRun ---------------------------
(***************************************************************************)
(* Pipeline runs on small instances.  Jobs are interchangeable.            *)
(***************************************************************************)
EXTENDS PipelineRun, TLC

Jobs == Permutations(Job)
=============================================================================
