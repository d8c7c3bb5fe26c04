-------------------------- MODULE MCPipelineClient --------------------------
(***************************************************************************)
(* Node types for TLC: one that the pipeline can make, one that it cannot. *)
(***************************************************************************)
EXTENDS PipelineClient

CONSTANTS camera, broken
=============================================================================
