------------------------- MODULE MCServicePipeline -------------------------
(* Instances of ServicePipeline for TLC. *)
EXTENDS ServicePipeline

CONSTANTS c1, c2

MCGens == 1..2
\* No hooks, all of them, and each half.
MCPipelines ==
  LET pre == {"ingest", "search", "get"}
      post == {"ingest", "search", "get", "list"}
  IN [pre: {{}, pre}, post: {{}, post}]
MCAnswers == {{"created"}, {"updated", "unchanged"}}
=============================================================================
