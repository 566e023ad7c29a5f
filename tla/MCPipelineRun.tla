---------------------------- MODULE MCPipelineRun ----------------------------
(* A research task with a review to follow and a review of an object that   *)
(* is not there; room for two calls.                                        *)
EXTENDS PipelineRun

CONSTANTS research, review, missing, none

MCTask == {research, review, missing}
MCStepOf == [t \in MCTask |-> IF t = research THEN 1 ELSE 2]
MCFollow == [t \in MCTask |-> IF t = research THEN review ELSE none]
=============================================================================
