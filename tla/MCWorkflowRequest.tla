------------------------- MODULE MCWorkflowRequest -------------------------
(* The instance of WorkflowRequest that TLC checks: the workflow request w *)
(* and another request r1, served by one process.                        *)
EXTENDS WorkflowRequest

CONSTANTS r1, p1

Shared == [r \in Requests |-> p1]
=============================================================================
