--------------------------- MODULE MCWorkflowKernel --------------------------
(* WorkflowKernel with a short plan, few commands and one retry. *)
EXTENDS WorkflowKernel, TLC

Symmetric == Permutations(Keys)
=============================================================================
