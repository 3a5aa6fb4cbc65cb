--------------------------- MODULE MCExecutionHistory ---------------------------
(***************************************************************************)
(* Instances of ExecutionHistory for TLC.                                  *)
(***************************************************************************)
EXTENDS ExecutionHistory

\* A step that may be retried, a callback that an outsider completes, a chained invoke.
MCKind == [work |-> "step", ask |-> "callback", call |-> "invoke"]
MCOps == DOMAIN MCKind
===============================================================================
