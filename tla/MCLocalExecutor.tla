--------------------------- MODULE MCLocalExecutor ---------------------------
(* A handler that runs a step, which is retried once, and then waits for   *)
(* two callbacks; or has a wait and a callback in two branches.           *)
EXTENDS LocalExecutor

MCOps == {"step", "one", "two"}
MCKind == [step |-> "step", one |-> "callback", two |-> "callback"]
MCAfter == [step |-> {}, one |-> {"step"}, two |-> {"step"}]

BranchOps == {"wait", "one"}
BranchKind == [wait |-> "wait", one |-> "callback"]
BranchAfter == [wait |-> {}, one |-> {}]
=============================================================================
