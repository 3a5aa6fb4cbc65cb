-------------------------- MODULE MCCheckpointService --------------------------
(***************************************************************************)
(* Instances of CheckpointService for TLC.                                 *)
(***************************************************************************)
EXTENDS CheckpointService

\* A step inside a context, beside a wait and a callback.
MCOps == {"box", "work", "nap", "ask"}
MCKind == [box |-> "context", work |-> "step", nap |-> "wait", ask |-> "callback"]
MCParent == [box |-> "none", work |-> "box", nap |-> "none", ask |-> "none"]

\* A callback in a context, and a chained invoke.
CallOps == {"box", "ask", "call"}
CallKind == [box |-> "context", ask |-> "callback", call |-> "invoke"]
CallParent == [box |-> "none", ask |-> "box", call |-> "none"]
==============================
