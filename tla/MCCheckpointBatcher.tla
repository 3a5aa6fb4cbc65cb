------------------------- MODULE MCCheckpointBatcher -------------------------
(***************************************************************************)
(* Programs of create_checkpoint calls for model checking.  P is the       *)
(* CONTEXT of a map or parallel run by the handler, C a branch of it and g *)
(* a step inside that, D a branch begun in an earlier invocation and e a   *)
(* step inside that; s1 is a step of a handler without any.                *)
(***************************************************************************)
EXTENDS CheckpointBatcher, TLC

CONSTANTS h, b1, b2, P, C, D, s1, g, e

\* Asynchronous START, synchronous START, synchronous SUCCEED of a step, SUCCEED of a context.
StartAsync(op, parent) ==
  [op |-> op, parent |-> parent, ends |-> FALSE, sync |-> FALSE, size |-> 1, after |-> {}]
StartSync(op, parent) == [StartAsync(op, parent) EXCEPT !.sync = TRUE]
Succeed(op, parent, n) == [StartSync(op, parent) EXCEPT !.size = n]
EndContext(op, parent) == [StartSync(op, parent) EXCEPT !.ends = TRUE]
EmptyCheckpoint == StartSync(None, None)
After(calls, c) == [c EXCEPT !.after = calls]

\* One step with AtLeastOncePerRetry semantics.
StepProgram == (h :> <<StartAsync(s1, None), Succeed(s1, None, 2)>>)

\* One such step whose result is larger than a whole batch may be.
BigStepProgram == (h :> <<StartAsync(s1, None), Succeed(s1, None, 3)>>)

\* A fan-out P begun in an earlier invocation.  b2 refreshes once and resumes the branch D,
\* which sends no START again; P completes after the refresh, while b1 is in the branch C,
\* whose step g may have checkpointed or not; D begins its step e when P has completed.
FanOutProgram ==
  (h :> <<After({<<b2, 1>>}, EndContext(P, None))>>)
  @@ (b1 :> <<StartAsync(C, P), StartAsync(g, C), Succeed(g, C, 2)>>)
  @@ (b2 :> <<After({<<b1, 1>>}, EmptyCheckpoint), After({<<h, 1>>}, StartAsync(e, D))>>)

=============================================================================
