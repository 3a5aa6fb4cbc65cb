-------------------------- MODULE MCDurableContext --------------------------
(* Handlers for model checking: the instructions of each context. *)
EXTENDS DurableContext

I(kind) == [kind |-> kind, of |-> 0, large |-> FALSE]
ResultOf(n) == [I("result") EXCEPT !.of = n]
LargeChild == [I("child") EXCEPT !.large = TRUE]

\* A callback that is read after a poll.
CallbackThenPoll == <<>> :> <<I("callback"), I("condition"), ResultOf(1), I("wait")>>

\* wait_for_callback is a child that creates the callback and reads it.
CallbackInChild ==
  <<>> :> <<I("child"), I("condition")>> @@ <<1>> :> <<I("callback"), ResultOf(1)>>

\* A child whose result is too large, made again from its children's.
LargeThenWait ==
  <<>> :> <<LargeChild, I("wait")>> @@ <<1>> :> <<I("invoke"), I("condition")>>

\* A virtual child with a child of its own.
VirtualThenInvoke ==
  <<>> :> <<I("child"), I("wait")>>
  @@ <<1>> :> <<I("virtual"), I("invoke")>>
  @@ <<1, 1>> :> <<I("child"), I("condition")>>
  @@ <<1, 1, 1>> :> <<I("wait")>>

Bodies == {CallbackThenPoll, CallbackInChild, LargeThenWait, VirtualThenInvoke}

\* The code catches any of the errors; but where a child is large it does not tell the two
\* apart that a failed check may raise (NothingRefused says why).
TellsApart(catches) == Cardinality(catches \cap {"CheckError", "CallableRuntimeError"}) = 1

MCPrograms ==
  {p \in [body : Bodies, catches : SUBSET Errors] : p.body = LargeThenWait => ~TellsApart(p.catches)}

\* For the claims: a callback that is pending while an operation after it has ended, and a
\* check whose error is caught before a wait.
ClaimPrograms ==
  [body : {<<>> :> <<I("callback"), I("wait"), ResultOf(1)>>,
           <<>> :> <<I("condition"), I("wait")>>},
   catches : {Errors}]
=============================================================================
