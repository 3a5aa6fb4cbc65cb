------------------------- MODULE MCConcurrentExecutor -------------------------
(* Completion configurations and sets of outcomes for model checking. *)
EXTENDS ConcurrentExecutor

FirstSuccessful   == [min |-> 1, count |-> None, pct |-> None]
AnyMayFail        == [min |-> None, count |-> None, pct |-> 100]

OkOnly         == {<<{"ok"}, {"ok"}>>}
OkOrBackground == {<<{"ok", "background"}, {"ok", "background"}>>}

\* Two branches that are resumed, or one beside a branch that ends at once, or never.
Mixed ==
  {<<{"ok", "timed"}, {"ok", "timed"}>>, <<{"ok", "fail", "suspended"}, {"ok", "timed"}>>,
   <<{"fail", "suspended"}, {"fail", "timed"}>>}
=============================================================================
