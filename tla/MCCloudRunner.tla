---------------------------- MODULE MCCloudRunner ----------------------------
(* A test, the function and another client, whose requests are good and bad. *)
EXTENDS CloudRunner

MCClients == {"function", "test", "other"}

To(method, path, body, query) ==
  [method |-> method, path |-> path, body |-> body, query |-> query, token |-> 0]
At(route, third) ==
  [plain |-> TRUE,
   segments |-> IF Len(route.pattern) < 3 THEN route.pattern ELSE [route.pattern EXCEPT ![3] = third]]
Good(route, third) == To(route.method, At(route, third), "good", "good")

\* Requests that change something.
Effective ==
  {Good(StopDurableExecutionRoute, E),
   Good(CallbackSuccessRoute, "callback"), Good(CallbackFailureRoute, "callback"),
   Good(CallbackHeartbeatRoute, "callback"), Good(UpdateLambdaEndpointRoute, E)}

\* Requests that do not: reads, stale tokens, unknown ids, bad bodies and queries, and
\* paths that are nearly those of a route.
Idempotent ==
  {Good(GetDurableExecutionRoute, "another"), Good(CheckpointDurableExecutionRoute, E),
   Good(GetDurableExecutionStateRoute, E), Good(ListDurableExecutionsRoute, E),
   Good(ListDurableExecutionsByFunctionRoute, "function"),
   Good(ListDurableExecutionsByFunctionRoute, "blank"), Good(HealthRoute, E),
   Good(MetricsRoute, E), Good(StopDurableExecutionRoute, "another"),
   Good(CallbackSuccessRoute, "strangerOfE"), Good(CallbackFailureRoute, "callbackOfAnother"),
   Good(CallbackHeartbeatRoute, "noToken"),
   To("GET", At(GetDurableExecutionHistoryRoute, E), "lacking", "bad"),
   To("POST", At(StartExecutionRoute, E), "lacking", "good"),
   To("POST", At(CallbackSuccessRoute, "callback"), "malformed", "good"),
   To("POST", At(CallbackFailureRoute, "callback"), "malformed", "good"),
   To("POST", At(StopDurableExecutionRoute, E), "malformed", "good"),
   To("GET", At(StopDurableExecutionRoute, E), "lacking", "good"),
   To("GET", [plain |-> FALSE, segments |-> <<"health">>], "lacking", "good")}

MCRequests == Effective \cup Idempotent
=============================================================================
