----------------------------- MODULE CloudRunner -----------------------------
(***************************************************************************)
(* DurableFunctionCloudTestRunner: a test that invokes a function, asks    *)
(* the service for the id of its callback until there is one, completes    *)
(* it, and asks for the status until the execution is over.  The service   *)
(* is the one of LocalApi, with other clients.                             *)
(***************************************************************************)
EXTENDS LocalApi

CONSTANT Runner  \* the client that is the test

ASSUME RunnerAssumption == Runner \in Clients \ {Handler}

VARIABLES
  test,     \* where the test is: invoke, callback, complete, completion, history, over
  late,     \* the time it gives the current wait is over
  last,     \* the last status it was told
  outcome   \* how it ended: a result, a timeout, an error

testVars == <<test, late, last, outcome>>
vars == <<apiVars, testVars>>

Init ==
  /\ ApiInit
  /\ test = "invoke" /\ late = FALSE /\ last = "none" /\ outcome = "none"

Over(how) == test' = "over" /\ outcome' = how /\ UNCHANGED last
Goto(place) == test' = place /\ UNCHANGED <<last, outcome>>

\* run, run_async: the service takes the invocation, or does not; the record of the
\* execution may become visible later.
Invoke ==
  /\ test = "invoke"
  /\ \/ \E place \in {"callback", "completion"} : Goto(place)
     \/ Over("error")
  /\ UNCHANGED <<late, apiVars>>

Asks(route, third) ==
  Ask(Runner, Work([NoRequest EXCEPT !.method = route.method,
                      !.path.segments = [route.pattern EXCEPT ![3] = third]]))

\* The next request of the loop, or its end when the time is up.
Poll ==
  /\ test \in {"callback", "completion"} /\ ~late
  /\ Asks(IF test = "callback" THEN GetDurableExecutionHistoryRoute
          ELSE GetDurableExecutionRoute, E)
  /\ UNCHANGED <<sent, testVars>>

\* Mutant: the time is looked at only once the execution has been seen.
GiveUpOnceSeen ==
  /\ test \in {"callback", "completion"} /\ late /\ conn[Runner].at = "idle"
  /\ last # "none"
  /\ Over("timeout")
  /\ UNCHANGED <<late, apiVars>>

GiveUp ==
  /\ test \in {"callback", "completion"} /\ late /\ conn[Runner].at = "idle"
  /\ Over("timeout")
  /\ UNCHANGED <<late, apiVars>>

TimePasses ==
  /\ test \in {"callback", "completion"} /\ ~late
  /\ late' = TRUE
  /\ UNCHANGED <<test, last, outcome, apiVars>>

\* send_callback_success, and _fetch_execution_history of an execution that is over.
Request ==
  /\ \/ test = "complete" /\ Asks(CallbackSuccessRoute, "callback")
     \/ test = "history" /\ Asks(GetDurableExecutionHistoryRoute, E)
  /\ UNCHANGED <<sent, testVars>>

\* What _wait_for_completion takes for the end.
Terminal == {"SUCCEEDED", "FAILED", "TIMED_OUT", "ABORTED"}

\* wait_for_callback: the id, if the history has one.
ReadCallback(code, told) ==
  IF code \notin {200, NotFound} THEN Over("error")
  ELSE IF told = "callbackId" THEN Goto("complete") ELSE Goto(test)

\* _wait_for_completion: NotFound may mean that the record is not visible yet.
ReadStatus(code, told) ==
  IF code \notin {200, NotFound} THEN Over("error")
  ELSE /\ test' = IF told \in Terminal THEN "history" ELSE test
       /\ last' = IF code = 200 THEN told ELSE last
       /\ UNCHANGED outcome

ReadAnswer ==
  /\ LET code == conn[Runner].work.code
         told == conn[Runner].told
     IN \/ test = "callback" /\ ReadCallback(code, told) /\ UNCHANGED late
        \/ test = "completion" /\ ReadStatus(code, told) /\ UNCHANGED late
        \/ /\ test = "complete"
           /\ IF code = 200 THEN Goto("completion") ELSE Over("error")
           /\ late' = FALSE
        \/ /\ test = "history" /\ Over(IF code = 200 THEN last ELSE "error")
           /\ UNCHANGED late
  /\ Read(Runner)

RunnerStep == Invoke \/ Poll \/ GiveUp \/ Request \/ ReadAnswer

Next ==
  \/ (OtherStep(Clients \ {Handler, Runner}) \/ ServerStep) /\ UNCHANGED testVars
  \/ RunnerStep \/ TimePasses

\* Time passes, whatever the test does.
Spec ==
  /\ Init /\ [][Next]_vars
  /\ ApiFairness
  /\ WF_vars(RunnerStep) /\ WF_vars(TimePasses)

-----------------------------------------------------------------------------
\* The test ends: the callback comes, or the execution ends, or time is up.
TestEnds == <>(test = "over")

\* The docstring of _wait_for_completion: TimeoutError is for an execution that has not
\* completed when time is up.
TimeoutMeansRunning == outcome = "timeout" => last \notin Ended \cup {"STOPPED"}
=============================================================================
