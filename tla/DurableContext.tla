--------------------------- MODULE DurableContext ---------------------------
(***************************************************************************)
(* The contexts of a handler (context.py) and the operations it calls on   *)
(* them (operation/wait.py, invoke.py, callback.py, wait_for_condition.py, *)
(* child.py), over all invocations of an execution.  The handler is a      *)
(* deterministic program that every invocation runs from the start; what   *)
(* it is given at each point comes from the checkpoints.                   *)
(*                                                                         *)
(* One thread runs the program: the branches of map and parallel are in    *)
(* ConcurrentExecutor, steps in StepOperation.  The pipeline is the one    *)
(* CheckpointLog promises, the service's answers those CheckpointService   *)
(* shows to hide nothing.                                                  *)
(***************************************************************************)
EXTENDS Integers, Sequences, FiniteSets, TLC

CONSTANTS
  Programs,   \* the handlers: body, the instructions of each context; catches, the classes of
              \* errors that the code catches
  MaxPolls,   \* bound: checks of one wait_for_condition
  MaxCrashes  \* bound: invocations that die

\* An instruction is an operation, a context without a checkpoint ("virtual"), or the read of
\* the result of the callback that is operation "of"; large is for a child with a large result.
ChildKinds == {"child", "virtual"}
OpKinds == {"condition", "child", "wait", "invoke", "callback"}
Instructions == [kind : OpKinds \cup {"virtual", "result"}, of : Nat, large : BOOLEAN]

\* What an operation that failed can raise: a check of a condition its own error, a class of
\* the user's, the first time; all else, and the condition once it is read back, one of these.
Errors == {"CheckError", "CallableRuntimeError", "CallbackError"}

\* How many operations the code begins up to a line: the count of _create_step_id.
Position(code, line) == Cardinality({k \in 1 .. line : code[k].kind # "result"})

\* A child context has code of its own, and a result is read of a callback that was created.
IsCode(code, path, body) ==
  /\ code \in Seq(Instructions)
  /\ \A l \in 1 .. Len(code) :
       /\ code[l].kind \in ChildKinds => path \o <<Position(code, l)>> \in DOMAIN body
       /\ code[l].kind = "result" =>
            \E m \in 1 .. l - 1 : code[m].kind = "callback" /\ Position(code, m) = code[l].of

ASSUME ContextAssumption == MaxPolls \in Nat \ {0} /\ MaxCrashes \in Nat

ASSUME ProgramAssumption ==
  \A p \in Programs :
    /\ p.catches \subseteq Errors
    /\ <<>> \in DOMAIN p.body /\ DOMAIN p.body \subseteq Seq(Nat)
    /\ \A path \in DOMAIN p.body : IsCode(p.body[path], path, p.body)

VARIABLES
  program,  \* the handler of this execution
  ops,      \* the operations at the service, by id
  view,     \* those in ExecutionState._operations
  queue,    \* updates on their way to the service
  stack,    \* the contexts whose code is running, innermost last
  pc,       \* where the innermost is
  taken,    \* the checkpointed_result that a check of a condition acts upon
  crashes,
  \* history
  reached,  \* the points of the program reached in any invocation
  given,    \* what the program was given at each point: the path and the line, whether it
            \* returned or which error it raised, and the payload
  polls     \* what each check of a condition was called with

thread == <<stack, pc, taken>>
pipe == <<view, queue>>
history == <<reached, given, polls>>
vars == <<program, ops, pipe, thread, crashes, history>>

\* An id is the path of positions that leads to the operation: _create_step_id hashes it.
Root == <<>>
None == <<"none">>  \* no payload; payloads are sequences
Failed == {"FAILED", "TIMED_OUT", "STOPPED"}
Terminal == {"SUCCEEDED"} \cup Failed

\* A context: path is its _step_id_prefix, parent its _parent_id, line and at count the
\* instructions and the operations begun, new says it no longer replays, flip that it stops
\* replaying after the operation, again that it is run again for its children, and log is
\* what the code has been given, from which it makes its result.
Context(path, parent, new, virtual, again) ==
  [path |-> path, parent |-> parent, line |-> 0, at |-> 0, new |-> new, flip |-> FALSE,
   virtual |-> virtual, again |-> again, log |-> <<>>]

Init ==
  /\ program \in Programs
  /\ ops = <<>> /\ view = <<>> /\ queue = <<>>
  /\ stack = <<>> /\ pc = "down" /\ taken = [attempt |-> 0, payload |-> None]
  /\ crashes = 0
  /\ reached = {} /\ given = {} /\ polls = {}

-----------------------------------------------------------------------------
\* The service.

Accepted ==
  [condition |-> [START |-> {"READY"}, RETRY |-> {"STARTED", "READY"},
                  SUCCEED |-> {"STARTED", "READY"}, FAIL |-> {"STARTED", "READY"}],
   child |-> [START |-> {}, SUCCEED |-> {"STARTED"}, FAIL |-> {"STARTED"}],
   wait |-> [START |-> {}], invoke |-> [START |-> {}], callback |-> [START |-> {}]]

\* The status transitions of the validators, and a parent that is recorded.
Accepts(u) ==
  /\ u.id \in DOMAIN ops => ops[u.id].status \in Accepted[u.kind][u.action]
  /\ u.parent # Root => u.parent \in DOMAIN ops /\ ops[u.parent].kind = "child"

StatusAfter ==
  [START |-> "STARTED", RETRY |-> "PENDING", SUCCEED |-> "SUCCEEDED", FAIL |-> "FAILED"]

\* The processors make the operation anew: its payload is that of its last update, its
\* attempt counts the updates other than START.
Process(u) ==
  LET before == IF u.id \in DOMAIN ops THEN ops[u.id].attempt ELSE 0
      after == [kind |-> u.kind, status |-> StatusAfter[u.action], parent |-> u.parent,
                attempt |-> IF u.action = "START" THEN before ELSE before + 1,
                payload |-> u.payload, replay |-> u.replay]
  IN [id \in DOMAIN ops \cup {u.id} |-> IF id = u.id THEN after ELSE ops[id]]

\* A wait ends, a retry is due, an invoked function or the owner of a callback answers, or
\* the invoke or callback times out.
Complete(id) ==
  /\ id \in DOMAIN ops
  /\ LET o == ops[id]
         To(status, payload) == ops' = [ops EXCEPT ![id].status = status, ![id].payload = payload]
     IN \/ o.kind = "wait" /\ o.status = "STARTED" /\ To("SUCCEEDED", None)
        \/ o.kind = "condition" /\ o.status = "PENDING" /\ To("READY", o.payload)
        \/ /\ o.kind \in {"invoke", "callback"} /\ o.status = "STARTED"
           /\ To("SUCCEEDED", <<"yes">>) \/ To("FAILED", <<"no">>) \/ To("TIMED_OUT", None)
  /\ UNCHANGED <<program, pipe, thread, crashes, history>>

-----------------------------------------------------------------------------
\* The pipeline and the life of an invocation.

\* One update is applied, and the answer brings all that has changed.
Send ==
  /\ queue # <<>> /\ Accepts(Head(queue))
  /\ ops' = Process(Head(queue)) /\ view' = ops'
  /\ queue' = Tail(queue)
  /\ UNCHANGED <<program, thread, crashes, history>>

Put(action, f, kind, payload, replay) ==
  queue' = Append(queue, [id |-> f.path \o <<f.at>>, kind |-> kind, parent |-> f.parent,
                          action |-> action, payload |-> payload, replay |-> replay])

\* The root context replays if there are operations.  After a suspension the service invokes
\* when an operation has changed.
Invoke ==
  /\ \/ pc = "down"
     \/ pc = "suspended" /\ \E id \in DOMAIN ops : ops[id] # view[id]
  /\ view' = ops
  /\ stack' = <<Context(Root, Root, ops = <<>>, FALSE, FALSE)>> /\ pc' = "run"
  /\ UNCHANGED <<program, ops, queue, taken, crashes, history>>

Dies ==
  /\ pc \notin {"down", "suspended", "done", "failed"} /\ crashes < MaxCrashes
  /\ crashes' = crashes + 1
  /\ pc' = "down" /\ stack' = <<>> /\ queue' = <<>>
  /\ UNCHANGED <<program, view, taken, history>>

\* With the answer to a checkpoint that was applied, or without.
Crash ==
  /\ Dies
  /\ \/ UNCHANGED ops
     \/ queue # <<>> /\ Accepts(Head(queue)) /\ ops' = Process(Head(queue))

\* SuspendExecution leaves all the contexts; what is still queued is not waited for.
Suspend ==
  /\ pc' = "suspended" /\ stack' = <<>> /\ queue' = <<>>
  /\ UNCHANGED <<program, ops, view, taken, crashes, history>>

-----------------------------------------------------------------------------
\* A context around an operation: _replay_aware.

Top == stack[Len(stack)]
Below == SubSeq(stack, 1, Len(stack) - 1)
Body(f) == program.body[f.path]
Instr == Body(Top)[Top.line]
Id(f) == f.path \o <<f.at>>
NextId(f) == f.path \o <<f.at + 1>>
Exists(id) == id \in DOMAIN view

Reach == reached' = reached \cup {<<Top.path, Top.line>>}

\* Before: a context that meets an operation it has no checkpoint for stops replaying, and
\* so it does before a STEP (a condition is one) that is not done; with any other operation
\* that is not done it stops afterwards.
Before(f) ==
  LET next == NextId(f)
      undone == Exists(next) /\ view[next].status \notin Terminal
      isStep == Exists(next) /\ view[next].kind = "condition"
  IN [f EXCEPT !.line = @ + 1, !.at = @ + 1,
        !.new = f.new \/ ~Exists(next) \/ (isStep /\ undone),
        !.flip = ~f.new /\ undone /\ ~isStep]

\* Mutant: only the operation itself can be the boundary.
AfterItself(f) == [f EXCEPT !.new = f.new \/ f.flip, !.flip = FALSE]

\* After: it also stops if there is no checkpoint for the operation that follows.
After(f) == [f EXCEPT !.new = f.new \/ f.flip \/ ~Exists(NextId(f)), !.flip = FALSE]

\* The next instruction: an operation.
Call ==
  /\ pc = "run" /\ Top.line < Len(Body(Top))
  /\ Body(Top)[Top.line + 1].kind # "result"
  /\ stack' = Append(Below, Before(Top)) /\ pc' = "check"
  /\ Reach
  /\ UNCHANGED <<program, ops, pipe, taken, crashes, given, polls>>

\* What the code is given for its last instruction, by the context f it runs in: how is
\* "returns" or the class of the error raised, which it may catch.
Give(f, how, what) ==
  /\ given' = given \cup {<<f.path, f.line, how, what>>}
  /\ pc' = IF how \in {"returns"} \cup program.catches THEN "run" ELSE "raising"

Outcome(how, what) ==
  /\ Give(Top, how, what)
  /\ stack' = Append(Below, [After(Top) EXCEPT !.log = @ \o what])
  /\ UNCHANGED <<program, ops, pipe, taken, crashes, reached, polls>>

\* The operation's checkpoint, as check_result_status reads it.
At(kind) == pc = "check" /\ Instr.kind = kind
Absent == ~Exists(Id(Top))
Status == IF Absent THEN "absent" ELSE view[Id(Top)].status
Payload == view[Id(Top)].payload

\* A synchronous START, after which process() checks again.
StartAndCheck(kind) ==
  /\ Put("START", Top, kind, None, FALSE) /\ pc' = "starting"
  /\ UNCHANGED <<program, ops, view, stack, taken, crashes, history>>

Started ==
  /\ pc = "starting" /\ queue = <<>> /\ pc' = "check"
  /\ UNCHANGED <<program, ops, pipe, stack, taken, crashes, history>>

-----------------------------------------------------------------------------
\* The operations that the service completes.

Wait ==
  /\ At("wait")
  /\ \/ Status = "SUCCEEDED" /\ Outcome("returns", <<>>)
     \/ Absent /\ StartAndCheck("wait")
     \/ Status = "STARTED" /\ Suspend

ChainedInvoke ==
  /\ At("invoke")
  /\ \/ Status = "SUCCEEDED" /\ Outcome("returns", Payload)
     \/ Status \in Failed /\ Outcome("CallableRuntimeError", Payload)
     \/ Absent /\ StartAndCheck("invoke")
     \/ Status = "STARTED" /\ Suspend

\* create_callback gives the callback's id, however the callback has ended.
CreateCallback ==
  /\ At("callback")
  /\ \/ ~Absent /\ Outcome("returns", <<>>)
     \/ Absent /\ StartAndCheck("callback")

\* Callback.result(), with the status it finds; it is no operation of its own.
ReadResult ==
  /\ pc = "run" /\ Top.line < Len(Body(Top))
  /\ LET i == Body(Top)[Top.line + 1]
         f == [Top EXCEPT !.line = @ + 1]
         cb == view[Top.path \o <<i.of>>]
         Result(how) ==
           /\ Give(f, how, cb.payload)
           /\ stack' = Append(Below, [f EXCEPT !.log = @ \o cb.payload])
           /\ Reach
           /\ UNCHANGED <<program, ops, pipe, taken, crashes, polls>>
     IN /\ i.kind = "result"
        /\ \/ cb.status = "SUCCEEDED" /\ Result("returns")
           \/ cb.status \in Failed /\ Result("CallbackError")
           \/ cb.status = "STARTED" /\ Suspend

-----------------------------------------------------------------------------
\* wait_for_condition.  The state of the poll is the sequence of its checks.

ConditionIsDone ==
  /\ At("condition")
  /\ \/ Status = "SUCCEEDED" /\ Outcome("returns", Payload)
     \/ Status = "FAILED" /\ Outcome("CallableRuntimeError", Payload)
     \/ Status = "PENDING" /\ Suspend

\* Mutant: every check begins with a START.
BeginCheckAgain ==
  /\ At("condition") /\ Status \in {"absent", "READY", "STARTED"}
  /\ taken' = IF Absent THEN [attempt |-> 0, payload |-> None]
              ELSE [attempt |-> view[Id(Top)].attempt, payload |-> Payload]
  /\ Put("START", Top, "condition", None, FALSE)
  /\ pc' = "checking"
  /\ UNCHANGED <<program, ops, view, stack, crashes, history>>

\* The START is not awaited, and the check acts upon the checkpoint read before it.
BeginCheck ==
  /\ At("condition") /\ Status \in {"absent", "READY", "STARTED"}
  /\ taken' = IF Absent THEN [attempt |-> 0, payload |-> None]
              ELSE [attempt |-> view[Id(Top)].attempt, payload |-> Payload]
  /\ IF Status = "STARTED" THEN UNCHANGED queue
     ELSE Put("START", Top, "condition", None, FALSE)
  /\ pc' = "checking"
  /\ UNCHANGED <<program, ops, view, stack, crashes, history>>

\* The initial state is the empty sequence.
Polled == IF taken.payload = None THEN <<>> ELSE taken.payload

\* Mutant: the checkpoint of a retry has no state.
CheckForgetful ==
  LET state == Append(Polled, "s")
  IN /\ pc = "checking"
     /\ polls' = polls \cup {[id |-> Id(Top), attempt |-> taken.attempt + 1, state |-> Polled,
                              new |-> Top.new]}
     /\ taken' = [taken EXCEPT !.payload = state]
     /\ \/ Put("SUCCEED", Top, "condition", state, FALSE) /\ pc' = "met"
        \/ /\ taken.attempt + 1 < MaxPolls
           /\ Put("RETRY", Top, "condition", None, FALSE) /\ pc' = "unmet"
     /\ UNCHANGED <<program, ops, view, stack, crashes, reached, given>>

\* The check gives a new state, of which the wait strategy decides, or raises.
Check ==
  LET state == Append(Polled, "s")
  IN /\ pc = "checking"
     /\ polls' = polls \cup {[id |-> Id(Top), attempt |-> taken.attempt + 1, state |-> Polled,
                              new |-> Top.new]}
     /\ taken' = [taken EXCEPT !.payload = state]
     /\ \/ Put("SUCCEED", Top, "condition", state, FALSE) /\ pc' = "met"
        \/ /\ taken.attempt + 1 < MaxPolls
           /\ Put("RETRY", Top, "condition", state, FALSE) /\ pc' = "unmet"
        \/ Put("FAIL", Top, "condition", <<"boom">>, FALSE) /\ pc' = "broken"
     /\ UNCHANGED <<program, ops, view, stack, crashes, reached, given>>

\* Its synchronous checkpoint has returned.  A check that raised raises the same again: the
\* error it was, not the CallableRuntimeError that ConditionIsDone makes of its record.
Checked ==
  /\ queue = <<>>
  /\ \/ pc = "met" /\ Outcome("returns", taken.payload)
     \/ pc = "broken" /\ Outcome("CheckError", <<"boom">>)
     \/ pc = "unmet" /\ Suspend

-----------------------------------------------------------------------------
\* Child contexts.

\* Mutant: the operations of a virtual context report to the context itself.
EnterReporting(f) ==
  Append(stack, Context(Id(f), Id(f), f.new, Instr.kind = "virtual",
                        Status = "SUCCEEDED"))

\* create_child_context: the operations of a virtual context report to the parent of its own.
Enter(f) ==
  Append(stack, Context(Id(f), IF Instr.kind = "virtual" THEN f.parent ELSE Id(f), f.new,
                        Instr.kind = "virtual", Status = "SUCCEEDED"))

\* Mutant: a result too large to be checkpointed is replaced by its summary.
ChildIsDoneBySummary ==
  /\ pc = "check" /\ Instr.kind \in ChildKinds
  /\ \/ Status = "SUCCEEDED" /\ Outcome("returns", Payload)
     \/ Status = "FAILED" /\ Outcome("CallableRuntimeError", Payload)

\* A checkpointed outcome, unless the children are to be replayed.
ChildIsDone ==
  /\ pc = "check" /\ Instr.kind \in ChildKinds
  /\ \/ Status = "SUCCEEDED" /\ ~view[Id(Top)].replay /\ Outcome("returns", Payload)
     \/ Status = "FAILED" /\ Outcome("CallableRuntimeError", Payload)

\* The START of a context is not awaited; a virtual context has none.
EnterChild ==
  /\ pc = "check" /\ Instr.kind \in ChildKinds
  /\ \/ Status \in {"absent", "STARTED"}
     \/ Status = "SUCCEEDED" /\ view[Id(Top)].replay
  /\ IF Absent /\ Instr.kind = "child" THEN Put("START", Top, "child", None, FALSE)
     ELSE UNCHANGED queue
  /\ stack' = Enter(Top) /\ pc' = "run"
  /\ UNCHANGED <<program, ops, view, taken, crashes, history>>

Creator == stack[Len(stack) - 1]

\* The child context is left with an outcome for the code that created it.
Leave(how, what) ==
  /\ Give(Creator, how, what)
  /\ stack' = Append(SubSeq(stack, 1, Len(stack) - 2), [After(Creator) EXCEPT !.log = @ \o what])
  /\ UNCHANGED <<program, ops, pipe, taken, crashes, polls>>

AtEnd == pc = "run" /\ Top.line = Len(Body(Top))
Reported == Top.virtual \/ Top.again

\* Its code returns: a virtual context and one that was run again write nothing.
LeaveChild == AtEnd /\ Len(stack) > 1 /\ Reported /\ Leave("returns", Top.log) /\ Reach

\* A large result is left out of the checkpoint, which then asks for the children's replay.
CloseChild ==
  /\ AtEnd /\ Len(stack) > 1 /\ ~Reported
  /\ LET large == Body(Creator)[Creator.line].large
     IN Put("SUCCEED", Creator, "child", IF large THEN <<"summary">> ELSE Top.log, large)
  /\ pc' = "closing" /\ Reach
  /\ UNCHANGED <<program, ops, view, stack, taken, crashes, given, polls>>

\* Its code raises.
FailChild ==
  /\ pc = "raising" /\ Len(stack) > 1 /\ ~Top.virtual
  /\ Put("FAIL", Creator, "child", Top.log, FALSE) /\ pc' = "failing"
  /\ UNCHANGED <<program, ops, view, stack, taken, crashes, history>>

\* The error goes on when its synchronous FAIL has returned, as a CallableRuntimeError.
FailedChild ==
  /\ \/ pc = "raising" /\ Len(stack) > 1 /\ Top.virtual
     \/ pc = "failing" /\ queue = <<>>
  /\ Leave("CallableRuntimeError", Top.log) /\ UNCHANGED reached

ClosedChild ==
  /\ pc = "closing" /\ queue = <<>>
  /\ Leave("returns", Top.log) /\ UNCHANGED reached

\* The handler returns or raises.
EndHandler ==
  /\ Len(stack) = 1
  /\ \/ AtEnd /\ pc' = "done" /\ Reach
     \/ pc = "raising" /\ pc' = "failed" /\ UNCHANGED reached
  /\ stack' = <<>>
  /\ UNCHANGED <<program, ops, pipe, taken, crashes, given, polls>>

-----------------------------------------------------------------------------

Step ==
  \/ Call \/ Started \/ Wait \/ ChainedInvoke \/ CreateCallback \/ ReadResult
  \/ ConditionIsDone \/ BeginCheck \/ Check \/ Checked
  \/ ChildIsDone \/ EnterChild \/ LeaveChild \/ CloseChild \/ ClosedChild
  \/ FailChild \/ FailedChild \/ EndHandler

Next == (\E id \in DOMAIN ops : Complete(id)) \/ Send \/ Invoke \/ Crash \/ Step

Spec == Init /\ [][Next]_vars

\* The code runs, the pipeline sends, the service ends waits and invokes again, and callbacks
\* and invoked functions answer or time out.
FairSpec ==
  /\ Spec /\ WF_vars(Step) /\ WF_vars(Send) /\ WF_vars(Invoke)
  /\ WF_vars(\E id \in DOMAIN ops : Complete(id))

-----------------------------------------------------------------------------
\* Properties.

\* A handler whose code takes the same way whether a failed check raises its own error, as it
\* does when it runs, or CallableRuntimeError, as it does when it is replayed.
ErrorsAlike == "CheckError" \in program.catches <=> "CallableRuntimeError" \in program.catches

\* The same way of ending, or the two errors of a condition.
SameOrError(how, other, instruction) ==
  \/ how = other
  \/ instruction.kind = "condition" /\ {how, other} = {"CheckError", "CallableRuntimeError"}

\* Every invocation takes such a handler the same way: at the same point it is given the same,
\* but for the class of a check's error, however the operations change between invocations: a
\* callback that ends after create_callback has been replayed, a child whose large result is
\* made again from its children's.
OutcomesAgree ==
  ErrorsAlike => \A g, h \in given : g[1] = h[1] /\ g[2] = h[2] =>
    g[4] = h[4] /\ SameOrError(g[3], h[3], program.body[g[1]][g[2]])

\* The SDK sends no update that the service refuses, neither for the status of the operation
\* nor for its parent, whatever an earlier invocation has sent before it died.  (A handler that
\* tells the errors apart may fail where it had succeeded, and send the FAIL of a large child
\* that SUCCEEDED.)
NothingRefused == ErrorsAlike /\ queue # <<>> => Accepts(Head(queue))

\* Code that runs for the first time is not taken for a replay, which would drop its logs
\* (_replay_aware, "subsequent code counts as new"; after a crash the first lines of a child
\* may be, its START being durable before they ran), and the check of a condition never is
\* ("the user function is about to run real work, so flip to NEW before it").
NewCodeIsNew ==
  /\ crashes = 0 /\ pc = "run" /\ <<Top.path, Top.line>> \notin reached => Top.new
  /\ \A p \in polls : p.new

\* While no invocation dies in a check, the check of attempt n continues from the state of
\* check n - 1.
PollsContinue == crashes = 0 => \A p \in polls : Len(p.state) = p.attempt - 1

\* "This guarantees the polling state is durable and will resume correctly on the next
\* invocation" (wait_for_condition.py 256-259), also after a crash.
PollStateIsDurable == \A p \in polls : Len(p.state) = p.attempt - 1

\* "This guarantees the error is durable" (wait_for_condition.py 283), of any handler:
\* every invocation gives the code the same at the same point.
GivenTheSame == \A g, h \in given : g[1] = h[1] /\ g[2] = h[2] => g = h

\* "True if this context is currently replaying prior operations" (context.py:455): a context
\* that does not replay calls no operation that has already ended.
ReplayLasts ==
  pc = "run" /\ Top.new /\ Exists(NextId(Top)) => view[NextId(Top)].status \notin Terminal

\* An execution whose conditions and crashes are bounded ends.
Concludes == <>(pc \in {"done", "failed"})
=============================================================================
