---------------------------- MODULE ExecutionHistory ----------------------------
(***************************************************************************)
(* The history of an execution, as the local executor derives it from the  *)
(* record each time it is asked: one event per recorded update, events for *)
(* what the service did by itself, and one per completed invocation,       *)
(* sorted by time, numbered, and given out in pages.  And what readers     *)
(* make of the events: the operations, and the callback to answer.         *)
(*                                                                         *)
(* Payloads are left out; of an error only its presence is kept.           *)
(***************************************************************************)
EXTENDS Naturals, Sequences, FiniteSets, SequencesExt

CONSTANTS
  Ops,            \* operation ids
  Kind,           \* "step", "wait", "callback", "context" or "invoke", for each id
  MaxItems,       \* max_items of the reader
  MaxTime,        \* bound: the clock
  MaxUpdates,     \* bound: recorded updates
  MaxInvocations  \* bound: invocations

Kinds == {"step", "wait", "callback", "context", "invoke"}

ASSUME HistoryAssumption ==
  /\ IsFiniteSet(Ops) /\ {"execution", "none"} \cap Ops = {} /\ Kind \in [Ops -> Kinds]
  /\ MaxItems \in Nat \ {0} /\ {MaxTime, MaxUpdates, MaxInvocations} \subseteq Nat

VARIABLES
  clock,        \* the time of the execution's clock
  order,        \* execution.operations: the ids, as they were created
  ops,          \* the operations, with the invocation that created each one
  updates,      \* execution.updates with update_timestamps
  completions,  \* execution.invocation_completions: the end of each
  invocation,   \* the invocation under way
  reader        \* a client that reads the pages of the history

historyVars == <<clock, order, ops, updates, completions, invocation, reader>>

All == Ops \cup {"execution"}
KindOf(o) == IF o = "execution" THEN "execution" ELSE Kind[o]
NoTime == MaxTime + 1
Absent == [status |-> "absent", start |-> NoTime, end |-> NoTime, err |-> FALSE, by |-> 0]
EndStatuses == {"SUCCEEDED", "FAILED", "TIMED_OUT", "STOPPED", "CANCELLED"}

\* The EXECUTION operation of start_execution.
Launched == [Absent EXCEPT !.status = "STARTED", !.start = 0]

-----------------------------------------------------------------------------
\* The events of one operation.  An event type is the kind of the operation and what
\* happened to it; place is where the list that is sorted later has it: the part of the
\* list, the index in this part, and which of the events that are appended for it.

\* For each kind: the event type of a status.  Any other status raises.
ExecutionEvent ==
  [STARTED |-> "Started", SUCCEEDED |-> "Succeeded", FAILED |-> "Failed",
   TIMED_OUT |-> "TimedOut", STOPPED |-> "Stopped"]
ContextEvent == [STARTED |-> "Started", SUCCEEDED |-> "Succeeded", FAILED |-> "Failed"]
WaitEvent == [STARTED |-> "Started", SUCCEEDED |-> "Succeeded", CANCELLED |-> "Cancelled"]
StepEvent == [STARTED |-> "Started", SUCCEEDED |-> "Succeeded", FAILED |-> "Failed"]
ChainedInvokeEvent ==
  [PENDING |-> "Started", STARTED |-> "Started", SUCCEEDED |-> "Succeeded",
   FAILED |-> "Failed", TIMED_OUT |-> "TimedOut", STOPPED |-> "Stopped"]
CallbackEvent ==
  [STARTED |-> "Started", SUCCEEDED |-> "Succeeded", FAILED |-> "Failed",
   TIMED_OUT |-> "TimedOut"]

EventTypes ==
  [execution |-> ExecutionEvent, context |-> ContextEvent, wait |-> WaitEvent,
   step |-> StepEvent, invoke |-> ChainedInvokeEvent, callback |-> CallbackEvent]

Event(o, what, ts, err, attempt, place) ==
  [kind |-> KindOf(o), op |-> o, what |-> what, ts |-> ts, err |-> err,
   attempt |-> attempt, place |-> place]

\* create_event_started.
EventStarted(o, ts, place) == Event(o, EventTypes[KindOf(o)].STARTED, ts, FALSE, 0, place)

\* create_chained_invoke_event_pending: of the same type as the started event.
EventPending(o, ts, place) == Event(o, EventTypes[KindOf(o)].PENDING, ts, FALSE, 0, place)

\* create_event_terminated; only an update brings retry details.
EventTerminated(o, status, ts, err, attempt, place) ==
  Event(o, EventTypes[KindOf(o)][status], ts, err /\ status # "SUCCEEDED", attempt, place)

\* create_invocation_completed: first in the list.
InvocationCompleted(n) ==
  [kind |-> "invocation", op |-> "none", what |-> "Completed", ts |-> completions[n],
   err |-> FALSE, attempt |-> 0, place |-> <<0, n, 0>>]

-----------------------------------------------------------------------------
\* get_execution_history.

EndedEvent(o, place) ==
  IF ops[o].end # NoTime /\ ops[o].status \in EndStatuses
  THEN {EventTerminated(o, ops[o].status, ops[o].end, ops[o].err, 0, place)} ELSE {}

StartedEvent(o, place) ==
  IF ops[o].start # NoTime THEN {EventStarted(o, ops[o].start, place)} ELSE {}

\* The k-th operation, which no update names: from its snapshot.
SnapshotEvents(k) ==
  StartedEvent(order[k], <<1, k, 1>>) \cup EndedEvent(order[k], <<1, k, 2>>)

\* Without any update, what is pending has no event, but for a chained invoke.
LegacyEvents(k) ==
  LET o == order[k]
  IN IF ops[o].status # "PENDING" THEN SnapshotEvents(k)
     ELSE IF KindOf(o) = "invoke" /\ ops[o].start # NoTime
          THEN {EventPending(o, ops[o].start, <<1, k, 0>>)} \cup SnapshotEvents(k) ELSE {}

UpdatesOf(o) == {i \in DOMAIN updates : updates[i].op = o}

\* op_step_attempt when update i is told.
AttemptAt(i) ==
  LET starts == {j \in UpdatesOf(updates[i].op) : j <= i /\ updates[j].act = "START"}
  IN IF starts = {} THEN 1 ELSE Cardinality(starts)

\* One event per update; of a RETRY, by whether it carries an error.
UpdateEvent(i) ==
  LET u == updates[i]
      attempt == IF u.act = "SUCCEED" \/ KindOf(u.op) # "step" THEN 0 ELSE AttemptAt(i)
      status == CASE u.act = "SUCCEED" -> "SUCCEEDED" [] u.act = "FAIL" -> "FAILED"
                  [] u.act = "RETRY" -> IF u.err THEN "FAILED" ELSE "SUCCEEDED"
  IN IF u.act = "START"
     THEN IF KindOf(u.op) = "invoke" THEN EventPending(u.op, u.ts, <<2, i, 0>>)
                                     ELSE EventStarted(u.op, u.ts, <<2, i, 0>>)
     ELSE EventTerminated(u.op, status, u.ts, u.err, attempt, <<2, i, 0>>)

\* Mutant: what the service completed by itself is not told.
EndedByItselfNever(k) == {}

\* The k-th operation, a wait or a callback that was started by an update and completed
\* by the service.
EndedByItself(k) ==
  LET mine == UpdatesOf(order[k])
  IN IF \E i \in mine : /\ \A j \in mine : j <= i
                        /\ updates[i].act \in {"SUCCEED", "FAIL"}
     THEN {} ELSE EndedEvent(order[k], <<3, k, 0>>)

OperationEvents ==
  IF updates = <<>> THEN UNION {LegacyEvents(k) : k \in DOMAIN order}
  ELSE {UpdateEvent(i) : i \in DOMAIN updates}
         \cup UNION {IF UpdatesOf(order[k]) = {} THEN SnapshotEvents(k) ELSE EndedByItself(k) :
                       k \in DOMAIN order}

\* Mutant: the ends of the invocations come after what happened at the same time.
CompletionsLast ==
  {[InvocationCompleted(n) EXCEPT !.place = <<4, n, 0>>] : n \in DOMAIN completions}
    \cup OperationEvents

Events == {InvocationCompleted(n) : n \in DOMAIN completions} \cup OperationEvents

\* A stable sort by time.
Precedes(e, f) ==
  \/ e.ts < f.ts
  \/ e.ts = f.ts /\ e.place[1] < f.place[1]
  \/ e.ts = f.ts /\ e.place[1] = f.place[1] /\ e.place[2] < f.place[2]
  \/ e.ts = f.ts /\ e.place[1] = f.place[1] /\ e.place[2] = f.place[2] /\ e.place[3] < f.place[3]

Before(E, e) == {f \in E : Precedes(f, e)}

\* from_event_with_id: the position of an event is its id.
Position(E, e) == Cardinality(Before(E, e)) + 1

Sorted(E) ==
  LET position == [e \in E |-> Position(E, e)]
  IN [i \in 1..Cardinality(E) |-> CHOOSE e \in E : position[e] = i]

History == Sorted(Events)

\* Mutant: the marker is excluded in both directions.
PageAfterMarker(n, backwards, marker) ==
  LET from == IF marker = 0 THEN IF backwards THEN n ELSE 1
              ELSE IF backwards THEN marker - 1 ELSE marker + 1
      upto == IF backwards THEN IF from > MaxItems THEN from - MaxItems + 1 ELSE 1
              ELSE IF from + MaxItems - 1 < n THEN from + MaxItems - 1 ELSE n
  IN [ids |-> IF backwards THEN upto..from ELSE from..upto,
      next |-> IF backwards THEN IF upto > 1 THEN upto ELSE 0
               ELSE IF upto < n THEN upto + 1 ELSE 0]

\* Of n events, the ids of a page and the marker of the next one, 0 for none: forwards the
\* id the next page begins with, backwards the last id of this one.
Page(n, backwards, marker) ==
  LET from == IF marker = 0 THEN IF backwards THEN n ELSE 1
              ELSE IF backwards THEN marker - 1 ELSE marker
      upto == IF backwards THEN IF from > MaxItems THEN from - MaxItems + 1 ELSE 1
              ELSE IF from + MaxItems - 1 < n THEN from + MaxItems - 1 ELSE n
  IN [ids |-> IF backwards THEN upto..from ELSE from..upto,
      next |-> IF backwards THEN IF upto > 1 THEN upto ELSE 0
               ELSE IF upto < n THEN upto + 1 ELSE 0]

-----------------------------------------------------------------------------
\* What readers make of the events.

\* HISTORY_EVENT_TYPES: the statuses that events tell; a stopped invoke is not there.
StatusTold ==
  [Started |-> "STARTED", Succeeded |-> "SUCCEEDED", Failed |-> "FAILED",
   TimedOut |-> "TIMED_OUT", Stopped |-> "STOPPED", Cancelled |-> "CANCELLED"]

IsKnown(e) == ~(e.kind = "invoke" /\ e.what = "Stopped")

\* events_to_operations: the events of an operation merged into one; a later error
\* replaces an earlier one, which a success leaves.
EventsToOperations(events) ==
  LET about(o) == {i \in DOMAIN events : events[i].op = o}
      merged(mine) ==
        LET starts == {i \in mine : events[i].what = "Started"}
            tries == {i \in mine : events[i].attempt # 0}
        IN [status |-> StatusTold[events[Max(mine)].what],
            start |-> events[IF starts = {} THEN Min(mine) ELSE Max(starts)].ts,
            end |-> IF mine = starts THEN NoTime ELSE events[Max(mine \ starts)].ts,
            err |-> \E i \in mine : events[i].err /\ events[i].kind # "execution",
            attempt |-> IF tries = {} THEN 0 ELSE events[Max(tries)].attempt]
  IN [o \in {events[i].op : i \in DOMAIN events} \ {"none"} |-> merged(about(o))]

\* _is_callback_ready_for_response: an invocation was completed after the callback's start.
IsReady(events, i) == \E j \in (i + 1)..Len(events) : events[j].kind = "invocation"

\* _get_callback_id_from_events: the ids it takes for those of completed callbacks are
\* ids of events, which no start shares.
CallbackFrom(events, name) ==
  LET completed == {i \in DOMAIN events : events[i].kind = "callback" /\ events[i].what # "Started"}
      started == {i \in DOMAIN events : events[i].kind = "callback" /\ events[i].what = "Started"}
      named == {i \in started : events[i].op = name}
      active == {i \in started : i \notin completed /\ IsReady(events, i)}
  IN IF name # "none"
     THEN IF named = {} \/ ~IsReady(events, Min(named)) THEN "none" ELSE events[Min(named)].op
     ELSE IF active = {} THEN "none" ELSE events[Max(active)].op

-----------------------------------------------------------------------------
\* The execution.

NoInvocation == [phase |-> "idle", number |-> 0, end |-> NoTime]
NotReading ==
  [on |-> FALSE, backwards |-> FALSE, marker |-> 0, misled |-> FALSE, left |-> {}, got |-> {}]

\* The statuses that an operation of a record set up by hand has, with their ends.
SetUp(o) ==
  {s \in [status : DOMAIN EventTypes[KindOf(o)] \cup {"PENDING"}, start : {0, NoTime},
          end : {1, NoTime}, err : BOOLEAN, by : {0}] :
     /\ (s.status \in EndStatuses) <=> (s.end # NoTime)
     /\ s.start = NoTime => s.status = "PENDING"
     /\ s.status = "PENDING" => KindOf(o) \in {"step", "invoke"}
     /\ s.err => s.status \in {"FAILED", "TIMED_OUT", "STOPPED"}}

HistoryInit ==
  /\ clock = 0 /\ updates = <<>> /\ completions = <<>> /\ reader = NotReading
  /\ \/ /\ invocation = NoInvocation /\ order = <<"execution">>
        /\ ops = [o \in All |-> IF o = "execution" THEN Launched ELSE Absent]
     \/ /\ invocation = [NoInvocation EXCEPT !.phase = "none"] /\ order = SetToSeq(All)
        /\ ops \in [All -> UNION {SetUp(o) : o \in All}]
        /\ \A o \in All : ops[o] \in SetUp(o)

IsOpen == ops["execution"].status = "STARTED"

Tick ==
  /\ clock < MaxTime /\ clock' = clock + 1
  /\ UNCHANGED <<order, ops, updates, completions, invocation, reader>>

\* _begin_invocation.
BeginInvocation ==
  /\ invocation.phase = "idle" /\ IsOpen /\ invocation.number < MaxInvocations
  /\ invocation' = [phase |-> "running", number |-> invocation.number + 1, end |-> NoTime]
  /\ UNCHANGED <<clock, order, ops, updates, completions, reader>>

\* _invoke_handler takes the time of the end on its own thread.
EndInvocation ==
  /\ invocation.phase = "running"
  /\ invocation' = [invocation EXCEPT !.phase = "ending", !.end = clock]
  /\ UNCHANGED <<clock, order, ops, updates, completions, reader>>

\* _finish_invocation, later on the lane: record_invocation_completion.
RecordCompletion ==
  /\ invocation.phase = "ending"
  /\ completions' = Append(completions, invocation.end)
  /\ invocation' = [invocation EXCEPT !.phase = "idle", !.end = NoTime]
  /\ UNCHANGED <<clock, order, ops, updates, reader>>

\* What the SDK sends for an operation in a status.
Actions(o) ==
  CASE ops[o].status = "absent" -> {"START"}
    [] ops[o].status = "READY" -> {"START"}
    [] ops[o].status = "STARTED" /\ Kind[o] = "step" -> {"RETRY", "SUCCEED", "FAIL"}
    [] ops[o].status = "STARTED" /\ Kind[o] = "context" -> {"SUCCEED", "FAIL"}
    [] OTHER -> {}

StatusAfter == [START |-> "STARTED", RETRY |-> "PENDING", SUCCEED |-> "SUCCEEDED", FAIL |-> "FAILED"]

\* A checkpoint while the gate is open.  The clock need not advance between the updates
\* of a batch: all of them have one time.
Update(o) ==
  /\ invocation.phase \in {"running", "ending"} /\ IsOpen /\ Len(updates) < MaxUpdates
  /\ Kind[o] # "invoke"
  /\ \E act \in Actions(o), err \in BOOLEAN :
       /\ err => act \in {"RETRY", "FAIL"}
       /\ act = "FAIL" => err
       /\ updates' = Append(updates, [op |-> o, act |-> act, err |-> err, ts |-> clock])
       /\ ops' = [ops EXCEPT ![o] =
            [status |-> StatusAfter[act],
             start |-> IF @.start = NoTime THEN clock ELSE @.start,
             end |-> IF act \in {"SUCCEED", "FAIL"} THEN clock ELSE NoTime,
             err |-> err, by |-> IF @.by = 0 THEN invocation.number ELSE @.by]]
  /\ order' = IF ops[o].status = "absent" THEN Append(order, o) ELSE order
  /\ UNCHANGED <<clock, completions, invocation, reader>>

\* complete_wait, complete_retry and complete_callback_*.
CompleteByItself(o) ==
  /\ \/ /\ ops[o].status = "STARTED" /\ Kind[o] \in {"wait", "callback"}
        /\ \E status \in IF Kind[o] = "wait" THEN {"SUCCEEDED"}
                         ELSE {"SUCCEEDED", "FAILED", "TIMED_OUT"} :
             ops' = [ops EXCEPT ![o].status = status, ![o].end = clock,
                                ![o].err = status # "SUCCEEDED"]
     \/ /\ ops[o].status = "PENDING" /\ Kind[o] = "step"
        /\ \A i \in UpdatesOf(o) : updates[i].ts < clock
        /\ ops' = [ops EXCEPT ![o].status = "READY"]
  /\ Kind[o] # "callback" => IsOpen
  /\ invocation.phase # "none"
  /\ UNCHANGED <<clock, order, updates, completions, invocation, reader>>

\* _end_execution: by an answer, a timeout or a stop.
EndExecution ==
  /\ IsOpen /\ invocation.phase \notin {"none", "ending"}
  /\ \E status \in {"SUCCEEDED", "FAILED", "TIMED_OUT", "STOPPED"} :
       ops' = [ops EXCEPT !["execution"].status = status, !["execution"].end = clock,
                          !["execution"].err = status # "SUCCEEDED"]
  /\ UNCHANGED <<clock, order, updates, completions, invocation, reader>>

\* What the client may still expect of the history it began with, or has read of it, and
\* whether it was misled.  It forgets all else with the last page.
Take(r, marker) ==
  LET events == History
      page == Page(Len(events), r.backwards, marker)
      read == {events[i] : i \in page.ids}
      last == page.next = 0
      misled == \/ r.backwards /\ r.got \cap read # {}
                \/ ~r.backwards /\ last /\ ~(r.left \subseteq read)
  IN IF last THEN [NotReading EXCEPT !.misled = misled \/ r.misled]
     ELSE [on |-> TRUE, backwards |-> r.backwards, marker |-> page.next,
           misled |-> misled \/ r.misled,
           left |-> IF r.backwards THEN {} ELSE r.left \ read,
           got |-> IF r.backwards THEN r.got \cup read ELSE {}]

\* A client asks for the first page.
StartReading(backwards) ==
  /\ ~reader.on /\ Events # {}
  /\ reader' = Take([NotReading EXCEPT !.backwards = backwards,
                      !.left = IF backwards THEN {} ELSE Events], 0)
  /\ UNCHANGED <<clock, order, ops, updates, completions, invocation>>

\* And for the next one, of the history as it is then.
ReadOn ==
  /\ reader.on /\ reader' = Take(reader, reader.marker)
  /\ UNCHANGED <<clock, order, ops, updates, completions, invocation>>

HistoryNext ==
  \/ Tick \/ BeginInvocation \/ EndInvocation \/ RecordCompletion \/ EndExecution
  \/ \E o \in Ops : Update(o) \/ CompleteByItself(o)
  \/ \E backwards \in BOOLEAN : StartReading(backwards)
  \/ ReadOn

HistorySpec == HistoryInit /\ [][HistoryNext]_historyVars

-----------------------------------------------------------------------------
\* Each try of an operation is told by a start and an end, in this order: no end without
\* its start before it and no end told twice, whatever the updates and the service's own
\* completions did at the same time.  (A pending chained invoke is told twice to start.)
StartsAndEndsAlternate(events) ==
  \A o \in All :
    LET mine == {i \in DOMAIN events : events[i].op = o}
    IN ~(KindOf(o) = "invoke" /\ ops[o].status = "PENDING") =>
         \A i \in mine :
           (events[i].what = "Started") <=> (Cardinality({j \in mine : j <= i}) % 2 = 1)

\* Whoever rebuilds the operations from the events gets the outcome, the end and the error
\* of every operation that ended, and sees no end of one that runs: although the events
\* come from three places of the record and several may have one time.
HistoryTellsTheRecord ==
  LET events == History
      told == EventsToOperations(events)
  IN /\ StartsAndEndsAlternate(events)
     /\ (\A i \in DOMAIN events : IsKnown(events[i])) =>
          \A o \in All :
            /\ ops[o].status \in EndStatuses =>
                 /\ told[o].status = ops[o].status /\ told[o].end = ops[o].end
                 /\ ops[o].status = "FAILED" /\ o # "execution" => told[o].err = ops[o].err
            /\ ops[o].status = "STARTED" => told[o].status = "STARTED"
            /\ ops[o].status = "absent" => o \notin DOMAIN told

\* Pages that are read while the history grows, and while the end of an invocation is
\* recorded late, below events already read: forwards, nothing that was there is missed;
\* backwards, nothing is read twice.
PagesAreSafe == ~reader.misled

\* A callback is handed to whoever waits to answer it only after the invocation that made
\* it has ended, as _is_callback_ready_for_response concludes from the order of events.
CallbackIsGivenInTime ==
  LET events == History
  IN \A name \in Ops \cup {"none"} :
       LET c == CallbackFrom(events, name)
       IN c # "none" => \/ ops[c].by < invocation.number
                        \/ invocation.phase # "running"

\* The docstring of _get_callback_id_from_events: the id of a callback that has not completed.
OnlyOpenCallbacksAreGiven ==
  LET events == History
  IN \A name \in Ops \cup {"none"} :
       LET c == CallbackFrom(events, name) IN c # "none" => ops[c].status = "STARTED"
===============================================================================
