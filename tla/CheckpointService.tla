--------------------------- MODULE CheckpointService ---------------------------
(***************************************************************************)
(* The local checkpoint service: the record of one execution, the          *)
(* invocations that read it page by page and write it by checkpoints, and  *)
(* the service's own completions in between.                               *)
(*                                                                         *)
(* A task on the lane of the execution is one action.  A request may be    *)
(* lost, repeated or late and its reply may be lost; a reply that arrives  *)
(* is merged in the action that produced it, since the invocation does     *)
(* nothing before it and a reply in flight changes nothing.                *)
(***************************************************************************)
EXTENDS Naturals, Sequences, FiniteSets

CONSTANTS
  Ops,            \* operation ids
  Kind,           \* "step", "wait", "callback", "context" or "invoke", for each id
  Parent,         \* the id of the parent context, or "none"
  PageItems,      \* operations on a page
  Web,            \* TRUE: over HTTP, with the invocation gate; FALSE: in process
  ClientTokens,   \* whether a call carries a client token
  MaxBatch,       \* bound: updates of a call
  MaxInvocations, \* bound: invocations
  MaxCalls,       \* bound: calls of all invocations
  MaxLost         \* bound: requests sent again, and invocations given up

Kinds == {"step", "wait", "callback", "context", "invoke"}

ASSUME ServiceAssumption ==
  /\ Kind \in [Ops -> Kinds] /\ Parent \in [Ops -> Ops \cup {"none"}]
  /\ {PageItems, MaxInvocations, MaxBatch} \subseteq Nat \ {0}
  /\ {MaxCalls, MaxLost} \subseteq Nat
  /\ {Web, ClientTokens} \subseteq BOOLEAN

VARIABLES
  record,    \* the Execution: operations, sequences and token
  last,      \* last_checkpoint, the idempotency record
  gate,      \* the InvocationState of the execution's worker
  clients,   \* the invocations begun so far, each with what it knows
  wire,      \* checkpoint requests on their way
  calls,     \* calls made so far
  lost,      \* disturbances so far
  applied    \* history: the calls whose updates were applied, in order

vars == <<record, last, gate, clients, wire, calls, lost, applied>>

Terminal == {"SUCCEEDED", "FAILED", "TIMED_OUT", "CANCELLED"}

Init ==
  /\ record = [status |-> [o \in Ops |-> "absent"], order |-> <<>>,
               touched |-> [o \in Ops |-> 0], counter |-> 0, seen |-> 0,
               token |-> 0, inv |-> 0, closed |-> FALSE, updated |-> {}]
  /\ last = [call |-> 0, inv |-> 0, token |-> 0, out |-> 0, delta |-> {}]
  /\ gate = "PRE_INVOKE"
  /\ clients = <<>> /\ wire = {} /\ calls = 0 /\ lost = 0 /\ applied = <<>>

-----------------------------------------------------------------------------
\* The validators.

\* For each type: the statuses each action is accepted from.

StepTransitions ==
  [START |-> {"absent", "READY"}, RETRY |-> {"absent", "STARTED", "READY"},
   SUCCEED |-> {"absent", "STARTED", "READY"}, FAIL |-> {"absent", "STARTED", "READY"}]

ContextTransitions ==
  [START |-> {"absent"}, SUCCEED |-> {"absent", "STARTED"}, FAIL |-> {"absent", "STARTED"}]

\* Mutant: a wait can be cancelled after it has ended.
WaitTransitionsLate == [START |-> {"absent"}, CANCEL |-> {"STARTED", "SUCCEEDED"}]

WaitTransitions == [START |-> {"absent"}, CANCEL |-> {"STARTED"}]

InvokeTransitions == [START |-> {"absent"}, CANCEL |-> {"STARTED"}]

CallbackTransitions == [START |-> {"absent"}]

Accepted ==
  [step |-> StepTransitions, context |-> ContextTransitions, wait |-> WaitTransitions,
   invoke |-> InvokeTransitions, callback |-> CallbackTransitions]

\* An update: the id of an operation, or "execution" to close it, and an action.
Updates ==
  [op : {"execution"}, act : {"SUCCEED", "FAIL"}]
    \cup UNION {[op : {o}, act : DOMAIN Accepted[Kind[o]]] : o \in Ops}

Batches == UNION {[1..n -> Updates] : n \in 0..MaxBatch}

\* _validate_conflicting_execution_update: at most one, and the last.
ExecutionIsLast(batch) ==
  \A i \in DOMAIN batch : batch[i].op = "execution" => i = Len(batch)

\* _is_invalid_duplicate_update: only a step or a context twice, its START first.
IsInvalidDuplicate(batch, i) ==
  \E j \in 1..(i - 1) :
    /\ batch[j].op = batch[i].op
    /\ \A k \in (j + 1)..(i - 1) : batch[k].op # batch[i].op
    /\ ~(/\ Kind[batch[j].op] \in {"step", "context"}
         /\ batch[j].act = "START" /\ batch[i].act # "START")

\* _is_valid_parent_for_update: a context of the record, or started before.
IsValidParent(rec, batch, i) ==
  LET p == Parent[batch[i].op]
  IN p # "none" => /\ Kind[p] = "context"
                   /\ \/ rec.status[p] # "absent"
                      \/ \E j \in 1..(i - 1) : batch[j] = [op |-> p, act |-> "START"]

\* validate_input: every update against the record before the batch.
IsValid(rec, batch) ==
  /\ ExecutionIsLast(batch)
  /\ \A i \in DOMAIN batch : batch[i].op # "execution" =>
       /\ ~IsInvalidDuplicate(batch, i)
       /\ IsValidParent(rec, batch, i)
       /\ rec.status[batch[i].op] \in Accepted[Kind[batch[i].op]][batch[i].act]

-----------------------------------------------------------------------------
\* The processors and the record.

\* For each type: the status that an action leaves.  A chained invoke has no processor.
StepProcessor ==
  [START |-> "STARTED", RETRY |-> "PENDING", SUCCEED |-> "SUCCEEDED", FAIL |-> "FAILED"]
ContextProcessor == [START |-> "STARTED", SUCCEED |-> "SUCCEEDED", FAIL |-> "FAILED"]
WaitProcessor == [START |-> "STARTED", CANCEL |-> "CANCELLED"]
CallbackProcessor == [START |-> "STARTED"]
Processors ==
  [step |-> StepProcessor, context |-> ContextProcessor, wait |-> WaitProcessor,
   callback |-> CallbackProcessor]

\* touch_operation, with the new status of the operation.
Touch(rec, o, status) ==
  [rec EXCEPT !.status[o] = status, !.counter = @ + 1, !.touched[o] = rec.counter + 1]

\* The record has the operation.
IsListed(rec, o) == \E i \in DOMAIN rec.order : rec.order[i] = o

\* One update: its processor makes the operation anew.  EXECUTION leaves no operation.
Process(rec, u) ==
  IF u.op = "execution" THEN rec
  ELSE Touch([rec EXCEPT !.order = IF IsListed(rec, u.op) THEN @ ELSE Append(@, u.op)],
             u.op, Processors[Kind[u.op]][u.act])

\* The updates without a processor: the batch raises when their turn comes.
Unprocessed(batch) ==
  {i \in DOMAIN batch : batch[i].op # "execution" /\ Kind[batch[i].op] \notin DOMAIN Processors}

\* How many updates apply_updates gets through before it raises.
Processed(batch) ==
  LET raises == Unprocessed(batch)
  IN IF raises = {} THEN Len(batch)
     ELSE (CHOOSE i \in raises : \A j \in raises : i <= j) - 1

\* The record after the first updates of a batch: none, one, two ... n of them.
Stages(rec, batch, n) ==
  LET after[i \in 0..n] == IF i = 0 THEN rec ELSE Process(after[i - 1], batch[i])
  IN after

\* apply_updates up to where it raises.
Upserts(rec, batch) == Stages(rec, batch, Processed(batch))[Processed(batch)]

\* Mutant: the checkpoint leaves the token as it was.
AdvanceKeepingToken(rec) == rec.token

\* advance_token_sequence.
AdvanceToken(rec) == rec.token + 1

\* Operations as they go to an invocation, which keeps them by id: their order is left out.
Told(rec, ids) == {[op |-> o, status |-> rec.status[o]] : o \in ids}

\* unseen_operations: what was touched after the watermark, with its status.
Unseen(rec) == Told(rec, {o \in Ops : IsListed(rec, o) /\ rec.touched[o] > rec.seen})

\* CheckpointCore.apply: the updates, the token, the delta and its watermark;
\* apply_effects closes the execution after the save.
Committed(rec, batch) ==
  LET done == Upserts(rec, batch)
  IN [done EXCEPT !.token = AdvanceToken(rec), !.seen = done.counter,
        !.closed = \E i \in DOMAIN batch : batch[i].op = "execution"]

-----------------------------------------------------------------------------
\* The invocations.

\* fetch_paginated_operations and the merge of a checkpoint's reply.
Merge(view, delta) ==
  [o \in Ops |-> LET news == {d \in delta : d.op = o}
                 IN IF news = {} THEN view[o] ELSE (CHOOSE d \in news : TRUE).status]

\* page: the operations after the marker, and the marker of the next page.
Page(rec, from) ==
  LET upto == IF Len(rec.order) < from + PageItems THEN Len(rec.order) ELSE from + PageItems
  IN [ops |-> Told(rec, {rec.order[i] : i \in (from + 1)..upto}),
      next |-> IF upto = Len(rec.order) THEN 0 ELSE upto]

\* A client token is the number of its call; the request may be sent twice.
Request(inv, token, call, batch, copy) ==
  [inv |-> inv, token |-> token, call |-> call, batch |-> batch, copy |-> copy]
NoRequest == Request(0, 0, 0, <<>>, 0)

\* _begin_invocation with create_invocation_input: a new identity, the first page.
Begin ==
  /\ gate = "PRE_INVOKE" /\ ~record.closed /\ Len(clients) < MaxInvocations
  /\ LET page == Page(record, 0)
         inv == record.inv + 1
     IN /\ record' = [record EXCEPT !.inv = inv]
        /\ clients' = Append(clients,
             [phase |-> IF page.next = 0 THEN "idle" ELSE "paging",
              view |-> Merge([o \in Ops |-> "absent"], page.ops), next |-> page.next,
              token |-> record.token, request |-> NoRequest, news |-> record.updated])
  /\ gate' = "INVOKING"
  /\ UNCHANGED <<last, wire, calls, lost, applied>>

\* _is_current_token, and over HTTP the invocation gate.
MayWrite(inv, token) ==
  /\ ~record.closed /\ token = record.token /\ inv = record.inv
  /\ Web => gate = "INVOKING"

\* An invocation whose request was refused fails.
Failed(i) == [clients EXCEPT ![i].phase = "over"]

\* _get_execution_state over HTTP: the current token is also the marker's, which
\* holds the one it was pinned with; in process the whole list, whatever it asks.
FetchPage(i) ==
  /\ clients[i].phase = "paging"
  /\ LET c == clients[i]
         refused == Web /\ ~MayWrite(i, c.token)
         page == IF Web THEN Page(record, c.next)
                 ELSE [ops |-> Told(record, {o \in Ops : IsListed(record, o)}), next |-> 0]
     IN clients' = IF refused THEN Failed(i)
                   ELSE [clients EXCEPT ![i].view = Merge(@, page.ops), ![i].next = page.next,
                           ![i].phase = IF page.next = 0 THEN "idle" ELSE "paging"]
  /\ UNCHANGED <<record, last, gate, wire, calls, lost, applied>>

\* The checkpoint thread sends a batch.
Send(i, batch) ==
  /\ clients[i].phase = "idle" /\ calls < MaxCalls
  /\ calls' = calls + 1
  /\ LET r == Request(i, clients[i].token, calls + 1, batch, 1)
     IN /\ clients' = [clients EXCEPT ![i].phase = "calling", ![i].request = r]
        /\ wire' = wire \cup {r}
  /\ UNCHANGED <<record, last, gate, lost, applied>>

\* The client's HTTP layer sends the request again: the first may be lost, or late.
Resend(i) ==
  /\ clients[i].phase = "calling" /\ lost < MaxLost
  /\ lost' = lost + 1
  /\ wire' = wire \cup {[clients[i].request EXCEPT !.copy = 2]}
  /\ UNCHANGED <<record, last, gate, clients, calls, applied>>

\* match_cached: the last checkpoint, with the same client and inbound tokens.
IsCached(r) ==
  ClientTokens /\ last.call = r.call /\ last.inv = r.inv /\ last.token = r.token

AwaitsReply(r) == clients[r.inv].phase = "calling" /\ clients[r.inv].request.call = r.call

\* The reply reaches the invocation that still waits for it, or is lost.
Reply(r, token, delta) ==
  \/ UNCHANGED clients
  \/ /\ AwaitsReply(r)
     /\ clients' = [clients EXCEPT ![r.inv].phase = "idle", ![r.inv].token = token,
                      ![r.inv].view = Merge(@, delta)]

\* Mutant: a replay answers with what is unseen now.
ReplayDeltaNow == Unseen(record)

\* The operations of the cached reply.
ReplayDelta == last.delta

\* _maybe_replay_cached: the reply of the last checkpoint once more.
ServeCached(r) ==
  /\ IsCached(r)
  /\ wire' = wire \ {r}
  /\ Reply(r, last.out, ReplayDelta)
  /\ UNCHANGED <<record, last, gate, calls, lost, applied>>

\* A batch that passes the checks of the service and of the validators.
Admitted(r) == MayWrite(r.inv, r.token) /\ IsValid(record, r.batch)

\* A refusal fails the invocation.  What was applied in place before a missing
\* processor raised stays in the shared record.
ServeRefused(r) ==
  /\ ~IsCached(r)
  /\ ~Admitted(r) \/ Unprocessed(r.batch) # {}
  /\ wire' = wire \ {r}
  /\ record' = IF Admitted(r) THEN Upserts(record, r.batch) ELSE record
  /\ clients' = IF AwaitsReply(r) THEN Failed(r.inv) ELSE clients
  /\ UNCHANGED <<last, gate, calls, lost, applied>>

\* _checkpoint_execution and process_checkpoint: apply, save, remember the reply.
ServeCheckpoint(r) ==
  /\ ~IsCached(r) /\ Admitted(r) /\ Unprocessed(r.batch) = {}
  /\ wire' = wire \ {r}
  /\ record' = Committed(record, r.batch)
  /\ last' = [call |-> r.call, inv |-> r.inv, token |-> r.token, out |-> record'.token,
              delta |-> Unseen(Upserts(record, r.batch))]
  /\ Reply(r, last'.out, last'.delta)
  /\ applied' = Append(applied, r.call)
  /\ UNCHANGED <<gate, calls, lost>>

\* _finish_invocation, after the handler returned, failed, or was given up
\* while its process goes on.
Finish ==
  /\ gate = "INVOKING"
  /\ LET i == Len(clients)
     IN \/ /\ clients[i].phase \in {"idle", "over"}
           /\ clients' = Failed(i) /\ UNCHANGED lost
        \/ /\ clients[i].phase # "over" /\ lost < MaxLost /\ lost' = lost + 1
           /\ UNCHANGED clients
  /\ gate' = "PRE_INVOKE"
  /\ record' = [record EXCEPT !.updated = {}]
  /\ UNCHANGED <<last, wire, calls, applied>>

\* What the service may make of an operation: complete_wait and complete_retry
\* while the execution is open, complete_callback_* at any time.
Outcomes(o) ==
  CASE record.status[o] = "STARTED" /\ Kind[o] = "callback" -> {"SUCCEEDED", "FAILED", "TIMED_OUT"}
    [] record.status[o] = "STARTED" /\ Kind[o] = "wait" /\ ~record.closed -> {"SUCCEEDED"}
    [] record.status[o] = "PENDING" /\ Kind[o] = "step" /\ ~record.closed -> {"READY"}
    [] OTHER -> {}

\* Only waits and retries are noted as updated.
Complete(o) ==
  /\ \E status \in Outcomes(o) :
       record' = [Touch(record, o, status) EXCEPT
                    !.updated = IF Kind[o] = "callback" THEN @ ELSE @ \cup {o}]
  /\ UNCHANGED <<last, gate, clients, wire, calls, lost, applied>>

ClientStep ==
  \E i \in DOMAIN clients :
    FetchPage(i) \/ Resend(i) \/ \E batch \in Batches : Send(i, batch)

ServiceStep ==
  \E r \in wire : ServeCached(r) \/ ServeRefused(r) \/ ServeCheckpoint(r)

Next == Begin \/ Finish \/ ClientStep \/ ServiceStep \/ \E o \in Ops : Complete(o)

Spec == Init /\ [][Next]_vars

-----------------------------------------------------------------------------
\* Properties.

\* What an invocation knows and what the record holds have their types.
TypeOK ==
  /\ record.status \in [Ops -> {"absent", "STARTED", "PENDING", "READY"} \cup Terminal]
  /\ record.touched \in [Ops -> 0..record.counter] /\ record.seen \in 0..record.counter
  /\ record.updated \subseteq Ops /\ record.inv = Len(clients)
  /\ gate \in {"PRE_INVOKE", "INVOKING"}
  /\ \A i \in DOMAIN clients :
       clients[i].phase \in {"paging", "idle", "calling", "over"}

\* What the current invocation knows once it has read the reply it waits for.
Known ==
  LET c == clients[Len(clients)]
  IN IF c.phase = "calling" /\ last.call = c.request.call
     THEN Merge(c.view, last.delta) ELSE c.view

\* A change of the record that the running invocation does not know of is on a
\* page it has still to fetch, or will be in its next reply: neither paging, nor
\* a lost reply, nor a completion in between hides it (execution.py:659-681).
NothingHidden ==
  gate = "INVOKING" =>
    LET c == clients[Len(clients)]
    IN \A o \in Ops :
         \/ Known[o] = record.status[o]
         \/ record.touched[o] > record.seen
         \/ c.phase = "over"
         \/ c.phase = "paging" /\ \E i \in (c.next + 1)..Len(record.order) : record.order[i] = o

\* However often a request arrives, and however late, its updates are applied
\* once (core.py:52-75, token_sequence advanced once per checkpoint).
AppliedOnce == \A i, j \in DOMAIN applied : i # j => applied[i] # applied[j]

\* A terminal operation keeps its status, whatever batch, retry or completion
\* comes afterwards.
FinalStays ==
  [][\A o \in Ops : record.status[o] \in Terminal => record'.status[o] = record.status[o]]_vars

\* An operation that changes while the execution is suspended is announced to
\* the next invocation (state.py:464: "changed while this execution was suspended").
SuspendedChangesAreAnnounced ==
  [][gate = "PRE_INVOKE" =>
       {o \in Ops : record'.status[o] # record.status[o]} \subseteq record'.updated]_vars
==============================
