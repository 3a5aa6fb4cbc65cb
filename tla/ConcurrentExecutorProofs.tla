----------------------- MODULE ConcurrentExecutorProofs -----------------------
(***************************************************************************)
(* What a map or parallel decides and returns, for any number of branches  *)
(* and workers, every completion configuration and every way in which the  *)
(* branches may end.                                                       *)
(***************************************************************************)
EXTENDS ConcurrentExecutor, FiniteSetTheorems, TLAPS

CbSteps == {"none", "mark", "store", "count", "schedule", "check", "scan", "ended"}
\* The callback has recorded the outcome, and schedules no more.
Past == {"check", "scan", "ended"}

Types ==
  /\ status \in [Branches -> {"pending", "running", "completed", "failed", "timed", "suspended"}]
  /\ filled \in [Branches -> BOOLEAN]
  /\ submits \in [Branches -> 0 .. MaxResumes + 1]
  /\ task \in [Futures -> {"none", "queued", "running", "concluded", "done", "cancelled"}]
  /\ outcome \in [Futures -> OutcomeKinds \cup {"none", "orphaned"}]
  /\ hooked \in [Futures -> BOOLEAN]
  /\ saved \in [Branches -> {"none", "ok", "fail"}]
  /\ cb \in [Futures -> CbSteps] /\ cbBy \in [Futures -> Submitters \cup {"worker"}]
  /\ scanAt \in [Futures -> 1 .. N + 1] /\ scanFound \in [Futures -> BOOLEAN]
  /\ pool \in Seq(Futures) /\ heap \subseteq Branches
  /\ event \in BOOLEAN /\ suspendExc \in BOOLEAN
  /\ todo \in [Submitters -> Seq(Branches)]
  /\ step \in [Submitters -> {"submit", "run", "hook", "inline"}]
  /\ readAt \in 1 .. N + 1 /\ items \in [Branches -> {"none", "ok", "fail", "started"}]

\* The last future of a branch.
Last(b) == <<b, submits[b]>>

\* Callback and task of a future go together.
Callbacks ==
  \A f \in Futures :
    /\ cb[f] # "none" <=> hooked[f] /\ task[f] \in {"done", "cancelled"}
    /\ task[f] = "cancelled" => cb[f] \in {"none", "mark", "ended"}
    /\ cb[f] \in {"store", "count"} => outcome[f] \in {"ok", "fail"}
    /\ cb[f] = "schedule" => outcome[f] = "timed"
    /\ cb[f] \in {"check", "scan"} => outcome[f] \in {"ok", "fail", "timed", "suspended"}
    /\ outcome[f] # "none" <=> task[f] \in {"concluded", "done"}
    /\ outcome[f] = "timed" => f[2] <= MaxResumes

\* A branch is submitted again only after a timed suspension that its callback has recorded.
OneByOne ==
  \A f \in Futures :
    /\ f[2] > submits[f[1]] <=> task[f] = "none"
    /\ f[2] < submits[f[1]] => outcome[f] = "timed" /\ cb[f] \in Past
    /\ task[f] = "none" => ~hooked[f]

\* The status that the last future leaves its branch with.
StatusAfter(f, s) ==
  /\ cb[f] = "none" => s = "running" \/ (s = "pending" /\ ~hooked[f])
  /\ cb[f] = "mark" => s = "running"
  /\ cb[f] = "schedule" => s = "timed"
  /\ cb[f] \in {"store", "count"} \cup Past =>
       /\ outcome[f] = "ok" => s = "completed"
       /\ outcome[f] = "fail" => s = "failed"
  /\ cb[f] \in Past =>
       /\ outcome[f] = "timed" => s \in {"timed", "pending"}
       /\ outcome[f] = "suspended" \/ task[f] = "cancelled" => s = "suspended"
       /\ outcome[f] \in {"background", "orphaned"} => s = "running"

StatusFollows ==
  \A b \in Branches :
    IF submits[b] = 0 THEN status[b] = "pending" ELSE StatusAfter(Last(b), status[b])

\* A branch whose last future has suspended it for a time, and is done with it.
Resumable(b) == submits[b] > 0 /\ outcome[Last(b)] = "timed" /\ cb[Last(b)] \in Past

\* The branches that s has still to submit.
Waiting(s) == {b \in Branches : \E i \in 1 .. Len(todo[s]) :
                                  todo[s][i] = b /\ (i = 1 => step[s] = "submit")}

\* Where a branch is: in the heap, in the hands of the parent, or of the timer.
Places ==
  /\ \A b \in heap : Resumable(b) /\ status[b] = "timed"
  /\ \A b \in Waiting("timer") : Resumable(b) /\ status[b] = "pending"
  /\ \A b \in Waiting("parent") : submits[b] = 0
  /\ \A s \in Submitters : step[s] \in {"run", "hook"} =>
       /\ submits[Head(todo[s])] > 0 /\ ~hooked[Last(Head(todo[s]))]
       /\ s = "parent" <=> submits[Head(todo[s])] = 1
       /\ status[Head(todo[s])] = IF step[s] = "run" THEN "pending" ELSE "running"

\* The lists of the two submitters.
Lists ==
  /\ \A s \in Submitters :
       /\ step[s] # "submit" => todo[s] # <<>>
       /\ \A i, j \in 1 .. Len(todo[s]) : todo[s][i] = todo[s][j] => i = j
  /\ timer \in {"polling", "popping"} => todo["timer"] = <<>>
  /\ timer \notin {"submitting", "dead"} => step["timer"] = "submit"

\* The branches a scan has passed have been in no condition to make progress.
Scans ==
  /\ over \in [Futures -> SUBSET Branches]
  /\ \A f \in Futures :
       /\ cb[f] \notin {"scan", "ended"} => scanAt[f] = 1
       /\ \A b \in over[f] : cb[f] = "scan" /\ b >= scanAt[f]

Tracked == Types /\ Callbacks /\ OneByOne /\ StatusFollows /\ Places /\ Lists

\* The checkpoint of a branch follows its outcome, and its item its status.
Durable ==
  /\ ~Flat => \A b \in Branches : submits[b] > 0 /\ outcome[Last(b)] \in {"ok", "fail"}
                                    => saved[b] = outcome[Last(b)]
  /\ \A b \in Branches : items[b] = "ok" => status[b] = "completed"
  /\ \A b \in Branches : items[b] = "fail" => status[b] = "failed"
  /\ \A b \in Branches : b < readAt => items[b] # "none"
  /\ parent = "closed" => readAt > N

\* The branches whose callback has counted the outcome o.
Counted(o) == {b \in Branches : submits[b] > 0 /\ outcome[Last(b)] = o /\ cb[Last(b)] \in Past}

\* The branches on which a decision rests are in the result as far as it has been read.
Rests(A, B) ==
  /\ A \subseteq Counted("ok") /\ B \subseteq Counted("fail")
  /\ ShouldComplete(Config, N, Cardinality(A), Cardinality(B))
  /\ \A b \in A : b < readAt => items[b] = "ok"
  /\ \A b \in B : b < readAt => items[b] = "fail"

Decisions ==
  /\ succ = Cardinality(Counted("ok")) /\ fails = Cardinality(Counted("fail"))
  /\ parent \in {"submitting", "waiting", "deciding", "stopping"} => readAt = 1
  /\ event => suspendExc \/ ShouldComplete(Config, N, succ, fails)
  /\ parent = "deciding" => event
  /\ parent \in {"stopping", "reading", "closed"} =>
       \E A, B \in SUBSET Branches : Rests(A, B)

-----------------------------------------------------------------------------
(* Futures *)

LEMMA FutureFacts ==
  ASSUME Types
  PROVE  /\ N \in Nat /\ MaxResumes \in Nat
         /\ \A f \in Futures : f[1] \in Branches /\ f[2] \in Nat /\ f[2] > 0
                                 /\ f = <<f[1], f[2]>> /\ f[2] <= MaxResumes + 1
         /\ \A b \in Branches : submits[b] \in Nat /\ submits[b] <= MaxResumes + 1
         /\ \A b \in Branches : /\ Last(b)[1] = b /\ Last(b)[2] = submits[b]
                                /\ submits[b] > 0 => Last(b) \in Futures
         /\ \A f \in Futures : f[2] = submits[f[1]] => f = Last(f[1]) /\ submits[f[1]] > 0
<1>1. N \in Nat /\ MaxResumes \in Nat
  BY ExecutorAssumption
<1>2. \A f \in Futures : f[1] \in Branches /\ f[2] \in Nat /\ f[2] > 0
                           /\ f = <<f[1], f[2]>> /\ f[2] <= MaxResumes + 1
  BY <1>1 DEF Futures, Branches
<1>3. \A b \in Branches : submits[b] \in Nat /\ submits[b] <= MaxResumes + 1
  BY <1>1 DEF Types
<1>4. \A b \in Branches : /\ Last(b)[1] = b /\ Last(b)[2] = submits[b]
                          /\ submits[b] > 0 => Last(b) \in Futures
  BY <1>1, <1>3 DEF Futures, Last
<1>5. \A f \in Futures : f[2] = submits[f[1]] => f = Last(f[1]) /\ submits[f[1]] > 0
  BY <1>2 DEF Last
<1> QED
  BY <1>1, <1>2, <1>3, <1>4, <1>5

\* A future that has begun and is not over with its callback is the last of its branch.
LEMMA Current ==
  ASSUME Types, OneByOne, NEW f \in Futures, task[f] # "none", cb[f] \notin Past
  PROVE  f = Last(f[1]) /\ f[2] = submits[f[1]] /\ submits[f[1]] > 0 /\ f[1] \in Branches
<1>1. ~(f[2] > submits[f[1]]) /\ ~(f[2] < submits[f[1]])
  BY DEF OneByOne
<1> QED
  BY <1>1, FutureFacts

\* Every future of a branch other than the last is past a timed suspension.
LEMMA OthersAreOver ==
  ASSUME Types, Callbacks, OneByOne, NEW f \in Futures, task[f] # "none", f # Last(f[1])
  PROVE  outcome[f] = "timed" /\ cb[f] \in Past /\ task[f] \in {"concluded", "done"}
<1>1. f[2] < submits[f[1]]
  BY FutureFacts DEF OneByOne
<1> QED
  BY <1>1 DEF OneByOne, Callbacks

-----------------------------------------------------------------------------
(* The done-callbacks *)

\* A callback that records the outcome: of all branches it moves only its own.
LEMMA RecordKeeps ==
  ASSUME Tracked, Types', NEW f \in Futures,
         cb[f] \in {"mark", "store", "count", "schedule"},
         NEW to \in {"store", "count", "schedule", "check", "ended"},
         cb' = [cb EXCEPT ![f] = to],
         \A b \in Branches : b # f[1] => status'[b] = status[b],
         task[f] = "cancelled" => to = "ended",
         to \in {"store", "count"} => outcome[f] \in {"ok", "fail"},
         to = "schedule" => outcome[f] = "timed",
         to = "check" => outcome[f] \in {"ok", "fail", "timed", "suspended"},
         StatusAfter(f, status[f[1]])',
         heap' \in {heap, heap \cup {f[1]}},
         heap' # heap => to = "check" /\ outcome[f] = "timed" /\ status'[f[1]] = "timed",
         UNCHANGED <<task, outcome, hooked, submits, todo, step>>
  PROVE  Callbacks' /\ OneByOne' /\ StatusFollows' /\ Places'
<1> USE DEF Past
<1>1. /\ Types /\ Callbacks /\ OneByOne /\ StatusFollows /\ Places /\ Lists
      /\ cb \in [Futures -> CbSteps]
  BY DEF Tracked, Types
<1>2. /\ cb'[f] = to /\ \A g \in Futures : g # f => cb'[g] = cb[g]
      /\ cb[f] # "none" /\ cb[f] \notin Past /\ to # "none"
  BY <1>1
<1>3. task[f] \in {"done", "cancelled"} /\ hooked[f]
  BY <1>1, <1>2 DEF Callbacks
<1>4. f = Last(f[1]) /\ submits[f[1]] > 0 /\ f[1] \in Branches /\ f[2] = submits[f[1]]
  BY <1>1, <1>2, <1>3, Current
<1>5. \A b \in Branches : Last(b)' = Last(b) /\ (b # f[1] => Last(b) # f)
  BY <1>1, FutureFacts DEF Last
<1>6. Callbacks'
  BY <1>1, <1>2 DEF Callbacks
<1>7. OneByOne'
  BY <1>1, <1>2, <1>4 DEF OneByOne
<1>8. StatusFollows'
  <2> SUFFICES ASSUME NEW b \in Branches, submits[b] > 0
               PROVE  StatusAfter(Last(b), status[b])'
    BY <1>1, <1>4 DEF StatusFollows, Types
  <2>1. CASE b = f[1]
    BY <2>1, <1>4, <1>5
  <2>2. CASE b # f[1]
    <3>1. Last(b) \in Futures /\ Last(b) # f /\ Last(b)' = Last(b) /\ status'[b] = status[b]
      BY <2>2, <1>1, <1>5, FutureFacts
    <3>2. StatusAfter(Last(b), status[b])
      BY <1>1 DEF StatusFollows, Types
    <3> QED
      BY <3>1, <3>2, <1>2 DEF StatusAfter
  <2> QED
    BY <2>1, <2>2
<1>9. Places'
  <2>1. \A b \in Branches : Resumable(b) => b # f[1] /\ Resumable(b)' /\ status'[b] = status[b]
    <3> SUFFICES ASSUME NEW b \in Branches, Resumable(b)
                 PROVE  b # f[1] /\ Resumable(b)' /\ status'[b] = status[b]
      OBVIOUS
    <3>1. Last(b) \in Futures /\ cb[Last(b)] \in Past
      BY <1>1, FutureFacts DEF Resumable
    <3>2. b # f[1]
      BY <3>1, <1>2, <1>4
    <3> QED
      BY <3>1, <3>2, <1>2, <1>5 DEF Resumable
  <2>2. Waiting("timer")' = Waiting("timer") /\ Waiting("parent")' = Waiting("parent")
    BY DEF Waiting
  <2>3. \A b \in heap' : Resumable(b)' /\ status'[b] = "timed"
    <3>1. \A b \in heap : b \in Branches /\ Resumable(b) /\ status[b] = "timed"
      BY <1>1 DEF Places, Types
    <3>2. heap' # heap => Resumable(f[1])' /\ status'[f[1]] = "timed"
      BY <1>2, <1>4, <1>5 DEF Resumable
    <3> QED
      BY <2>1, <3>1, <3>2
  <2>4. \A b \in Waiting("timer") : Resumable(b)' /\ status'[b] = "pending"
    BY <2>1, <1>1 DEF Places, Waiting
  <2>5. \A b \in Waiting("parent") : submits[b] = 0
    BY <1>1 DEF Places
  <2>6. ASSUME NEW s \in Submitters, step[s] \in {"run", "hook"}
        PROVE  /\ submits[Head(todo[s])] > 0 /\ ~hooked[Last(Head(todo[s]))]
               /\ s = "parent" <=> submits[Head(todo[s])] = 1
               /\ status'[Head(todo[s])] = IF step[s] = "run" THEN "pending" ELSE "running"
               /\ Head(todo[s]) \in Branches
    <3>1. Head(todo[s]) \in Branches
      BY <2>6, <1>1 DEF Lists, Types
    <3>2. Head(todo[s]) # f[1]
      BY <2>6, <3>1, <1>1, <1>3, <1>4 DEF Places
    <3> QED
      BY <2>6, <3>1, <3>2, <1>1 DEF Places
  <2> QED
    BY <2>2, <2>3, <2>4, <2>5, <2>6, <1>5 DEF Places
<1> QED
  BY <1>6, <1>7, <1>8, <1>9

\* A callback that only decides changes nothing that the branches depend on.
LEMMA PastKeeps ==
  ASSUME Tracked, Types', NEW f \in Futures, cb[f] \in {"check", "scan"},
         NEW to \in {"check", "scan", "ended"},
         cb' = [cb EXCEPT ![f] = to],
         UNCHANGED <<status, task, outcome, hooked, submits, todo, step, heap>>
  PROVE  Callbacks' /\ OneByOne' /\ StatusFollows' /\ Places'
<1> USE DEF Past
<1>1. /\ Types /\ Callbacks /\ OneByOne /\ StatusFollows /\ Places
      /\ cb \in [Futures -> CbSteps]
  BY DEF Tracked, Types
<1>2. /\ cb'[f] = to /\ \A g \in Futures : g # f => cb'[g] = cb[g]
      /\ \A g \in Futures : cb[g] \in Past <=> cb'[g] \in Past
      /\ \A g \in Futures : cb[g] \notin Past => cb'[g] = cb[g]
  BY <1>1
<1>3. \A b \in Branches : Last(b)' = Last(b) /\ (submits[b] > 0 => Last(b) \in Futures)
  BY <1>1, FutureFacts DEF Last
<1>4. Callbacks'
  BY <1>1, <1>2 DEF Callbacks
<1>5. OneByOne'
  BY <1>1, <1>2 DEF OneByOne
<1>6. StatusFollows'
  <2> SUFFICES ASSUME NEW b \in Branches, submits[b] > 0
               PROVE  StatusAfter(Last(b), status[b])'
    BY <1>1 DEF StatusFollows, Types
  <2>1. StatusAfter(Last(b), status[b])
    BY <1>1 DEF StatusFollows, Types
  <2> QED
    BY <2>1, <1>2, <1>3 DEF StatusAfter
<1>7. Places'
  <2>1. \A b \in Branches : Resumable(b) => Resumable(b)'
    BY <1>2, <1>3 DEF Resumable
  <2>2. Waiting("timer")' = Waiting("timer") /\ Waiting("parent")' = Waiting("parent")
    BY DEF Waiting
  <2>3. heap \subseteq Branches /\ Waiting("timer") \subseteq Branches
    BY <1>1 DEF Types, Waiting
  <2>4. \A s \in Submitters : Last(Head(todo[s]))' = Last(Head(todo[s]))
    BY DEF Last
  <2> QED
    BY <1>1, <2>1, <2>2, <2>3, <2>4 DEF Places
<1> QED
  BY <1>4, <1>5, <1>6, <1>7

LEMMA MarkKeeps == ASSUME Tracked, NEW f \in Futures, Mark(f) PROVE Tracked'
<1> USE DEF vars, taskVars, poolVars, sharedVars, timerVars, submitVars, parentVars, CbGoto
<1>0. Types /\ Callbacks /\ OneByOne /\ StatusFollows /\ Lists /\ f[1] \in Branches
  BY FutureFacts DEF Tracked
<1>1. cb[f] = "mark" /\ task[f] = "done"
  BY DEF Mark
<1>2. status[f[1]] = "running"
  <2>1. f = Last(f[1]) /\ submits[f[1]] > 0
    BY <1>0, <1>1, Current DEF Past
  <2> QED
    BY <2>1, <1>0, <1>1 DEF StatusFollows, StatusAfter
<1>3. Types'
  BY <1>0 DEF Mark, Types, CbSteps
<1>4. Lists'
  BY <1>0 DEF Mark, Lists
<1>4a. /\ \A b \in Branches : b # f[1] => status'[b] = status[b]
      /\ UNCHANGED <<task, outcome, hooked, submits, todo, step>>
      /\ heap' = heap
  BY <1>0 DEF Mark, Types
<1>5. Callbacks' /\ OneByOne' /\ StatusFollows' /\ Places'
  <2>1. CASE outcome[f] = "ok"
    <3>1. cb' = [cb EXCEPT ![f] = "store"] /\ status'[f[1]] = "completed"
      BY <2>1, <1>0, <1>1, <1>2 DEF Mark, Types
    <3>2. StatusAfter(f, status[f[1]])'
      BY <2>1, <3>1, <1>0, <1>1, <1>4a DEF StatusAfter, Past, Types
    <3> QED
      BY <2>1, <3>1, <3>2, <1>1, <1>3, <1>4a, RecordKeeps
  <2>2. CASE outcome[f] = "fail"
    <3>1. cb' = [cb EXCEPT ![f] = "store"] /\ status'[f[1]] = "failed"
      BY <2>2, <1>0, <1>1, <1>2 DEF Mark, Types
    <3>2. StatusAfter(f, status[f[1]])'
      BY <2>2, <3>1, <1>0, <1>1, <1>4a DEF StatusAfter, Past, Types
    <3> QED
      BY <2>2, <3>1, <3>2, <1>1, <1>3, <1>4a, RecordKeeps
  <2>3. CASE outcome[f] = "timed"
    <3>1. cb' = [cb EXCEPT ![f] = "schedule"] /\ status'[f[1]] = "timed"
      BY <2>3, <1>0, <1>1, <1>2 DEF Mark, Types
    <3>2. StatusAfter(f, status[f[1]])'
      BY <2>3, <3>1, <1>0, <1>1, <1>4a DEF StatusAfter, Past, Types
    <3> QED
      BY <2>3, <3>1, <3>2, <1>1, <1>3, <1>4a, RecordKeeps
  <2>4. CASE outcome[f] = "suspended"
    <3>1. cb' = [cb EXCEPT ![f] = "check"] /\ status'[f[1]] = "suspended"
      BY <2>4, <1>0, <1>1, <1>2 DEF Mark, Types
    <3>2. StatusAfter(f, status[f[1]])'
      BY <2>4, <3>1, <1>0, <1>1, <1>4a DEF StatusAfter, Past, Types
    <3> QED
      BY <2>4, <3>1, <3>2, <1>1, <1>3, <1>4a, RecordKeeps
  <2>5. CASE outcome[f] = "orphaned"
    <3>1. cb' = [cb EXCEPT ![f] = "ended"] /\ status'[f[1]] = "running"
      BY <2>5, <1>0, <1>1, <1>2 DEF Mark, Types
    <3>2. StatusAfter(f, status[f[1]])'
      BY <2>5, <3>1, <1>0, <1>1, <1>4a DEF StatusAfter, Past, Types
    <3> QED
      BY <2>5, <3>1, <3>2, <1>1, <1>3, <1>4a, RecordKeeps
  <2> QED
    BY <2>1, <2>2, <2>3, <2>4, <2>5 DEF Mark
<1> QED
  BY <1>3, <1>4, <1>5 DEF Tracked

LEMMA MarkCancelledKeeps == ASSUME Tracked, NEW f \in Futures, MarkCancelled(f) PROVE Tracked'
<1> USE DEF taskVars, poolVars, sharedVars, timerVars, submitVars, parentVars, CbGoto
<1>0. Types /\ Callbacks /\ Lists /\ f[1] \in Branches
  BY FutureFacts DEF Tracked
<1>1. /\ cb[f] = "mark" /\ task[f] = "cancelled" /\ cb' = [cb EXCEPT ![f] = "ended"]
      /\ status' = [status EXCEPT ![f[1]] = "suspended"]
  BY DEF MarkCancelled
<1>3. Types'
  BY <1>0 DEF MarkCancelled, Types, CbSteps
<1>4. Lists'
  BY <1>0 DEF MarkCancelled, Lists
<1>4a. /\ \A b \in Branches : b # f[1] => status'[b] = status[b]
      /\ UNCHANGED <<task, outcome, hooked, submits, todo, step>>
      /\ heap' = heap
  BY <1>0 DEF MarkCancelled, Types
<1>5. Callbacks' /\ OneByOne' /\ StatusFollows' /\ Places'
  <2>1. outcome[f] = "none"
    BY <1>0, <1>1 DEF Callbacks
  <2>2. StatusAfter(f, status[f[1]])'
    BY <2>1, <1>0, <1>1 DEF MarkCancelled, StatusAfter, Past, Types
  <2> QED
    BY <2>2, <1>0, <1>1, <1>3, <1>4a, RecordKeeps
<1> QED
  BY <1>3, <1>4, <1>5 DEF Tracked

LEMMA EscapeKeeps == ASSUME Tracked, NEW f \in Futures, Escape(f) PROVE Tracked'
<1> USE DEF branchVars, taskVars, sharedVars, submitVars, CbGoto
<1>0. Types /\ Callbacks /\ OneByOne /\ StatusFollows /\ Lists /\ f[1] \in Branches
  BY FutureFacts DEF Tracked
<1>1. /\ cb[f] = "mark" /\ task[f] = "done" /\ outcome[f] = "background"
      /\ cb' = [cb EXCEPT ![f] = "ended"]
  BY DEF Escape
<1>2. status[f[1]] = "running"
  <2>1. f = Last(f[1]) /\ submits[f[1]] > 0
    BY <1>0, <1>1, Current DEF Past
  <2> QED
    BY <2>1, <1>0, <1>1 DEF StatusFollows, StatusAfter
<1>3. Types'
  BY <1>0 DEF Escape, Types, CbSteps
<1>4. Lists'
  BY <1>0 DEF Escape, Lists
<1>4a. /\ \A b \in Branches : b # f[1] => status'[b] = status[b]
      /\ UNCHANGED <<task, outcome, hooked, submits, todo, step>>
      /\ heap' = heap
  BY <1>0 DEF Escape, Types
<1>5. Callbacks' /\ OneByOne' /\ StatusFollows' /\ Places'
  <2>2. StatusAfter(f, status[f[1]])'
    BY <1>0, <1>1, <1>2 DEF Escape, StatusAfter, Past, Types
  <2> QED
    BY <2>2, <1>0, <1>1, <1>2, <1>3, <1>4a, RecordKeeps
<1> QED
  BY <1>3, <1>4, <1>5 DEF Tracked

LEMMA StoreKeeps == ASSUME Tracked, NEW f \in Futures, Store(f) PROVE Tracked'
<1> USE DEF taskVars, poolVars, sharedVars, timerVars, submitVars, parentVars, CbGoto
<1>0. Types /\ Callbacks /\ OneByOne /\ StatusFollows /\ Lists /\ f[1] \in Branches
  BY FutureFacts DEF Tracked
<1>1. cb[f] = "store" /\ cb' = [cb EXCEPT ![f] = "count"]
  BY DEF Store
<1>2. task[f] = "done" /\ outcome[f] \in {"ok", "fail"}
  BY <1>0, <1>1 DEF Callbacks
<1>3. Types'
  BY <1>0 DEF Store, Types, CbSteps
<1>4. Lists'
  BY <1>0 DEF Store, Lists
<1>4a. /\ \A b \in Branches : b # f[1] => status'[b] = status[b]
      /\ UNCHANGED <<task, outcome, hooked, submits, todo, step>>
      /\ heap' = heap
  BY <1>0 DEF Store, Types
<1>5. Callbacks' /\ OneByOne' /\ StatusFollows' /\ Places'
  <2>1. f = Last(f[1]) /\ submits[f[1]] > 0
    BY <1>0, <1>1, <1>2, Current DEF Past
  <2>2. StatusAfter(f, status[f[1]])
    BY <2>1, <1>0 DEF StatusFollows
  <2>3. StatusAfter(f, status[f[1]])'
    BY <2>2, <1>0, <1>1, <1>2 DEF Store, StatusAfter, Past, Types
  <2> QED
    BY <2>3, <1>0, <1>1, <1>2, <1>3, <1>4a, RecordKeeps
<1> QED
  BY <1>3, <1>4, <1>5 DEF Tracked

LEMMA CountKeeps == ASSUME Tracked, NEW f \in Futures, Count(f) PROVE Tracked'
<1> USE DEF branchVars, taskVars, poolVars, timerVars, submitVars, parentVars, CbGoto
<1>0. Types /\ Callbacks /\ OneByOne /\ StatusFollows /\ Lists /\ f[1] \in Branches
  BY FutureFacts DEF Tracked
<1>1. cb[f] = "count" /\ cb' = [cb EXCEPT ![f] = "check"]
  BY DEF Count
<1>2. task[f] = "done" /\ outcome[f] \in {"ok", "fail"}
  BY <1>0, <1>1 DEF Callbacks
<1>3. Types'
  BY <1>0 DEF Count, Types, CbSteps
<1>4. Lists'
  BY <1>0 DEF Count, Lists
<1>4a. /\ \A b \in Branches : b # f[1] => status'[b] = status[b]
      /\ UNCHANGED <<task, outcome, hooked, submits, todo, step>>
      /\ heap' = heap
  BY <1>0 DEF Count, Types
<1>5. Callbacks' /\ OneByOne' /\ StatusFollows' /\ Places'
  <2>1. f = Last(f[1]) /\ submits[f[1]] > 0
    BY <1>0, <1>1, <1>2, Current DEF Past
  <2>2. StatusAfter(f, status[f[1]])
    BY <2>1, <1>0 DEF StatusFollows
  <2>3. StatusAfter(f, status[f[1]])'
    BY <2>2, <1>0, <1>1, <1>2 DEF Count, StatusAfter, Past, Types
  <2> QED
    BY <2>3, <1>0, <1>1, <1>2, <1>3, <1>4a, RecordKeeps
<1> QED
  BY <1>3, <1>4, <1>5 DEF Tracked

LEMMA ScheduleKeeps == ASSUME Tracked, NEW f \in Futures, Schedule(f) PROVE Tracked'
<1> USE DEF branchVars, taskVars, poolVars, sharedVars, submitVars, parentVars, CbGoto
<1>0. Types /\ Callbacks /\ OneByOne /\ StatusFollows /\ Lists /\ f[1] \in Branches
  BY FutureFacts DEF Tracked
<1>1. /\ cb[f] = "schedule" /\ cb' = [cb EXCEPT ![f] = "check"]
      /\ heap' = heap \cup {f[1]}
  BY DEF Schedule
<1>2. task[f] = "done" /\ outcome[f] = "timed"
  BY <1>0, <1>1 DEF Callbacks
<1>3. Types'
  BY <1>0 DEF Schedule, Types, CbSteps
<1>4. Lists'
  BY <1>0 DEF Schedule, Lists
<1>4a. /\ \A b \in Branches : b # f[1] => status'[b] = status[b]
      /\ UNCHANGED <<task, outcome, hooked, submits, todo, step>>
      /\ heap' = heap \cup {f[1]}
  BY <1>0 DEF Schedule, Types
<1>5. Callbacks' /\ OneByOne' /\ StatusFollows' /\ Places'
  <2>1. f = Last(f[1]) /\ submits[f[1]] > 0
    BY <1>0, <1>1, <1>2, Current DEF Past
  <2>2. status[f[1]] = "timed"
    BY <2>1, <1>0, <1>1 DEF StatusFollows, StatusAfter
  <2>3. StatusAfter(f, status[f[1]])' /\ status'[f[1]] = "timed"
    BY <2>2, <1>0, <1>1, <1>2 DEF Schedule, StatusAfter, Past, Types
  <2> QED
    BY <2>2, <2>3, <1>0, <1>1, <1>2, <1>3, <1>4a, RecordKeeps
<1> QED
  BY <1>3, <1>4, <1>5 DEF Tracked

LEMMA CheckKeeps == ASSUME Tracked, NEW f \in Futures, Check(f) PROVE Tracked'
<1> USE DEF branchVars, taskVars, poolVars, timerVars, submitVars, parentVars
<1>0. Types /\ Lists
  BY DEF Tracked
<1>3. Types'
  BY <1>0 DEF Check, Types, CbSteps
<1>4. Lists'
  BY <1>0 DEF Check, Lists
<1>5. Callbacks' /\ OneByOne' /\ StatusFollows' /\ Places'
  BY <1>3, PastKeeps DEF Check
<1> QED
  BY <1>3, <1>4, <1>5 DEF Tracked

LEMMA ScanKeeps == ASSUME Tracked, NEW f \in Futures, Scan(f) PROVE Tracked'
<1> USE DEF branchVars, taskVars, poolVars, sharedVars, timerVars, submitVars, parentVars
<1>0. Types /\ Lists
  BY DEF Tracked
<1>1. cb[f] = "scan" /\ \E to \in {"scan", "ended"} : cb' = [cb EXCEPT ![f] = to]
  <2>1. cb = [cb EXCEPT ![f] = "scan"] \/ cb[f] # "scan"
    BY <1>0 DEF Types
  <2> QED
    BY <2>1 DEF Scan
<1>3. Types'
  <2>1. scanAt' \in [Futures -> 1 .. N + 1]
    BY <1>0, FutureFacts DEF Scan, Types
  <2>2. scanFound' \in [Futures -> BOOLEAN]
    BY <1>0 DEF Scan, Types
  <2>3. cb' \in [Futures -> CbSteps]
    BY <1>0, <1>1 DEF Types, CbSteps
  <2> QED
    BY <2>1, <2>2, <2>3, <1>0 DEF Scan, Types
<1>4. Lists'
  BY <1>0 DEF Scan, Lists
<1>5. Callbacks' /\ OneByOne' /\ StatusFollows' /\ Places'
  BY <1>1, <1>3, PastKeeps DEF Scan
<1> QED
  BY <1>3, <1>4, <1>5 DEF Tracked

LEMMA DecideKeeps == ASSUME Tracked, NEW f \in Futures, Decide(f) PROVE Tracked'
<1> USE DEF branchVars, taskVars, poolVars, timerVars, submitVars, parentVars, CbGoto
<1>0. Types /\ Lists
  BY DEF Tracked
<1>3. Types'
  BY <1>0 DEF Decide, Types, CbSteps
<1>4. Lists'
  BY <1>0 DEF Decide, Lists
<1>5. Callbacks' /\ OneByOne' /\ StatusFollows' /\ Places'
  BY <1>3, PastKeeps DEF Decide
<1> QED
  BY <1>3, <1>4, <1>5 DEF Tracked

-----------------------------------------------------------------------------
(* The workers *)

\* A step of a task before its end: the callbacks see none of it.
LEMMA StartTaskKeeps == ASSUME Tracked, StartTask PROVE Tracked'
<1> USE DEF branchVars, cbVars, sharedVars, timerVars, submitVars, parentVars
<1>0. Types /\ Callbacks /\ OneByOne /\ StatusFollows /\ Places /\ Lists
  BY DEF Tracked
<1>1. /\ \A g \in Futures : \/ task'[g] = task[g]
                            \/ task[g] = "queued" /\ task'[g] = "running"
      /\ Head(pool) \in Futures /\ pool' \in Seq(Futures)
  BY <1>0 DEF StartTask, Types
<1>3. Types'
  BY <1>0, <1>1 DEF StartTask, Types
<1>4. Lists'
  BY <1>0 DEF StartTask, Lists
<1>5. Callbacks'
  BY <1>0, <1>1 DEF StartTask, Callbacks
<1>6. OneByOne'
  BY <1>0, <1>1 DEF StartTask, OneByOne
<1>7. /\ \A b \in Branches : Last(b)' = Last(b) /\ (submits[b] > 0 => Last(b) \in Futures)
      /\ UNCHANGED <<status, filled, submits, outcome, hooked, cb, heap, todo, step>>
  BY <1>0, FutureFacts DEF StartTask, Last
<1>8. StatusFollows'
  <2> SUFFICES ASSUME NEW b \in Branches, submits[b] > 0
               PROVE  StatusAfter(Last(b), status[b])'
    BY <1>0, <1>7 DEF StatusFollows, Types
  <2>1. StatusAfter(Last(b), status[b])
    BY <1>0 DEF StatusFollows, Types
  <2> QED
    BY <2>1, <1>1, <1>7 DEF StatusAfter, Past
<1>9. Places'
  BY <1>0, <1>7 DEF Places, Resumable, Waiting, Last
<1> QED
  BY <1>3, <1>4, <1>5, <1>6, <1>8, <1>9 DEF Tracked

LEMMA ConcludeKeeps ==
  ASSUME Tracked, NEW f \in Futures, NEW o \in OutcomeKinds \cup {"orphaned"}, Conclude(f, o)
  PROVE  Tracked'
<1> USE DEF branchVars, cbVars, poolVars, sharedVars, timerVars, submitVars, parentVars
<1>0. Types /\ Callbacks /\ OneByOne /\ StatusFollows /\ Places /\ Lists /\ f[1] \in Branches
  BY FutureFacts DEF Tracked
<1>1. task[f] = "running" /\ cb[f] = "none"
  BY <1>0 DEF Conclude, Callbacks
<1>2. f = Last(f[1]) /\ f[2] = submits[f[1]] /\ submits[f[1]] > 0
  BY <1>0, <1>1, Current DEF Past
<1>3. /\ task'[f] = "concluded" /\ outcome'[f] = o /\ o # "none"
      /\ \A g \in Futures : g # f => task'[g] = task[g] /\ outcome'[g] = outcome[g]
      /\ o = "timed" => f[2] <= MaxResumes
      /\ UNCHANGED <<status, filled, submits, hooked, cb, heap, todo, step>>
  BY <1>0 DEF Conclude, MayEnd, Types, OutcomeKinds
<1>4. Types'
  <2>1. saved' \in [Branches -> {"none", "ok", "fail"}]
    BY <1>0 DEF Conclude, Types
  <2> QED
    BY <2>1, <1>0 DEF Conclude, Types
<1>5. Lists'
  BY <1>0 DEF Conclude, Lists
<1>6. Callbacks'
  BY <1>0, <1>1, <1>3 DEF Callbacks
<1>7. OneByOne'
  BY <1>0, <1>1, <1>2, <1>3 DEF OneByOne
<1>8. \A b \in Branches :
        Last(b)' = Last(b) /\ (submits[b] > 0 => Last(b) \in Futures) /\ (b # f[1] => Last(b) # f)
  BY <1>0, <1>3, FutureFacts DEF Last
<1>9. StatusFollows'
  <2> SUFFICES ASSUME NEW b \in Branches, submits[b] > 0
               PROVE  StatusAfter(Last(b), status[b])'
    BY <1>0, <1>3 DEF StatusFollows, Types
  <2>1. StatusAfter(Last(b), status[b])
    BY <1>0 DEF StatusFollows, Types
  <2> QED
    BY <2>1, <1>1, <1>3, <1>8 DEF StatusAfter, Past
<1>10. \A b \in Branches : Resumable(b) => Resumable(b)'
  BY <1>1, <1>3, <1>8 DEF Resumable, Past
<1>11. Places'
  <2>1. Waiting("timer")' = Waiting("timer") /\ Waiting("parent")' = Waiting("parent")
    BY <1>3 DEF Waiting
  <2>2. heap \subseteq Branches /\ Waiting("timer") \subseteq Branches
    BY <1>0 DEF Types, Waiting
  <2>3. \A s \in Submitters : Last(Head(todo[s]))' = Last(Head(todo[s]))
    BY <1>3 DEF Last
  <2> QED
    BY <1>0, <1>3, <1>10, <2>1, <2>2, <2>3 DEF Places
<1> QED
  BY <1>4, <1>5, <1>6, <1>7, <1>9, <1>11 DEF Tracked

LEMMA FinishTaskKeeps == ASSUME Tracked, NEW f \in Futures, FinishTask(f) PROVE Tracked'
<1> USE DEF branchVars, poolVars, sharedVars, timerVars, submitVars, parentVars
<1>0. Types /\ Callbacks /\ OneByOne /\ StatusFollows /\ Places /\ Lists /\ f[1] \in Branches
  BY FutureFacts DEF Tracked
<1>1. task[f] = "concluded" /\ cb[f] = "none" /\ outcome[f] # "none"
  BY <1>0 DEF FinishTask, Callbacks
<1>2. f = Last(f[1]) /\ f[2] = submits[f[1]] /\ submits[f[1]] > 0
  BY <1>0, <1>1, Current DEF Past
<1>3. /\ task'[f] = "done" /\ cb'[f] = (IF hooked[f] THEN "mark" ELSE "none")
      /\ \A g \in Futures : g # f => task'[g] = task[g] /\ cb'[g] = cb[g]
      /\ UNCHANGED <<status, filled, submits, outcome, hooked, heap, todo, step>>
  BY <1>0, <1>1 DEF FinishTask, Types
<1>4. Types'
  <2>1. cb' \in [Futures -> CbSteps]
    BY <1>0 DEF FinishTask, Types, CbSteps
  <2> QED
    BY <2>1, <1>0 DEF FinishTask, Types
<1>5. Lists'
  BY <1>0 DEF FinishTask, Lists
<1>6. Callbacks'
  BY <1>0, <1>1, <1>3 DEF Callbacks
<1>7. OneByOne'
  BY <1>0, <1>1, <1>2, <1>3 DEF OneByOne
<1>8. \A b \in Branches :
        Last(b)' = Last(b) /\ (submits[b] > 0 => Last(b) \in Futures) /\ (b # f[1] => Last(b) # f)
  BY <1>0, <1>3, FutureFacts DEF Last
<1>9. StatusFollows'
  <2> SUFFICES ASSUME NEW b \in Branches, submits[b] > 0
               PROVE  StatusAfter(Last(b), status[b])'
    BY <1>0, <1>3 DEF StatusFollows, Types
  <2>1. StatusAfter(Last(b), status[b])
    BY <1>0 DEF StatusFollows, Types
  <2> QED
    BY <2>1, <1>1, <1>3, <1>8 DEF StatusAfter, Past
<1>10. \A b \in Branches : Resumable(b) => Resumable(b)'
  BY <1>1, <1>3, <1>8 DEF Resumable, Past
<1>11. Places'
  <2>1. Waiting("timer")' = Waiting("timer") /\ Waiting("parent")' = Waiting("parent")
    BY <1>3 DEF Waiting
  <2>2. heap \subseteq Branches /\ Waiting("timer") \subseteq Branches
    BY <1>0 DEF Types, Waiting
  <2>3. \A s \in Submitters : Last(Head(todo[s]))' = Last(Head(todo[s]))
    BY <1>3 DEF Last
  <2> QED
    BY <1>0, <1>3, <1>10, <2>1, <2>2, <2>3 DEF Places
<1> QED
  BY <1>4, <1>5, <1>6, <1>7, <1>9, <1>11 DEF Tracked

-----------------------------------------------------------------------------
(* The two threads that submit *)

LEMMA TailFacts ==
  ASSUME NEW S, NEW s \in Seq(S), s # <<>>
  PROVE  /\ Tail(s) \in Seq(S) /\ Len(Tail(s)) = Len(s) - 1 /\ Head(s) = s[1] /\ Len(s) >= 1
         /\ Len(s) \in Nat /\ Head(s) \in S
         /\ \A i \in 1 .. Len(s) - 1 : Tail(s)[i] = s[i + 1]
OBVIOUS

\* The branch at the head of a list, where it is.
LEMMA HeadFacts ==
  ASSUME Types, Places, Lists, NEW s \in Submitters, todo[s] # <<>>
  PROVE  /\ Head(todo[s]) \in Branches /\ Head(todo[s]) = todo[s][1] /\ Len(todo[s]) >= 1
         /\ step[s] = "submit" => Head(todo[s]) \in Waiting(s)
<1>1. todo[s] \in Seq(Branches)
  BY DEF Types
<1>2. Head(todo[s]) \in Branches /\ Head(todo[s]) = todo[s][1] /\ Len(todo[s]) >= 1
      /\ Len(todo[s]) \in Nat
  BY <1>1, TailFacts
<1>3. 1 \in 1 .. Len(todo[s])
  BY <1>2
<1> QED
  BY <1>2, <1>3 DEF Waiting

\* Going on to the next branch adds none to those that wait.
LEMMA NextBranchFacts ==
  ASSUME Types, Lists, NEW s \in Submitters, todo[s] # <<>>, NextBranch(s),
         step[s] # "submit"
  PROVE  /\ todo' \in [Submitters -> Seq(Branches)]
         /\ step' \in [Submitters -> {"submit", "run", "hook", "inline"}]
         /\ step'[s] = "submit"
         /\ \A t \in Submitters : t # s => step'[t] = step[t] /\ todo'[t] = todo[t]
         /\ \A t \in Submitters : Waiting(t)' \subseteq Waiting(t)
         /\ \A t \in Submitters :
              /\ step'[t] # "submit" => todo'[t] # <<>>
              /\ \A i, j \in 1 .. Len(todo'[t]) : todo'[t][i] = todo'[t][j] => i = j
<1>1. todo \in [Submitters -> Seq(Branches)] /\ todo[s] \in Seq(Branches)
  BY DEF Types
<1>2. /\ Tail(todo[s]) \in Seq(Branches) /\ Len(Tail(todo[s])) = Len(todo[s]) - 1
      /\ Len(todo[s]) \in Nat /\ Len(todo[s]) >= 1
      /\ \A i \in 1 .. Len(todo[s]) - 1 : Tail(todo[s])[i] = todo[s][i + 1]
  BY <1>1, TailFacts
<1>3. /\ todo'[s] = Tail(todo[s]) /\ step'[s] = "submit"
      /\ todo' \in [Submitters -> Seq(Branches)]
      /\ step' \in [Submitters -> {"submit", "run", "hook", "inline"}]
      /\ \A t \in Submitters : t # s => step'[t] = step[t] /\ todo'[t] = todo[t]
  BY <1>1, <1>2 DEF NextBranch, Types
<1>4. Waiting(s)' \subseteq Waiting(s)
  <2> SUFFICES ASSUME NEW b \in Waiting(s)' PROVE b \in Waiting(s)
    OBVIOUS
  <2>1. PICK i \in 1 .. Len(todo'[s]) : todo'[s][i] = b
    BY DEF Waiting
  <2>2. i + 1 \in 1 .. Len(todo[s]) /\ todo[s][i + 1] = b /\ i + 1 # 1
    BY <2>1, <1>2, <1>3
  <2>3. b \in Branches
    BY DEF Waiting
  <2> QED
    BY <2>2, <2>3 DEF Waiting
<1>5. \A t \in Submitters : t # s => Waiting(t)' = Waiting(t)
  BY <1>3 DEF Waiting
<1>6. ASSUME NEW i \in 1 .. Len(todo'[s]), NEW j \in 1 .. Len(todo'[s]), todo'[s][i] = todo'[s][j]
      PROVE  i = j
  <2>1. /\ i + 1 \in 1 .. Len(todo[s]) /\ todo[s][i + 1] = todo'[s][i]
        /\ j + 1 \in 1 .. Len(todo[s]) /\ todo[s][j + 1] = todo'[s][j]
    BY <1>2, <1>3
  <2>2. i + 1 = j + 1
    BY <2>1, <1>6 DEF Lists
  <2> QED
    BY <2>2, <1>2, <1>3
<1>7. ASSUME NEW t \in Submitters
      PROVE  /\ step'[t] # "submit" => todo'[t] # <<>>
             /\ \A i, j \in 1 .. Len(todo'[t]) : todo'[t][i] = todo'[t][j] => i = j
  BY <1>3, <1>6 DEF Lists
<1> QED
  BY <1>3, <1>4, <1>5, <1>7

LEMMA PoolSubmitKeeps == ASSUME Tracked, NEW s \in Submitters, PoolSubmit(s) PROVE Tracked'
<1> USE DEF branchVars, cbVars, sharedVars, timerVars, parentVars
<1> DEFINE b == Head(todo[s])
           f == <<b, submits[b] + 1>>
<1>0. Types /\ Callbacks /\ OneByOne /\ StatusFollows /\ Places /\ Lists
  BY DEF Tracked
<1>1. /\ todo[s] # <<>> /\ step[s] = "submit"
      /\ s = "timer" => timer = "submitting"
      /\ submits' = [submits EXCEPT ![b] = submits[b] + 1]
      /\ task' = [task EXCEPT ![f] = "queued"]
      /\ pool' = Append(pool, f)
      /\ step' = [step EXCEPT ![s] = "run"]
      /\ UNCHANGED <<status, filled, outcome, hooked, saved, cb, heap, todo, timer>>
  BY DEF PoolSubmit, Submitting
<1>2. b \in Branches /\ b \in Waiting(s) /\ b = todo[s][1] /\ Len(todo[s]) >= 1
  BY <1>0, <1>1, HeadFacts
<1>3. /\ s = "parent" => submits[b] = 0
      /\ s = "timer" => Resumable(b) /\ submits[b] > 0
      /\ status[b] = "pending"
  BY <1>0, <1>2 DEF Places, StatusFollows, Resumable, Submitters
<1>4. submits[b] + 1 \in 1 .. MaxResumes + 1 /\ f \in Futures
  <2>1. s = "timer" => submits[b] <= MaxResumes
    <3>1. s = "timer" => Last(b) \in Futures /\ outcome[Last(b)] = "timed"
      BY <1>0, <1>2, <1>3, FutureFacts DEF Resumable
    <3> QED
      BY <3>1, <1>0, <1>2, FutureFacts DEF Callbacks
  <2> QED
    BY <2>1, <1>0, <1>2, <1>3, FutureFacts DEF Futures, Submitters
<1>5. /\ f[1] = b /\ f[2] = submits[b] + 1
      /\ task[f] = "none" /\ cb[f] = "none" /\ ~hooked[f] /\ outcome[f] = "none"
  <2>1. f[1] = b /\ f[2] = submits[b] + 1 /\ f[2] > submits[b]
    BY <1>0, <1>2, FutureFacts
  <2>2. task[f] = "none"
    BY <2>1, <1>0, <1>4 DEF OneByOne
  <2> HIDE DEF f
  <2> QED
    BY <2>1, <2>2, <1>0, <1>4 DEF OneByOne, Callbacks
<1>6. /\ submits'[b] = submits[b] + 1
      /\ \A c \in Branches : c # b => submits'[c] = submits[c]
      /\ task'[f] = "queued" /\ \A g \in Futures : g # f => task'[g] = task[g]
      /\ step'[s] = "run" /\ \A t \in Submitters : t # s => step'[t] = step[t]
  <2> HIDE DEF f, b
  <2> QED
    BY <1>0, <1>1, <1>2, <1>4 DEF Types
<1>7. Types'
  <2>1. submits' \in [Branches -> 0 .. MaxResumes + 1]
    BY <1>0, <1>1, <1>2, <1>4 DEF Types
  <2>2. pool' \in Seq(Futures)
    BY <1>0, <1>1, <1>4 DEF Types
  <2> HIDE DEF f, b
  <2>3. task' \in [Futures -> {"none", "queued", "running", "concluded", "done", "cancelled"}]
    BY <1>0, <1>1, <1>4 DEF Types
  <2>4. step' \in [Submitters -> {"submit", "run", "hook", "inline"}]
    BY <1>0, <1>1 DEF Types
  <2> QED
    BY <2>1, <2>2, <2>3, <2>4, <1>0 DEF PoolSubmit, Types
<1>8. Lists'
  BY <1>0, <1>1, <1>6 DEF Lists
<1>9. /\ Last(b)' = f
      /\ \A c \in Branches : c # b => Last(c)' = Last(c) /\ Last(c) # f /\ Last(c)' # f
  BY <1>0, <1>1, <1>2, <1>6, <1>5, FutureFacts DEF Last
<1> HIDE DEF f
<1>10. Callbacks'
  BY <1>0, <1>1, <1>5, <1>6 DEF Callbacks
<1>11. OneByOne'
  <2> SUFFICES ASSUME NEW g \in Futures
               PROVE  /\ g[2] > submits'[g[1]] <=> task'[g] = "none"
                      /\ g[2] < submits'[g[1]] => outcome[g] = "timed" /\ cb[g] \in Past
                      /\ task'[g] = "none" => ~hooked[g]
    BY <1>1 DEF OneByOne
  <2>0. g[1] \in Branches /\ g[2] \in Nat /\ g[2] > 0 /\ g = <<g[1], g[2]>>
        /\ submits[b] \in Nat
    BY <1>0, <1>2, FutureFacts
  <2>1. CASE g[1] # b
    <3>1. g # f
      BY <2>1, <1>5
    <3> QED
      BY <3>1, <2>0, <2>1, <1>0, <1>6 DEF OneByOne
  <2>2. CASE g = f
    BY <2>2, <2>0, <1>5, <1>6
  <2>3. CASE g[1] = b /\ g # f
    <3>1. g[2] # submits[b] + 1
      BY <2>0, <2>3 DEF f
    <3>2. task'[g] = task[g] /\ (g[2] > submits[b] <=> task[g] = "none")
          /\ (task[g] = "none" => ~hooked[g])
      BY <2>3, <1>0, <1>6 DEF OneByOne
    <3>3. g[2] < submits[b] => outcome[g] = "timed" /\ cb[g] \in Past
      BY <2>3, <1>0 DEF OneByOne
    <3>4. g[2] = submits[b] => outcome[g] = "timed" /\ cb[g] \in Past
      <4>1. ASSUME g[2] = submits[b] PROVE Resumable(b) /\ g = Last(b)
        BY <4>1, <2>0, <2>3, <1>3, <1>0, FutureFacts DEF Submitters
      <4> QED
        BY <4>1 DEF Resumable
    <3> QED
      BY <3>1, <3>2, <3>3, <3>4, <2>0, <2>3, <1>6
  <2> QED
    BY <2>1, <2>2, <2>3
<1>12. StatusFollows'
  <2> SUFFICES ASSUME NEW c \in Branches, submits'[c] > 0
               PROVE  StatusAfter(Last(c), status[c])'
    <3>1. \A c \in Branches : submits'[c] \in Nat
      BY <1>7, ExecutorAssumption DEF Types
    <3>2. \A c \in Branches : submits'[c] = 0 => status[c] = "pending"
      BY <1>0, <1>2, <1>6, FutureFacts DEF StatusFollows
    <3> QED
      BY <3>1, <3>2, <1>1 DEF StatusFollows
  <2>1. CASE c = b
    BY <2>1, <1>1, <1>3, <1>5, <1>9 DEF StatusAfter, Past
  <2>2. CASE c # b
    <3>1. StatusAfter(Last(c), status[c]) /\ Last(c) \in Futures
      BY <2>2, <1>0, <1>6, FutureFacts DEF StatusFollows
    <3> QED
      BY <3>1, <2>2, <1>1, <1>6, <1>9 DEF StatusAfter
  <2> QED
    BY <2>1, <2>2
<1>13. Places'
  <2>1. \A c \in Branches : c # b /\ Resumable(c) => Resumable(c)'
    BY <1>1, <1>6, <1>9 DEF Resumable
  <2>2. \A c \in heap' : c \in Branches /\ c # b /\ Resumable(c) /\ status[c] = "timed"
    BY <1>0, <1>1, <1>3 DEF Places, Types
  <2>3. b \notin Waiting(s)' /\ Waiting(s)' \subseteq Waiting(s)
    <3>1. \A i, j \in 1 .. Len(todo[s]) : todo[s][i] = todo[s][j] => i = j
      BY <1>0 DEF Lists
    <3>2. \A i \in 1 .. Len(todo[s]) : todo[s][i] = b => i = 1
      BY <3>1, <1>2
    <3> HIDE DEF b
    <3> QED
      BY <3>2, <1>1, <1>6 DEF Waiting
  <2>4. \A t \in Submitters : t # s => b \notin Waiting(t) /\ Waiting(t)' = Waiting(t)
    <3>1. "timer" # s => b \notin Waiting("timer")
      BY <1>0, <1>3 DEF Places, Resumable, Submitters
    <3>2. "parent" # s => b \notin Waiting("parent")
      BY <1>0, <1>3 DEF Places, Resumable, Submitters
    <3>3. \A t \in Submitters : t # s => Waiting(t)' = Waiting(t)
      BY <1>1, <1>6 DEF Waiting
    <3> QED
      BY <3>1, <3>2, <3>3 DEF Submitters
  <2>5. \A t \in Submitters : \A c \in Waiting(t)' : c \in Waiting(t) /\ c # b /\ c \in Branches
    BY <2>3, <2>4 DEF Waiting
  <2>6. \A c \in Waiting("timer")' : Resumable(c)' /\ status'[c] = "pending"
    BY <2>1, <2>5, <1>0, <1>1 DEF Places, Submitters
  <2>7. \A c \in Waiting("parent")' : submits'[c] = 0
    BY <2>5, <1>0, <1>6 DEF Places, Submitters
  <2>8. ASSUME NEW t \in Submitters, step'[t] \in {"run", "hook"}
        PROVE  /\ submits'[Head(todo[t])] > 0 /\ ~hooked[Last(Head(todo[t]))']
               /\ t = "parent" <=> submits'[Head(todo[t])] = 1
               /\ status[Head(todo[t])] = IF step'[t] = "run" THEN "pending" ELSE "running"
    <3>1. CASE t = s
      <4>1. submits[b] \in Nat
        BY <1>0, <1>2, FutureFacts
      <4> QED
        BY <3>1, <4>1, <1>3, <1>5, <1>6, <1>9 DEF Submitters
    <3>2. CASE t # s
      <4>1. step'[t] = step[t] /\ todo[t] # <<>>
        BY <3>2, <2>8, <1>0, <1>6 DEF Lists
      <4>2. Head(todo[t]) \in Branches
        BY <4>1, <1>0, HeadFacts
      <4>3. /\ submits[Head(todo[t])] > 0 /\ ~hooked[Last(Head(todo[t]))]
            /\ t = "parent" <=> submits[Head(todo[t])] = 1
            /\ status[Head(todo[t])] = IF step[t] = "run" THEN "pending" ELSE "running"
        BY <4>1, <2>8, <1>0 DEF Places
      <4>4. Head(todo[t]) # b
        <5>1. CASE s = "parent"
          BY <5>1, <4>3, <1>3
        <5>2. CASE s = "timer"
          <6>1. hooked[Last(b)]
            BY <5>2, <1>0, <1>2, <1>3, FutureFacts DEF Resumable, Callbacks, Past
          <6> QED
            BY <6>1, <4>3
        <5> QED
          BY <5>1, <5>2 DEF Submitters
      <4> QED
        BY <4>1, <4>2, <4>3, <4>4, <1>1, <1>6, <1>9
    <3> QED
      BY <3>1, <3>2
  <2>9. \A c \in heap' : Resumable(c)' /\ status'[c] = "timed"
    BY <2>1, <2>2, <1>1
  <2> QED
    BY <2>6, <2>7, <2>8, <2>9, <1>1 DEF Places
<1> QED
  BY <1>7, <1>8, <1>10, <1>11, <1>12, <1>13 DEF Tracked

LEMMA MarkRunningKeeps == ASSUME Tracked, NEW s \in Submitters, MarkRunning(s) PROVE Tracked'
<1> USE DEF taskVars, cbVars, poolVars, sharedVars, timerVars, parentVars
<1> DEFINE b == Head(todo[s])
<1>0. Types /\ Callbacks /\ OneByOne /\ StatusFollows /\ Places /\ Lists
  BY DEF Tracked
<1>1. /\ todo[s] # <<>> /\ step[s] = "run"
      /\ s = "timer" => timer = "submitting"
      /\ status[b] = "pending"
      /\ status' = [status EXCEPT ![b] = "running"]
      /\ step' = [step EXCEPT ![s] = "hook"]
      /\ UNCHANGED <<filled, submits, task, outcome, hooked, saved, cb, heap, todo, timer>>
  BY DEF MarkRunning, Submitting
<1>2. b \in Branches
  BY <1>0, <1>1, HeadFacts
<1>3. /\ submits[b] > 0 /\ ~hooked[Last(b)] /\ (s = "parent" <=> submits[b] = 1)
      /\ Last(b) \in Futures /\ cb[Last(b)] = "none"
  <2>1. /\ submits[b] > 0 /\ ~hooked[Last(b)] /\ (s = "parent" <=> submits[b] = 1)
    BY <1>0, <1>1 DEF Places
  <2>2. Last(b) \in Futures
    BY <2>1, <1>0, <1>2, FutureFacts
  <2> QED
    BY <2>1, <2>2, <1>0 DEF Callbacks
<1>4. /\ status'[b] = "running" /\ \A c \in Branches : c # b => status'[c] = status[c]
      /\ step'[s] = "hook" /\ \A t \in Submitters : t # s => step'[t] = step[t]
  BY <1>0, <1>1, <1>2 DEF Types
<1>5. Types'
  BY <1>0, <1>1, <1>2 DEF MarkRunning, Types
<1>6. Lists'
  BY <1>0, <1>1, <1>4 DEF Lists
<1>7. \A c \in Branches : Last(c)' = Last(c)
  BY <1>1 DEF Last
<1>8. Callbacks' /\ OneByOne'
  BY <1>0, <1>1 DEF Callbacks, OneByOne
<1>9. StatusFollows'
  <2>1. \A c \in Branches : submits[c] = 0 => status'[c] = "pending"
    BY <1>0, <1>3, <1>4 DEF StatusFollows
  <2> SUFFICES ASSUME NEW c \in Branches, submits[c] > 0
               PROVE  StatusAfter(Last(c), status[c])'
    BY <2>1, <1>0, <1>1, FutureFacts DEF StatusFollows
  <2>2. CASE c = b
    BY <2>2, <1>1, <1>3, <1>4, <1>7 DEF StatusAfter, Past
  <2>3. CASE c # b
    <3>1. StatusAfter(Last(c), status[c])
      BY <1>0 DEF StatusFollows
    <3> QED
      BY <3>1, <2>3, <1>1, <1>4, <1>7 DEF StatusAfter
  <2> QED
    BY <2>2, <2>3
<1>10. Places'
  <2>1. \A c \in Branches : Resumable(c) => Resumable(c)' /\ c # b
    BY <1>1, <1>3, <1>7 DEF Resumable, Past
  <2>2. \A c \in heap' : Resumable(c)' /\ status'[c] = "timed"
    BY <2>1, <1>0, <1>1, <1>4 DEF Places, Types
  <2>3. \A t \in Submitters : Waiting(t)' = Waiting(t)
    <3>1. \A t \in Submitters : step'[t] = "submit" <=> step[t] = "submit"
      BY <1>1, <1>4
    <3> QED
      BY <3>1, <1>1 DEF Waiting
  <2>4. \A c \in Waiting("timer")' : Resumable(c)' /\ status'[c] = "pending"
    <3>1. \A c \in Waiting("timer") : c \in Branches
      BY DEF Waiting
    <3> QED
      BY <3>1, <2>1, <2>3, <1>0, <1>1, <1>4 DEF Places, Submitters
  <2>5. \A c \in Waiting("parent")' : submits'[c] = 0
    BY <2>3, <1>0, <1>1 DEF Places, Submitters
  <2>6. ASSUME NEW t \in Submitters, step'[t] \in {"run", "hook"}
        PROVE  /\ submits[Head(todo[t])] > 0 /\ ~hooked[Last(Head(todo[t]))']
               /\ t = "parent" <=> submits[Head(todo[t])] = 1
               /\ status'[Head(todo[t])] = IF step'[t] = "run" THEN "pending" ELSE "running"
    <3>1. CASE t = s
      BY <3>1, <1>1, <1>2, <1>3, <1>4, <1>7
    <3>2. CASE t # s
      <4>1. step'[t] = step[t] /\ todo[t] # <<>>
        BY <3>2, <2>6, <1>0, <1>4 DEF Lists
      <4>2. Head(todo[t]) \in Branches
        BY <4>1, <1>0, HeadFacts
      <4>3. /\ submits[Head(todo[t])] > 0 /\ ~hooked[Last(Head(todo[t]))]
            /\ t = "parent" <=> submits[Head(todo[t])] = 1
            /\ status[Head(todo[t])] = IF step[t] = "run" THEN "pending" ELSE "running"
        BY <4>1, <2>6, <1>0 DEF Places
      <4>4. Head(todo[t]) # b
        BY <3>2, <4>3, <1>3 DEF Submitters
      <4> QED
        BY <4>1, <4>2, <4>3, <4>4, <1>1, <1>4, <1>7
    <3> QED
      BY <3>1, <3>2
  <2> QED
    BY <2>2, <2>4, <2>5, <2>6, <1>1 DEF Places
<1> QED
  BY <1>5, <1>6, <1>8, <1>9, <1>10 DEF Tracked

LEMMA HookKeeps == ASSUME Tracked, NEW s \in Submitters, Hook(s) PROVE Tracked'
<1> USE DEF branchVars, poolVars, sharedVars, timerVars, parentVars
<1> DEFINE b == Head(todo[s])
           f == Last(b)
<1>0. Types /\ Callbacks /\ OneByOne /\ StatusFollows /\ Places /\ Lists
  BY DEF Tracked
<1>1. /\ todo[s] # <<>> /\ step[s] = "hook"
      /\ s = "timer" => timer = "submitting"
      /\ hooked' = [hooked EXCEPT ![f] = TRUE]
      /\ UNCHANGED <<status, filled, submits, task, outcome, saved, heap, timer>>
  BY DEF Hook, Submitting, Submitted, Last
<1>2. b \in Branches
  BY <1>0, <1>1, HeadFacts
<1>3. /\ submits[b] > 0 /\ ~hooked[f] /\ status[b] = "running"
      /\ f \in Futures /\ cb[f] = "none" /\ f[1] = b /\ f[2] = submits[b]
  <2>1. submits[b] > 0 /\ ~hooked[f] /\ status[b] = "running"
    BY <1>0, <1>1 DEF Places
  <2>2. f \in Futures /\ f[1] = b /\ f[2] = submits[b]
    BY <2>1, <1>0, <1>2, FutureFacts
  <2> HIDE DEF f, b
  <2> QED
    BY <2>1, <2>2, <1>0 DEF Callbacks
<1>4. \/ /\ task[f] \in {"done", "cancelled"}
         /\ cb' = [cb EXCEPT ![f] = "mark"] /\ cbBy' = [cbBy EXCEPT ![f] = s]
         /\ step' = [step EXCEPT ![s] = "inline"] /\ todo' = todo
      \/ /\ task[f] \notin {"done", "cancelled"}
         /\ NextBranch(s) /\ cb' = cb /\ cbBy' = cbBy
  BY DEF Hook, Submitted, Last
<1>5. \A c \in Branches : Last(c)' = Last(c) /\ (c # b => Last(c) # f)
                            /\ (submits[c] > 0 => Last(c) \in Futures)
  BY <1>0, <1>1, <1>2, FutureFacts DEF Last
<1>6. /\ \A c \in Branches : submits[c] = 0 => status[c] = "pending"
      /\ \A c \in Branches : submits[c] # 0 => submits[c] > 0
  BY <1>0, FutureFacts DEF StatusFollows
<1> HIDE DEF f, b
<1>7. hooked'[f] /\ \A g \in Futures : g # f => hooked'[g] = hooked[g]
  BY <1>0, <1>1, <1>3 DEF Types
<1>8. OneByOne' /\ Callbacks' /\ cb' \in [Futures -> CbSteps]
      /\ \A g \in Futures : g # f => cb'[g] = cb[g]
  <2>1. task[f] # "none"
    BY <1>0, <1>2, <1>3, FutureFacts DEF OneByOne
  <2>2. CASE task[f] \in {"done", "cancelled"}
    <3>1. cb'[f] = "mark" /\ \A g \in Futures : g # f => cb'[g] = cb[g]
      BY <2>2, <1>0, <1>3, <1>4 DEF Types
    <3>2. Callbacks'
      BY <2>2, <3>1, <1>0, <1>1, <1>3, <1>7 DEF Callbacks
    <3>3. OneByOne'
      BY <2>1, <2>2, <3>1, <1>0, <1>1, <1>3, <1>7 DEF OneByOne, Past
    <3>4. cb' \in [Futures -> CbSteps]
      BY <2>2, <1>0, <1>4 DEF Types, CbSteps
    <3> QED
      BY <3>1, <3>2, <3>3, <3>4
  <2>3. CASE task[f] \notin {"done", "cancelled"}
    <3>2. Callbacks'
      BY <2>3, <1>0, <1>1, <1>3, <1>4, <1>7 DEF Callbacks
    <3>3. OneByOne'
      BY <2>1, <2>3, <1>0, <1>1, <1>3, <1>4, <1>7 DEF OneByOne, Past
    <3> QED
      BY <2>3, <3>2, <3>3, <1>0, <1>4 DEF Types
  <2> QED
    BY <2>2, <2>3
<1>9. /\ todo' \in [Submitters -> Seq(Branches)]
      /\ step' \in [Submitters -> {"submit", "run", "hook", "inline"}]
      /\ step'[s] \in {"submit", "inline"}
      /\ \A t \in Submitters : t # s => step'[t] = step[t] /\ todo'[t] = todo[t]
      /\ \A t \in Submitters : Waiting(t)' \subseteq Waiting(t)
      /\ \A t \in Submitters :
           /\ step'[t] # "submit" => todo'[t] # <<>>
           /\ \A i, j \in 1 .. Len(todo'[t]) : todo'[t][i] = todo'[t][j] => i = j
  <2>1. CASE step' = [step EXCEPT ![s] = "inline"] /\ todo' = todo
    <3>1. step'[s] = "inline" /\ \A t \in Submitters : t # s => step'[t] = step[t]
      BY <2>1, <1>0 DEF Types
    <3>2. \A t \in Submitters : Waiting(t)' \subseteq Waiting(t)
      BY <2>1, <3>1, <1>1 DEF Waiting
    <3> QED
      BY <2>1, <3>1, <3>2, <1>0, <1>1 DEF Types, Lists
  <2>2. CASE NextBranch(s)
    BY <2>2, <1>0, <1>1, NextBranchFacts
  <2> QED
    BY <2>1, <2>2, <1>4
<1>10. Types'
  <2>1. hooked' \in [Futures -> BOOLEAN]
    BY <1>0, <1>1 DEF Types
  <2>2. cbBy' \in [Futures -> Submitters \cup {"worker"}]
    BY <1>0, <1>4 DEF Types
  <2> QED
    <3>1. UNCHANGED <<status, filled, submits, task, outcome, saved, scanAt, scanFound, pool, heap,
                      event, suspendExc, readAt, items>>
      BY DEF Hook
    <3> QED
      BY <3>1, <2>1, <2>2, <1>0, <1>8, <1>9 DEF Types
<1>11. Lists'
  BY <1>0, <1>1, <1>9 DEF Lists, Submitters
<1>12. StatusFollows'
  <2> SUFFICES ASSUME NEW c \in Branches, submits[c] > 0
               PROVE  StatusAfter(Last(c), status[c])'
    BY <1>1, <1>6 DEF StatusFollows
  <2>1. StatusAfter(Last(c), status[c])
    BY <1>0 DEF StatusFollows, Types
  <2>2. CASE c = b
    <3>1. cb'[f] \in {"none", "mark"} /\ status'[c] = "running"
      BY <2>2, <1>0, <1>1, <1>3, <1>4, <1>5 DEF Types
    <3>2. Last(c)' = f
      BY <2>2, <1>5 DEF f
    <3>3. cb'[Last(c)'] \in {"none", "mark"}
      BY <3>1, <3>2
    <3> QED
      BY <3>1, <3>3 DEF StatusAfter, Past
  <2>3. CASE c # b
    BY <2>1, <2>3, <1>1, <1>5, <1>7, <1>8 DEF StatusAfter
  <2> QED
    BY <2>2, <2>3
<1>13. Places'
  <2>1. \A c \in Branches : Resumable(c) => Resumable(c)' /\ c # b
    BY <1>1, <1>3, <1>5, <1>8 DEF Resumable, Past, f
  <2>2. \A c \in heap' : Resumable(c)' /\ status'[c] = "timed"
    BY <2>1, <1>0, <1>1 DEF Places, Types
  <2>3. \A t \in Submitters : \A c \in Waiting(t)' : c \in Waiting(t) /\ c \in Branches
    BY <1>9 DEF Waiting
  <2>4. \A c \in Waiting("timer")' : Resumable(c)' /\ status'[c] = "pending"
    BY <2>1, <2>3, <1>0, <1>1 DEF Places, Submitters
  <2>5. \A c \in Waiting("parent")' : submits'[c] = 0
    BY <2>3, <1>0, <1>1 DEF Places, Submitters
  <2>6. ASSUME NEW t \in Submitters, step'[t] \in {"run", "hook"}
        PROVE  /\ submits[Head(todo'[t])] > 0 /\ ~hooked'[Last(Head(todo[t]))']
               /\ t = "parent" <=> submits[Head(todo'[t])] = 1
               /\ status[Head(todo'[t])] = IF step'[t] = "run" THEN "pending" ELSE "running"
    <3>1. t # s /\ step'[t] = step[t] /\ todo'[t] = todo[t] /\ todo[t] # <<>>
      BY <2>6, <1>0, <1>9 DEF Lists
    <3>2. Head(todo[t]) \in Branches
      BY <3>1, <1>0, HeadFacts
    <3>3. /\ submits[Head(todo[t])] > 0 /\ ~hooked[Last(Head(todo[t]))]
          /\ t = "parent" <=> submits[Head(todo[t])] = 1
          /\ status[Head(todo[t])] = IF step[t] = "run" THEN "pending" ELSE "running"
      BY <3>1, <2>6, <1>0 DEF Places
    <3>4. s = "parent" <=> submits[b] = 1
      BY <1>0, <1>1 DEF Places, b
    <3>5. Head(todo[t]) # b
      BY <3>1, <3>3, <3>4 DEF Submitters
    <3>6. Last(Head(todo[t])) \in Futures /\ Last(Head(todo[t])) # f
          /\ Last(Head(todo[t]))' = Last(Head(todo[t]))
      BY <3>1, <3>2, <3>3, <3>5, <1>5
    <3> QED
      BY <3>1, <3>3, <3>6, <1>7
  <2> QED
    BY <2>2, <2>4, <2>5, <2>6, <1>1 DEF Places
<1> QED
  BY <1>8, <1>10, <1>11, <1>12, <1>13 DEF Tracked

\* A step of a submitter that takes branches off its list, and moves nothing else.
LEMMA FewerWaitKeeps ==
  ASSUME Tracked,
         UNCHANGED <<status, submits, task, outcome, hooked, cb, heap>>,
         \A t \in Submitters : Waiting(t)' \subseteq Waiting(t),
         \A t \in Submitters : step'[t] \in {"run", "hook"} =>
           step'[t] = step[t] /\ todo'[t] = todo[t]
  PROVE  Callbacks' /\ OneByOne' /\ StatusFollows' /\ Places'
<1>0. Types /\ Callbacks /\ OneByOne /\ StatusFollows /\ Places
  BY DEF Tracked
<1>1. \A c \in Branches : Last(c)' = Last(c)
  BY DEF Last
<1>2. Callbacks' /\ OneByOne'
  BY <1>0 DEF Callbacks, OneByOne
<1>3. StatusFollows'
  BY <1>0, <1>1 DEF StatusFollows, StatusAfter
<1>4. Places'
  <2>1. \A c \in Branches : Resumable(c) => Resumable(c)'
    BY <1>1 DEF Resumable
  <2>2. \A c \in heap' : Resumable(c)' /\ status'[c] = "timed"
    BY <2>1, <1>0 DEF Places, Types
  <2>3. \A t \in Submitters : \A c \in Waiting(t)' : c \in Waiting(t) /\ c \in Branches
    BY DEF Waiting
  <2>4. \A c \in Waiting("timer")' : Resumable(c)' /\ status'[c] = "pending"
    BY <2>1, <2>3, <1>0 DEF Places, Submitters
  <2>5. \A c \in Waiting("parent")' : submits'[c] = 0
    BY <2>3, <1>0 DEF Places, Submitters
  <2>6. ASSUME NEW t \in Submitters, step'[t] \in {"run", "hook"}
        PROVE  /\ submits[Head(todo'[t])] > 0 /\ ~hooked'[Last(Head(todo[t]))']
               /\ t = "parent" <=> submits[Head(todo'[t])] = 1
               /\ status[Head(todo'[t])] = IF step'[t] = "run" THEN "pending" ELSE "running"
    <3>1. Last(Head(todo[t]))' = Last(Head(todo[t]))
      BY <2>6 DEF Last
    <3> QED
      BY <2>6, <3>1, <1>0 DEF Places
  <2> QED
    BY <2>2, <2>4, <2>5, <2>6 DEF Places
<1> QED
  BY <1>2, <1>3, <1>4

LEMMA AfterInlineKeeps == ASSUME Tracked, NEW s \in Submitters, AfterInline(s) PROVE Tracked'
<1> USE DEF branchVars, taskVars, cbVars, poolVars, sharedVars, timerVars, parentVars
<1>0. Types /\ Lists
  BY DEF Tracked
<1>1. /\ todo[s] # <<>> /\ step[s] = "inline" /\ NextBranch(s)
      /\ s = "timer" => timer = "submitting"
      /\ timer' = timer
  BY DEF AfterInline, Submitting
<1>2. /\ todo' \in [Submitters -> Seq(Branches)]
      /\ step' \in [Submitters -> {"submit", "run", "hook", "inline"}]
      /\ step'[s] = "submit"
      /\ \A t \in Submitters : t # s => step'[t] = step[t] /\ todo'[t] = todo[t]
      /\ \A t \in Submitters : Waiting(t)' \subseteq Waiting(t)
      /\ \A t \in Submitters :
           /\ step'[t] # "submit" => todo'[t] # <<>>
           /\ \A i, j \in 1 .. Len(todo'[t]) : todo'[t][i] = todo'[t][j] => i = j
  BY <1>0, <1>1, NextBranchFacts
<1>3. Types'
  BY <1>0, <1>2 DEF AfterInline, Types
<1>4. Lists'
  BY <1>0, <1>1, <1>2 DEF Lists, Submitters
<1>5. Callbacks' /\ OneByOne' /\ StatusFollows' /\ Places'
  BY <1>2, FewerWaitKeeps DEF AfterInline
<1> QED
  BY <1>3, <1>4, <1>5 DEF Tracked

LEMMA PoolRefusesKeeps == ASSUME Tracked, PoolRefuses \/ RefreshEscapes PROVE Tracked'
<1> USE DEF branchVars, taskVars, cbVars, poolVars, sharedVars, parentVars
<1>0. Types /\ Lists
  BY DEF Tracked
<1>1. /\ step["timer"] = "submit" /\ timer' = "dead"
      /\ todo' = [todo EXCEPT !["timer"] = <<>>]
      /\ UNCHANGED <<status, filled, submits, task, outcome, hooked, saved, cb, cbBy, scanAt,
                     scanFound, pool, heap, event, suspendExc, step, readAt, items>>
  BY <1>0 DEF PoolRefuses, RefreshEscapes, Submitting, TimerGoto, Lists
<1>2. /\ todo'["timer"] = <<>> /\ todo'["parent"] = todo["parent"] /\ Len(todo'["timer"]) = 0
      /\ todo' \in [Submitters -> Seq(Branches)]
  BY <1>0, <1>1 DEF Types, Submitters
<1>3. Types'
  BY <1>0, <1>1, <1>2 DEF Types
<1>4. Lists'
  BY <1>0, <1>1, <1>2 DEF Lists, Submitters
<1>5. \A t \in Submitters : Waiting(t)' \subseteq Waiting(t)
  BY <1>1, <1>2 DEF Waiting, Submitters
<1>6. Callbacks' /\ OneByOne' /\ StatusFollows' /\ Places'
  BY <1>1, <1>2, <1>5, FewerWaitKeeps DEF Submitters
<1> QED
  BY <1>3, <1>4, <1>6 DEF Tracked

-----------------------------------------------------------------------------
(* The timer and the parent *)

\* A step of the timer that moves no branch.
LEMMA TimerKeeps ==
  ASSUME Tracked, Looks \/ PopNothing \/ Refreshed \/ Resubmitted \/ TimerEnds
  PROVE  Tracked'
<1> USE DEF branchVars, taskVars, cbVars, poolVars, sharedVars, submitVars, parentVars
<1>0. Types /\ Lists
  BY DEF Tracked
<1>1. /\ timer' \in {"polling", "popping"} => todo["timer"] = <<>>
      /\ timer' \notin {"submitting", "dead"} => step["timer"] = "submit"
      /\ UNCHANGED <<status, filled, submits, task, outcome, hooked, saved, cb, cbBy, scanAt,
                     scanFound, pool, heap, event, suspendExc, todo, step, readAt, items>>
  BY <1>0 DEF Looks, PopNothing, Refreshed, Resubmitted, TimerEnds, TimerGoto, Lists, Submitters
<1>2. Types'
  BY <1>0, <1>1 DEF Types
<1>3. Lists'
  BY <1>0, <1>1 DEF Lists
<1>4. \A t \in Submitters : Waiting(t)' \subseteq Waiting(t)
  BY <1>1 DEF Waiting
<1>5. Callbacks' /\ OneByOne' /\ StatusFollows' /\ Places'
  BY <1>1, <1>4, FewerWaitKeeps
<1> QED
  BY <1>2, <1>3, <1>5 DEF Tracked

\* The list of a resubmission has every branch that is due, and each once.
LEMMA OrderFacts ==
  ASSUME NEW due \in SUBSET Branches, NEW order \in [1 .. Cardinality(due) -> due],
         \A b \in due : \E i \in DOMAIN order : order[i] = b
  PROVE  /\ order \in Seq(Branches) /\ Len(order) = Cardinality(due) /\ Cardinality(due) \in Nat
         /\ \A i, j \in 1 .. Len(order) : order[i] = order[j] => i = j
         /\ \A i \in 1 .. Len(order) : order[i] \in due
<1>1. IsFiniteSet(due)
  <2>1. IsFiniteSet(Branches)
    BY ExecutorAssumption, FS_Interval DEF Branches
  <2> QED
    BY <2>1, FS_Subset
<1>2. Cardinality(due) \in Nat
  BY <1>1, FS_CardinalityType
<1> DEFINE n == Cardinality(due)
<1>3. n \in Nat
  BY <1>2
<1>4. IsFiniteSet(1 .. n) /\ Cardinality(1 .. n) = n
  BY <1>3, FS_Interval
<1>5. order \in Surjection(1 .. n, due)
  BY DEF Surjection
<1>6. order \in Injection(1 .. n, due)
  BY <1>4, <1>5, FS_SurjSameCardinalityImpliesInj
<1> HIDE DEF n
<1>7. order \in [1 .. n -> due]
  BY DEF n
<1>8. order \in Seq(due) /\ Len(order) = n
  BY <1>3, <1>7
<1>9. order \in Seq(Branches)
  <2>1. order \in [1 .. n -> Branches]
    BY <1>7
  <2> QED
    BY <2>1, <1>3
<1> QED
  BY <1>3, <1>6, <1>7, <1>8, <1>9 DEF Injection, IsInjective, n

LEMMA PopDueKeeps == ASSUME Tracked, PopDue PROVE Tracked'
<1> USE DEF taskVars, cbVars, poolVars, sharedVars, parentVars
<1>0. Types /\ Callbacks /\ OneByOne /\ StatusFollows /\ Places /\ Lists
  BY DEF Tracked
<1>1. PICK due \in SUBSET heap \ {{}} :
        /\ heap' = heap \ due
        /\ status' = [b \in Branches |-> IF b \in due THEN "pending" ELSE status[b]]
        /\ Resubmit(due)
  BY DEF PopDue
<1>2. PICK order \in [1 .. Cardinality(due) -> due] :
        /\ \A b \in due : \E i \in DOMAIN order : order[i] = b
        /\ todo' = [todo EXCEPT !["timer"] = order]
  BY <1>1 DEF Resubmit
<1>3. due \in SUBSET Branches
  BY <1>0, <1>1 DEF Types
<1>4. /\ order \in Seq(Branches)
      /\ \A i, j \in 1 .. Len(order) : order[i] = order[j] => i = j
      /\ \A i \in 1 .. Len(order) : order[i] \in due
  BY <1>2, <1>3, OrderFacts
<1>5. /\ timer = "popping" /\ timer' = "refreshing" /\ step["timer"] = "submit"
      /\ UNCHANGED <<filled, submits, task, outcome, hooked, saved, cb, cbBy, scanAt, scanFound,
                     pool, event, suspendExc, step, readAt, items>>
  BY <1>0 DEF PopDue, TimerGoto, Lists
<1>6. /\ todo' \in [Submitters -> Seq(Branches)]
      /\ todo'["timer"] = order /\ todo'["parent"] = todo["parent"]
  BY <1>0, <1>2, <1>4 DEF Types, Submitters
<1>7. status' \in [Branches -> {"pending", "running", "completed", "failed", "timed", "suspended"}]
      /\ \A b \in Branches : status'[b] = IF b \in due THEN "pending" ELSE status[b]
  BY <1>0, <1>1 DEF Types
<1>8. Types'
  BY <1>0, <1>1, <1>5, <1>6, <1>7 DEF Types
<1>9. Lists'
  BY <1>0, <1>4, <1>5, <1>6 DEF Lists, Submitters
<1>10. Callbacks' /\ OneByOne'
  BY <1>0, <1>5 DEF Callbacks, OneByOne
<1>11. \A c \in Branches : /\ Last(c)' = Last(c)
                           /\ Resumable(c) => Resumable(c)'
  BY <1>5 DEF Last, Resumable
<1>12. \A c \in due : Resumable(c) /\ status[c] = "timed" /\ c \in Branches
  BY <1>0, <1>1, <1>3 DEF Places
<1>13. StatusFollows'
  <2>1. \A c \in Branches : submits[c] = 0 => status'[c] = "pending"
    BY <1>0, <1>7 DEF StatusFollows
  <2> SUFFICES ASSUME NEW c \in Branches, submits[c] # 0
               PROVE  StatusAfter(Last(c), status[c])'
    BY <2>1, <1>5 DEF StatusFollows
  <2>2. CASE c \in due
    <3>1. /\ submits[c] > 0 /\ outcome[Last(c)] = "timed" /\ cb[Last(c)] \in Past
          /\ Last(c) \in Futures
      BY <2>2, <1>0, <1>12, FutureFacts DEF Resumable
    <3>2. task[Last(c)] # "cancelled"
      BY <3>1, <1>0 DEF Callbacks
    <3> QED
      BY <2>2, <3>1, <3>2, <1>5, <1>7, <1>11 DEF StatusAfter, Past
  <2>3. CASE c \notin due
    <3>1. StatusAfter(Last(c), status[c])
      BY <1>0 DEF StatusFollows
    <3> QED
      BY <3>1, <2>3, <1>5, <1>7, <1>11 DEF StatusAfter
  <2> QED
    BY <2>2, <2>3
<1>14. Places'
  <2>1. \A c \in heap' : Resumable(c)' /\ status'[c] = "timed"
    BY <1>0, <1>1, <1>7, <1>11 DEF Places, Types
  <2>2. Waiting("timer")' \subseteq due
    BY <1>4, <1>6 DEF Waiting
  <2>3. \A c \in Waiting("timer")' : Resumable(c)' /\ status'[c] = "pending"
    BY <2>2, <1>3, <1>7, <1>11, <1>12
  <2>4. Waiting("parent")' = Waiting("parent")
    BY <1>5, <1>6 DEF Waiting
  <2>5. \A c \in Waiting("parent")' : submits'[c] = 0
    BY <2>4, <1>0, <1>5 DEF Places
  <2>6. ASSUME NEW t \in Submitters, step'[t] \in {"run", "hook"}
        PROVE  /\ submits[Head(todo'[t])] > 0 /\ ~hooked'[Last(Head(todo[t]))']
               /\ t = "parent" <=> submits[Head(todo'[t])] = 1
               /\ status'[Head(todo'[t])] = IF step'[t] = "run" THEN "pending" ELSE "running"
    <3>1. t = "parent" /\ todo'[t] = todo[t] /\ step[t] \in {"run", "hook"} /\ todo[t] # <<>>
      BY <2>6, <1>0, <1>5, <1>6 DEF Submitters, Lists
    <3>2. Head(todo[t]) \in Branches
      BY <3>1, <1>0, HeadFacts
    <3>3. /\ submits[Head(todo[t])] > 0 /\ ~hooked[Last(Head(todo[t]))]
          /\ t = "parent" <=> submits[Head(todo[t])] = 1
          /\ status[Head(todo[t])] = IF step[t] = "run" THEN "pending" ELSE "running"
      BY <3>1, <1>0 DEF Places
    <3>4. Head(todo[t]) \notin due
      BY <3>3, <1>12
    <3> QED
      BY <3>1, <3>2, <3>3, <3>4, <1>5, <1>7, <1>11
  <2> QED
    BY <2>1, <2>3, <2>5, <2>6, <1>5 DEF Places
<1> QED
  BY <1>8, <1>9, <1>10, <1>13, <1>14 DEF Tracked

\* Cancelling futures that have not started suspends the branches that learn of it.
LEMMA CancelKeeps ==
  ASSUME Tracked, NEW C \in SUBSET Futures, \A f \in C : task[f] = "queued", CancelTasks(C),
         UNCHANGED <<outcome, hooked, submits, todo, step>>,
         heap' \in {heap, {}}
  PROVE  /\ Callbacks' /\ OneByOne' /\ StatusFollows' /\ Places'
         /\ task' \in [Futures -> {"none", "queued", "running", "concluded", "done", "cancelled"}]
         /\ cb' \in [Futures -> CbSteps]
         /\ status' \in [Branches -> {"pending", "running", "completed", "failed", "timed",
                                      "suspended"}]
<1>0. Types /\ Callbacks /\ OneByOne /\ StatusFollows /\ Places /\ Lists
  BY DEF Tracked
<1> DEFINE told == {f \in C : hooked[f]}
<1>1. /\ \A f \in Futures : task'[f] = IF f \in C THEN "cancelled" ELSE task[f]
      /\ \A f \in Futures : cb'[f] = IF f \in C /\ hooked[f] THEN "ended" ELSE cb[f]
      /\ \A b \in Branches :
           status'[b] = IF \E f \in told : f[1] = b THEN "suspended" ELSE status[b]
      /\ task' \in [Futures -> {"none", "queued", "running", "concluded", "done", "cancelled"}]
      /\ cb' \in [Futures -> CbSteps]
      /\ status' \in [Branches -> {"pending", "running", "completed", "failed", "timed",
                                   "suspended"}]
  BY <1>0 DEF CancelTasks, Types, CbSteps
<1>2. \A f \in C : /\ task[f] = "queued" /\ cb[f] = "none" /\ outcome[f] = "none" /\ f \in Futures
                   /\ f = Last(f[1]) /\ submits[f[1]] > 0 /\ f[1] \in Branches
  <2> SUFFICES ASSUME NEW f \in C
               PROVE  /\ task[f] = "queued" /\ cb[f] = "none" /\ outcome[f] = "none" /\ f \in Futures
                      /\ f = Last(f[1]) /\ submits[f[1]] > 0 /\ f[1] \in Branches
    OBVIOUS
  <2>1. task[f] = "queued" /\ cb[f] = "none" /\ outcome[f] = "none"
    BY <1>0 DEF Callbacks
  <2> QED
    BY <2>1, <1>0, Current DEF Past
<1>3. Callbacks'
  BY <1>0, <1>1, <1>2 DEF Callbacks
<1>4. OneByOne'
  BY <1>0, <1>1, <1>2 DEF OneByOne, Past
<1>5. \A c \in Branches : Last(c)' = Last(c) /\ (submits[c] > 0 => Last(c) \in Futures)
  BY <1>0, FutureFacts DEF Last
<1>6. \A c \in Branches : status'[c] = IF submits[c] > 0 /\ Last(c) \in told
                                       THEN "suspended" ELSE status[c]
  <2> SUFFICES ASSUME NEW c \in Branches
               PROVE  (\E f \in told : f[1] = c) <=> submits[c] > 0 /\ Last(c) \in told
    BY <1>1
  <2>1. Last(c)[1] = c
    BY <1>0, FutureFacts
  <2> QED
    BY <2>1, <1>2
<1>7. StatusFollows'
  <2>1. \A c \in Branches : submits[c] = 0 => status'[c] = "pending" /\ ~(submits[c] > 0)
    BY <1>0, <1>6 DEF StatusFollows
  <2> SUFFICES ASSUME NEW c \in Branches, submits[c] # 0
               PROVE  StatusAfter(Last(c), status[c])'
    BY <2>1 DEF StatusFollows
  <2>2. submits[c] > 0 /\ Last(c) \in Futures
    BY <1>0, FutureFacts
  <2>3. StatusAfter(Last(c), status[c])
    BY <1>0 DEF StatusFollows
  <2>4. CASE Last(c) \in told
    <3>1. cb'[Last(c)] = "ended" /\ status'[c] = "suspended" /\ outcome'[Last(c)] = "none"
      BY <2>2, <2>4, <1>1, <1>2, <1>6
    <3> QED
      BY <3>1, <1>5 DEF StatusAfter, Past
  <2>5. CASE Last(c) \notin told
    <3>1. cb'[Last(c)] = cb[Last(c)] /\ status'[c] = status[c]
      BY <2>2, <2>5, <1>1, <1>6
    <3>2. Last(c) \in C => cb[Last(c)] = "none"
      BY <1>2
    <3>3. task'[Last(c)] = task[Last(c)] \/ cb[Last(c)] = "none"
      BY <3>2, <2>2, <1>1
    <3> QED
      BY <3>1, <3>3, <2>3, <1>5 DEF StatusAfter, Past
  <2> QED
    BY <2>4, <2>5
<1>8. Places'
  <2>1. \A c \in Branches : Resumable(c) =>
          Resumable(c)' /\ status'[c] = status[c]
    BY <1>1, <1>2, <1>5, <1>6 DEF Resumable, Past
  <2>2. \A c \in heap' : Resumable(c)' /\ status'[c] = "timed"
    BY <2>1, <1>0 DEF Places, Types
  <2>3. \A t \in Submitters : \A c \in Waiting(t)' : c \in Waiting(t) /\ c \in Branches
    BY DEF Waiting
  <2>4. \A c \in Waiting("timer")' : Resumable(c)' /\ status'[c] = "pending"
    BY <2>1, <2>3, <1>0 DEF Places, Submitters
  <2>5. \A c \in Waiting("parent")' : submits'[c] = 0
    BY <2>3, <1>0 DEF Places, Submitters
  <2>6. ASSUME NEW t \in Submitters, step[t] \in {"run", "hook"}
        PROVE  /\ submits[Head(todo[t])] > 0 /\ ~hooked[Last(Head(todo[t]))']
               /\ t = "parent" <=> submits[Head(todo[t])] = 1
               /\ status'[Head(todo[t])] = IF step[t] = "run" THEN "pending" ELSE "running"
    <3>1. todo[t] # <<>>
      BY <2>6, <1>0 DEF Lists
    <3>2. Head(todo[t]) \in Branches
      BY <3>1, <1>0, HeadFacts
    <3>3. /\ submits[Head(todo[t])] > 0 /\ ~hooked[Last(Head(todo[t]))]
          /\ t = "parent" <=> submits[Head(todo[t])] = 1
          /\ status[Head(todo[t])] = IF step[t] = "run" THEN "pending" ELSE "running"
      BY <2>6, <1>0 DEF Places
    <3> QED
      BY <3>2, <3>3, <1>5, <1>6
  <2> QED
    BY <2>2, <2>4, <2>5, <2>6 DEF Places
<1> QED
  BY <1>1, <1>3, <1>4, <1>7, <1>8

LEMMA CancelPendingKeeps == ASSUME Tracked, CancelPending PROVE Tracked'
<1> USE DEF poolVars, sharedVars, timerVars, submitVars
<1> DEFINE C == {f \in Futures : task[f] = "queued" /\ f[2] = 1}
<1>0. Types /\ Lists
  BY DEF Tracked
<1>1. /\ CancelTasks(C) /\ C \in SUBSET Futures /\ \A f \in C : task[f] = "queued"
      /\ UNCHANGED <<filled, submits, outcome, hooked, saved, cbBy, scanAt, scanFound, pool, event,
                     suspendExc, heap, timer, todo, step, readAt, items>>
  BY DEF CancelPending
<1> HIDE DEF C
<1>2. /\ Callbacks' /\ OneByOne' /\ StatusFollows' /\ Places'
      /\ task' \in [Futures -> {"none", "queued", "running", "concluded", "done", "cancelled"}]
      /\ cb' \in [Futures -> CbSteps]
      /\ status' \in [Branches -> {"pending", "running", "completed", "failed", "timed",
                                   "suspended"}]
  BY <1>1, CancelKeeps
<1>3. Types'
  BY <1>0, <1>1, <1>2 DEF Types
<1>4. Lists'
  BY <1>0, <1>1 DEF Lists
<1> QED
  BY <1>2, <1>3, <1>4 DEF Tracked

LEMMA ShutDownKeeps == ASSUME Tracked, ShutDown PROVE Tracked'
<1> USE DEF sharedVars, submitVars
<1> DEFINE C == {f \in Futures : task[f] = "queued"}
<1>0. Types /\ Lists
  BY DEF Tracked
<1>1. /\ CancelTasks(C) /\ C \in SUBSET Futures /\ \A f \in C : task[f] = "queued"
      /\ heap' = {} /\ pool' = <<>>
      /\ UNCHANGED <<filled, submits, outcome, hooked, saved, cbBy, scanAt, scanFound, event,
                     suspendExc, timer, todo, step, readAt, items>>
  BY DEF ShutDown
<1> HIDE DEF C
<1>2. /\ Callbacks' /\ OneByOne' /\ StatusFollows' /\ Places'
      /\ task' \in [Futures -> {"none", "queued", "running", "concluded", "done", "cancelled"}]
      /\ cb' \in [Futures -> CbSteps]
      /\ status' \in [Branches -> {"pending", "running", "completed", "failed", "timed",
                                   "suspended"}]
  BY <1>1, CancelKeeps
<1>3. Types'
  <2>1. pool' \in Seq(Futures) /\ heap' \subseteq Branches
    BY <1>1
  <2> QED
    BY <2>1, <1>0, <1>1, <1>2 DEF Types
<1>4. Lists'
  BY <1>0, <1>1 DEF Lists
<1> QED
  BY <1>2, <1>3, <1>4 DEF Tracked

\* A step of the parent that moves no branch.
LEMMA ParentKeeps ==
  ASSUME Tracked, WaitForEvent \/ StopTimer \/ ReadItem \/ ReadTorn \/ Close \/ AncestorCompletes
  PROVE  Tracked'
<1> USE DEF branchVars, taskVars, cbVars, poolVars, sharedVars, timerVars, submitVars, parentVars
<1>0. Types /\ Lists
  BY DEF Tracked
<1>1. UNCHANGED <<status, filled, submits, task, outcome, hooked, saved, cb, cbBy, scanAt,
                  scanFound, pool, heap, event, suspendExc, timer, todo, step>>
  BY DEF WaitForEvent, StopTimer, ReadItem, ReadTorn, Close, AncestorCompletes
<1>2. readAt' \in 1 .. N + 1 /\ items' \in [Branches -> {"none", "ok", "fail", "started"}]
  <2>1. CASE ReadItem
    <3>1. readAt \in Branches /\ readAt' = readAt + 1
      BY <2>1, <1>0, ExecutorAssumption DEF ReadItem, Types, Branches
    <3>2. ItemOf(status[readAt]) \in {"none", "ok", "fail", "started"}
      BY DEF ItemOf
    <3>3. items' = [items EXCEPT ![readAt] = ItemOf(status[readAt])]
      BY <2>1 DEF ReadItem
    <3> QED
      BY <3>1, <3>2, <3>3, <1>0, ExecutorAssumption DEF Types, Branches
  <2>2. CASE ~ReadItem
    BY <2>2, <1>0 DEF WaitForEvent, StopTimer, ReadTorn, Close, AncestorCompletes, Types
  <2> QED
    BY <2>1, <2>2
<1>3. Types'
  BY <1>0, <1>1, <1>2 DEF Types
<1>4. Lists'
  BY <1>0, <1>1 DEF Lists
<1>5. \A t \in Submitters : Waiting(t)' \subseteq Waiting(t)
  BY <1>1 DEF Waiting
<1>6. Callbacks' /\ OneByOne' /\ StatusFollows' /\ Places'
  BY <1>1, <1>5, FewerWaitKeeps
<1> QED
  BY <1>3, <1>4, <1>6 DEF Tracked

-----------------------------------------------------------------------------
(* Every step *)

LEMMA InitTracked == Init => Tracked
<1> SUFFICES ASSUME Init PROVE Tracked
  OBVIOUS
<1>0. N \in Nat \ {0} /\ MaxResumes \in Nat
  BY ExecutorAssumption
<1>1. todo \in [Submitters -> Seq(Branches)]
  <2>1. [i \in Branches |-> i] \in Seq(Branches)
    <3>1. [i \in Branches |-> i] \in [1 .. N -> Branches]
      BY DEF Branches
    <3> QED
      BY <3>1, <1>0
  <2>2. <<>> \in Seq(Branches)
    OBVIOUS
  <2> QED
    BY <2>1, <2>2 DEF Init
<1>2. todo["timer"] = <<>> /\ \A i \in Branches : todo["parent"][i] = i
  BY DEF Init, Submitters
<1>3. Len(todo["parent"]) = N
  <2>1. [i \in Branches |-> i] \in [1 .. N -> Branches]
    BY DEF Branches
  <2> QED
    BY <2>1, <1>0 DEF Init, Submitters, Branches
<1>4. Types
  <2>1. pool \in Seq(Futures)
    BY DEF Init
  <2>2. readAt \in 1 .. N + 1 /\ scanAt \in [Futures -> 1 .. N + 1]
        /\ submits \in [Branches -> 0 .. MaxResumes + 1]
    BY <1>0 DEF Init
  <2> QED
    BY <2>1, <2>2, <1>1 DEF Init, Types, CbSteps, Submitters
<1>5. Callbacks
  BY DEF Init, Callbacks
<1>6. OneByOne
  BY <1>4, FutureFacts DEF Init, OneByOne
<1>7. StatusFollows
  BY DEF Init, StatusFollows
<1>8. Lists
  <2>1. Len(todo["timer"]) = 0
    BY <1>2
  <2>2. \A s \in Submitters : step[s] = "submit"
    BY DEF Init
  <2>3. \A i, j \in 1 .. Len(todo["parent"]) : todo["parent"][i] = todo["parent"][j] => i = j
    BY <1>2, <1>3 DEF Branches
  <2>4. \A i, j \in 1 .. Len(todo["timer"]) : todo["timer"][i] = todo["timer"][j] => i = j
    BY <2>1
  <2> QED
    BY <2>2, <2>3, <2>4, <1>2 DEF Lists, Submitters
<1>9. Places
  <2>1. Waiting("timer") = {}
    <3>1. Len(todo["timer"]) = 0
      BY <1>2
    <3> QED
      BY <3>1 DEF Waiting
  <2>2. \A b \in Waiting("parent") : submits[b] = 0
    BY DEF Init, Waiting
  <2> QED
    BY <2>1, <2>2 DEF Init, Places
<1> QED
  BY <1>4, <1>5, <1>6, <1>7, <1>8, <1>9 DEF Tracked

LEMMA TrackedStays == ASSUME Tracked, [Next]_vars PROVE Tracked'
<1>1. ASSUME NEW s \in Submitters, Submit(s) PROVE Tracked'
  BY <1>1, PoolSubmitKeeps, MarkRunningKeeps, HookKeeps, AfterInlineKeeps DEF Submit
<1>2. ASSUME NEW f \in Futures, Branch(f) PROVE Tracked'
  BY <1>2, ConcludeKeeps, FinishTaskKeeps DEF Branch
<1>3. ASSUME NEW f \in Futures, Callback(f) PROVE Tracked'
  BY <1>3, MarkKeeps, MarkCancelledKeeps, EscapeKeeps, StoreKeeps, CountKeeps, ScheduleKeeps,
     CheckKeeps, ScanKeeps, DecideKeeps DEF Callback
<1>4. CASE StartTask
  BY <1>4, StartTaskKeeps
<1>5. CASE Timer
  BY <1>5, TimerKeeps, PopDueKeeps, PoolRefusesKeeps DEF Timer
<1>6. CASE Parent \/ AncestorCompletes
  BY <1>6, ParentKeeps, CancelPendingKeeps, ShutDownKeeps DEF Parent
<1>7. CASE UNCHANGED vars
  <2>0. Types /\ Lists
    BY DEF Tracked
  <2>1. UNCHANGED <<status, filled, submits, task, outcome, hooked, saved, cb, cbBy, scanAt,
                    scanFound, pool, heap, event, suspendExc, timer, todo, step, readAt, items>>
    BY <1>7 DEF vars, branchVars, taskVars, cbVars, poolVars, sharedVars, timerVars, submitVars,
                parentVars
  <2>2. \A t \in Submitters : Waiting(t)' \subseteq Waiting(t)
    BY <2>1 DEF Waiting
  <2>3. Types' /\ Lists'
    BY <2>0, <2>1 DEF Types, Lists
  <2> QED
    BY <2>1, <2>2, <2>3, FewerWaitKeeps DEF Tracked
<1> QED
  BY <1>1, <1>2, <1>3, <1>4, <1>5, <1>6, <1>7 DEF Next, Threads

\* How the callbacks come to a scan, and go through it.
LEMMA ScanSteps ==
  ASSUME Tracked, Threads \/ AncestorCompletes, NEW f \in Futures
  PROVE  /\ \/ scanAt'[f] = scanAt[f]
            \/ /\ cb[f] = "scan" /\ cb'[f] = "scan" /\ scanAt'[f] = scanAt[f] + 1
               /\ status[scanAt[f]] \notin {"pending", "running"}
               /\ status' = status
         /\ cb[f] \in {"scan", "ended"} => cb'[f] \in {"scan", "ended"}
         /\ cb'[f] = "scan" => cb[f] \in {"check", "scan"}
<1>0. Types /\ Callbacks /\ Places /\ Lists /\ cb \in [Futures -> CbSteps]
      /\ scanAt \in [Futures -> 1 .. N + 1]
  BY DEF Tracked, Types
<1> DEFINE Goal ==
      /\ \/ scanAt'[f] = scanAt[f]
         \/ /\ cb[f] = "scan" /\ cb'[f] = "scan" /\ scanAt'[f] = scanAt[f] + 1
            /\ status[scanAt[f]] \notin {"pending", "running"}
            /\ status' = status
      /\ cb[f] \in {"scan", "ended"} => cb'[f] \in {"scan", "ended"}
      /\ cb'[f] = "scan" => cb[f] \in {"check", "scan"}
<1>1. ASSUME NEW s \in Submitters, Submit(s) PROVE Goal
  <2>1. CASE Hook(s)
    <3>1. /\ todo[s] # <<>> /\ step[s] = "hook" /\ scanAt' = scanAt
          /\ \/ cb' = [cb EXCEPT ![Last(Head(todo[s]))] = "mark"]
             \/ cb' = cb
      BY <2>1 DEF Hook, Submitting, Submitted, Last
    <3>2. Last(Head(todo[s])) \in Futures /\ cb[Last(Head(todo[s]))] = "none"
      <4>1. ~hooked[Last(Head(todo[s]))] /\ submits[Head(todo[s])] > 0
        BY <3>1, <1>0 DEF Places
      <4>2. Last(Head(todo[s])) \in Futures
        BY <4>1, <3>1, <1>0, HeadFacts, FutureFacts
      <4> QED
        BY <4>1, <4>2, <1>0 DEF Callbacks
    <3> QED
      BY <3>1, <3>2, <1>0
  <2>2. CASE ~Hook(s)
    BY <2>2, <1>1 DEF Submit, PoolSubmit, MarkRunning, AfterInline, cbVars
  <2> QED
    BY <2>1, <2>2
<1>2. ASSUME NEW g \in Futures, Branch(g) PROVE Goal
  <2>1. CASE FinishTask(g)
    <3>1. cb[g] = "none"
      BY <2>1, <1>0 DEF FinishTask, Callbacks
    <3> QED
      BY <2>1, <3>1, <1>0 DEF FinishTask
  <2>2. CASE \E o \in OutcomeKinds \cup {"orphaned"} : Conclude(g, o)
    BY <2>2 DEF Conclude, cbVars
  <2> QED
    BY <2>1, <2>2, <1>2 DEF Branch
<1>3. ASSUME NEW g \in Futures, Callback(g) PROVE Goal
  <2>1. CASE Mark(g) \/ MarkCancelled(g) \/ Escape(g) \/ Store(g) \/ Count(g) \/ Schedule(g)
    BY <2>1, <1>0 DEF Mark, MarkCancelled, Escape, Store, Count, Schedule, CbGoto
  <2>2. CASE Check(g)
    BY <2>2, <1>0 DEF Check
  <2>3. CASE Scan(g)
    <3>1. CASE g = f
      BY <2>3, <3>1, <1>0 DEF Scan, branchVars
    <3>2. CASE g # f
      BY <2>3, <3>2, <1>0 DEF Scan
    <3> QED
      BY <3>1, <3>2
  <2>4. CASE Decide(g)
    BY <2>4, <1>0 DEF Decide, CbGoto
  <2> QED
    BY <2>1, <2>2, <2>3, <2>4, <1>3 DEF Callback
<1>4. CASE StartTask \/ Timer
  BY <1>4 DEF StartTask, Timer, Looks, PopDue, PopNothing, Refreshed, RefreshEscapes, Resubmitted,
              TimerEnds, PoolRefuses, cbVars
<1>5. CASE CancelPending \/ ShutDown
  BY <1>5 DEF CancelPending, ShutDown, CancelTasks
<1>6. CASE WaitForEvent \/ StopTimer \/ ReadItem \/ ReadTorn \/ Close \/ AncestorCompletes
  BY <1>6 DEF WaitForEvent, StopTimer, ReadItem, ReadTorn, Close, AncestorCompletes, cbVars
<1> QED
  BY <1>1, <1>2, <1>3, <1>4, <1>5, <1>6 DEF Threads, Parent

\* No branch that a scan has passed can make progress at any later time of the scan.
LEMMA ScansStay == ASSUME Tracked, Tracked', Scans, [Next]_vars PROVE Scans'
<1>0. /\ Types /\ Types' /\ Places' /\ N \in Nat
      /\ scanAt \in [Futures -> 1 .. N + 1] /\ over \in [Futures -> SUBSET Branches]
  BY ExecutorAssumption DEF Tracked, Types, Scans
<1>1. CASE UNCHANGED vars
  BY <1>1 DEF vars, cbVars, Scans
<1>2. CASE Next
  <2>1. over' = [f \in Futures |-> IF cb'[f] # "scan" THEN {}
                                  ELSE IF cb[f] = "scan" THEN over[f] \cap Active'
                                  ELSE Active']
    BY <1>2 DEF Next, Observe
  <2>2. Active' \subseteq Branches
    BY DEF Active
  <2>3. \A b \in Active' : status'[b] \in {"pending", "running"}
    BY <1>0 DEF Active, Places, Waiting
  <2>4. \A f \in Futures : over'[f] = IF cb'[f] # "scan" THEN {}
                                      ELSE IF cb[f] = "scan" THEN over[f] \cap Active'
                                      ELSE Active'
    BY <2>1
  <2>5. \A f \in Futures : (IF cb'[f] # "scan" THEN {}
                            ELSE IF cb[f] = "scan" THEN over[f] \cap Active'
                            ELSE Active') \in SUBSET Branches
    BY <2>2
  <2>6. over' \in [Futures -> SUBSET Branches]
    BY <2>1, <2>5
  <2>7. ASSUME NEW f \in Futures
        PROVE  /\ cb'[f] \notin {"scan", "ended"} => scanAt'[f] = 1
               /\ \A b \in over'[f] : cb'[f] = "scan" /\ b >= scanAt'[f]
    <3>1. /\ \/ scanAt'[f] = scanAt[f]
             \/ /\ cb[f] = "scan" /\ cb'[f] = "scan" /\ scanAt'[f] = scanAt[f] + 1
                /\ status[scanAt[f]] \notin {"pending", "running"}
                /\ status' = status
          /\ cb[f] \in {"scan", "ended"} => cb'[f] \in {"scan", "ended"}
          /\ cb'[f] = "scan" => cb[f] \in {"check", "scan"}
      BY <1>2, ScanSteps DEF Next
    <3>2. /\ cb[f] \notin {"scan", "ended"} => scanAt[f] = 1
          /\ \A b \in over[f] : cb[f] = "scan" /\ b >= scanAt[f]
          /\ scanAt[f] \in Nat
      BY <1>0 DEF Scans
    <3>3. cb'[f] \notin {"scan", "ended"} => scanAt'[f] = 1
      BY <3>1, <3>2
    <3>4. ASSUME NEW b \in over'[f] PROVE cb'[f] = "scan" /\ b >= scanAt'[f]
      <4>1. cb'[f] = "scan" /\ b \in Active' /\ b \in Branches
        BY <2>2, <2>4, <3>4
      <4>2. b \in Nat /\ b >= 1
        BY <4>1 DEF Branches
      <4>3. CASE cb[f] # "scan"
        BY <4>1, <4>2, <4>3, <3>1, <3>2
      <4>4. CASE cb[f] = "scan"
        <5>1. b \in over[f]
          BY <4>1, <4>4, <2>4, <3>4
        <5>2. b >= scanAt[f] /\ status'[b] \in {"pending", "running"}
          BY <5>1, <4>1, <3>2, <2>3
        <5> QED
          BY <5>2, <4>1, <4>2, <3>1, <3>2
      <4> QED
        BY <4>3, <4>4
    <3> QED
      BY <3>3, <3>4
  <2> QED
    BY <2>6, <2>7 DEF Scans
<1> QED
  BY <1>1, <1>2

LEMMA TrackedAreTracked == ASSUME Tracked, Scans PROVE BranchesAreTracked
<1>0. Types /\ Callbacks /\ OneByOne /\ Places
  BY DEF Tracked
<1>1. ASSUME NEW f \in Futures, Running(f)
      PROVE  /\ f = Last(f[1]) /\ f[1] \notin heap
             /\ \A g \in Futures : Running(g) /\ f[1] = g[1] => f = g
  <2>1. \A g \in Futures : Running(g) => cb[g] = "none" /\ g = Last(g[1])
    <3> SUFFICES ASSUME NEW g \in Futures, Running(g) PROVE cb[g] = "none" /\ g = Last(g[1])
      OBVIOUS
    <3>1. cb[g] = "none"
      BY <1>0 DEF Callbacks, Running
    <3> QED
      BY <3>1, <1>0, Current DEF Running, Past
  <2>2. f[1] \notin heap
    BY <2>1, <1>0, <1>1 DEF Places, Resumable, Past
  <2> QED
    BY <2>1, <2>2, <1>1
<1>2. ASSUME NEW f \in Futures, AboutToSuspend(f) PROVE over[f] = {}
  <2>1. \A b \in over[f] : b \in Branches /\ b >= scanAt[f] /\ scanAt[f] > N
    BY <1>2 DEF Scans, AboutToSuspend
  <2>2. \A b \in Branches : b <= N /\ b \in Nat
    BY ExecutorAssumption DEF Branches
  <2>3. scanAt[f] \in Nat /\ N \in Nat
    BY <1>0, ExecutorAssumption DEF Types
  <2> QED
    BY <2>1, <2>2, <2>3
<1> QED
  BY <1>1, <1>2 DEF BranchesAreTracked

\* A branch is in one place at a time, and a scan that is over has passed every branch: the
\* batch neither runs a branch twice at a time nor suspends past one that can make progress.
THEOREM BranchesStayTracked == Spec => []BranchesAreTracked
<1>1. Init => Tracked /\ Scans
  <2>1. Init => Scans
    BY DEF Init, Scans
  <2> QED
    BY <2>1, InitTracked
<1>2. Tracked /\ Scans /\ [Next]_vars => (Tracked /\ Scans)'
  BY TrackedStays, ScansStay
<1>3. Tracked /\ Scans => BranchesAreTracked
  BY TrackedAreTracked
<1> QED
  BY <1>1, <1>2, <1>3, PTL DEF Spec

-----------------------------------------------------------------------------
(* The result *)

\* A branch is completed or failed when its outcome has been recorded as such.
LEMMA StatusTellsOutcome ==
  ASSUME Tracked, NEW b \in Branches
  PROVE  /\ status[b] = "completed" => submits[b] > 0 /\ outcome[Last(b)] = "ok"
         /\ status[b] = "failed" => submits[b] > 0 /\ outcome[Last(b)] = "fail"
         /\ submits[b] > 0 /\ cb[Last(b)] \in Past /\ outcome[Last(b)] = "ok"
              => status[b] = "completed"
         /\ submits[b] > 0 /\ cb[Last(b)] \in Past /\ outcome[Last(b)] = "fail"
              => status[b] = "failed"
<1>0. Types /\ Callbacks /\ StatusFollows
  BY DEF Tracked
<1>1. CASE submits[b] = 0
  BY <1>1, <1>0 DEF StatusFollows
<1>2. CASE submits[b] # 0
  <2>1. submits[b] > 0 /\ Last(b) \in Futures /\ StatusAfter(Last(b), status[b])
    BY <1>2, <1>0, FutureFacts DEF StatusFollows
  <2>2. cb[Last(b)] \in CbSteps /\ outcome[Last(b)] \in OutcomeKinds \cup {"none", "orphaned"}
        /\ task[Last(b)] \in {"none", "queued", "running", "concluded", "done", "cancelled"}
    BY <2>1, <1>0 DEF Types
  <2>3. /\ cb[Last(b)] # "none" => task[Last(b)] \in {"done", "cancelled"}
        /\ cb[Last(b)] \in {"store", "count"} => outcome[Last(b)] \in {"ok", "fail"}
        /\ outcome[Last(b)] = "none" => task[Last(b)] \notin {"done"}
    BY <2>1, <1>0 DEF Callbacks
  <2> QED
    BY <2>1, <2>2, <2>3 DEF StatusAfter, Past, CbSteps, OutcomeKinds
<1> QED
  BY <1>1, <1>2

\* The branch of a callback that has yet to mark is running, like one told of a cancellation.
LEMMA MarkedWasRunning ==
  ASSUME Tracked, NEW f \in Futures,
         cb[f] = "mark" \/ (task[f] = "queued" /\ hooked[f])
  PROVE  /\ status[f[1]] = "running" /\ f = Last(f[1]) /\ f[1] \in Branches
         /\ submits[f[1]] > 0
<1>0. Types /\ Callbacks /\ OneByOne /\ StatusFollows
  BY DEF Tracked
<1>1. task[f] # "none" /\ cb[f] \in {"mark", "none"} /\ (cb[f] = "none" => hooked[f])
  BY <1>0 DEF Callbacks
<1>2. f = Last(f[1]) /\ f[1] \in Branches /\ submits[f[1]] > 0
  BY <1>0, <1>1, Current DEF Past
<1>3. StatusAfter(f, status[f[1]])
  BY <1>0, <1>2 DEF StatusFollows
<1> QED
  BY <1>1, <1>2, <1>3 DEF StatusAfter

LEMMA CancelledWereRunning ==
  ASSUME Tracked, CancelPending \/ ShutDown, NEW b \in Branches, status'[b] # status[b]
  PROVE  status[b] = "running"
<1> PICK C \in SUBSET Futures : CancelTasks(C) /\ \A f \in C : task[f] = "queued"
  BY DEF CancelPending, ShutDown
<1>1. status' = [c \in Branches |-> IF \E f \in {g \in C : hooked[g]} : f[1] = c
                                    THEN "suspended" ELSE status[c]]
  BY DEF CancelTasks
<1>2. PICK f \in C : hooked[f] /\ f[1] = b
  BY <1>1
<1> QED
  BY <1>2, MarkedWasRunning

\* What has completed or failed stays so.
LEMMA StatusStays ==
  ASSUME Tracked, Threads \/ AncestorCompletes, NEW b \in Branches,
         status[b] \in {"completed", "failed"}
  PROVE  status'[b] = status[b]
<1>0. Types /\ Places /\ status \in [Branches -> {"pending", "running", "completed", "failed",
                                                  "timed", "suspended"}]
  BY DEF Tracked, Types
<1>1. ASSUME NEW s \in Submitters, Submit(s) PROVE status'[b] = status[b]
  BY <1>0, <1>1 DEF Submit, PoolSubmit, MarkRunning, Hook, AfterInline, branchVars
<1>2. ASSUME NEW g \in Futures, Branch(g) PROVE status'[b] = status[b]
  BY <1>2 DEF Branch, Conclude, FinishTask, branchVars
<1>3. ASSUME NEW g \in Futures, Callback(g) PROVE status'[b] = status[b]
  <2>1. CASE Mark(g) \/ MarkCancelled(g)
    <3>1. status[g[1]] = "running"
      BY <2>1, MarkedWasRunning DEF Mark, MarkCancelled, CbGoto
    <3>2. status' = status \/ \E v : status' = [status EXCEPT ![g[1]] = v]
      BY <2>1 DEF Mark, MarkCancelled
    <3> QED
      BY <3>1, <3>2, <1>0
  <2>2. CASE ~(Mark(g) \/ MarkCancelled(g))
    BY <2>2, <1>3 DEF Callback, Escape, Store, Count, Schedule, Check, Scan, Decide, branchVars
  <2> QED
    BY <2>1, <2>2
<1>4. CASE PopDue
  <2>1. PICK due \in SUBSET heap \ {{}} :
          status' = [c \in Branches |-> IF c \in due THEN "pending" ELSE status[c]]
    BY <1>4 DEF PopDue
  <2> QED
    BY <2>1, <1>0 DEF Places
<1>5. CASE StartTask \/ (Timer /\ ~PopDue)
  BY <1>5 DEF StartTask, Timer, Looks, PopNothing, Refreshed, RefreshEscapes, Resubmitted,
              TimerEnds, PoolRefuses, branchVars
<1>6. CASE CancelPending \/ ShutDown
  BY <1>6, CancelledWereRunning
<1>7. CASE WaitForEvent \/ StopTimer \/ ReadItem \/ ReadTorn \/ Close \/ AncestorCompletes
  BY <1>7 DEF WaitForEvent, StopTimer, ReadItem, ReadTorn, Close, AncestorCompletes, branchVars
<1> QED
  BY <1>1, <1>2, <1>3, <1>4, <1>5, <1>6, <1>7 DEF Threads, Parent

\* The outcomes are those of the last futures, which end once.
LEMMA SavedStays ==
  ASSUME Tracked, Threads \/ AncestorCompletes, ~Flat,
         \A b \in Branches : submits[b] > 0 /\ outcome[Last(b)] \in {"ok", "fail"}
                               => saved[b] = outcome[Last(b)]
  PROVE  \A b \in Branches : submits'[b] > 0 /\ outcome'[Last(b)'] \in {"ok", "fail"}
                               => saved'[b] = outcome'[Last(b)']
<1>0. Types /\ Callbacks /\ OneByOne /\ Places /\ Lists
  BY DEF Tracked
<1>1. CASE UNCHANGED <<submits, outcome, saved>>
  BY <1>1 DEF Last
<1>2. ASSUME NEW s \in Submitters, PoolSubmit(s)
      PROVE  \A b \in Branches : submits'[b] > 0 /\ outcome'[Last(b)'] \in {"ok", "fail"}
                                   => saved'[b] = outcome'[Last(b)']
  <2>1. /\ todo[s] # <<>>
        /\ submits' = [submits EXCEPT ![Head(todo[s])] = submits[Head(todo[s])] + 1]
        /\ outcome' = outcome /\ saved' = saved /\ todo' = todo
    BY <1>2 DEF PoolSubmit, Submitting
  <2>2. Head(todo[s]) \in Branches
    BY <2>1, <1>0, HeadFacts
  <2> DEFINE b == Head(todo[s])
             f == <<b, submits[b] + 1>>
  <2>3. submits'[b] = submits[b] + 1 /\ submits[b] \in Nat
        /\ \A c \in Branches : c # b => submits'[c] = submits[c]
    BY <2>1, <2>2, <1>0, FutureFacts DEF Types
  <2>4. \A c \in Branches : Last(c)' = IF c = b THEN f ELSE Last(c)
    BY <2>1, <2>3 DEF Last
  <2>5. f \in Futures => outcome[f] = "none"
    <3>1. ASSUME f \in Futures PROVE outcome[f] = "none"
      <4>1. f[1] = b /\ f[2] > submits[b]
        BY <2>3
      <4>2. task[f] = "none"
        BY <3>1, <4>1, <1>0 DEF OneByOne
      <4> HIDE DEF f
      <4> QED
        BY <3>1, <4>2, <1>0 DEF Callbacks
    <3> QED
      BY <3>1
  <2>6. f \in Futures
    <3>1. Tracked'
      BY <1>2, PoolSubmitKeeps
    <3>2. submits'[b] \in 0 .. MaxResumes + 1
      BY <3>1, <2>2 DEF Tracked, Types
    <3> QED
      BY <3>2, <2>2, <2>3, ExecutorAssumption DEF Futures
  <2> HIDE DEF b, f
  <2>7. ASSUME NEW c \in Branches, submits'[c] > 0, outcome'[Last(c)'] \in {"ok", "fail"}
        PROVE  saved'[c] = outcome'[Last(c)']
    <3>1. c # b
      BY <2>1, <2>4, <2>5, <2>6, <2>7
    <3> QED
      BY <3>1, <2>1, <2>3, <2>4, <2>7
  <2> QED
    BY <2>7
<1>3. ASSUME NEW f \in Futures, NEW o \in OutcomeKinds \cup {"orphaned"}, Conclude(f, o)
      PROVE  \A b \in Branches : submits'[b] > 0 /\ outcome'[Last(b)'] \in {"ok", "fail"}
                                   => saved'[b] = outcome'[Last(b)']
  <2>1. task[f] = "running" /\ cb[f] = "none"
    BY <1>3, <1>0 DEF Conclude, Callbacks
  <2>2. f = Last(f[1]) /\ f[1] \in Branches
    BY <2>1, <1>0, Current DEF Past
  <2>3. /\ outcome'[f] = o /\ \A g \in Futures : g # f => outcome'[g] = outcome[g]
        /\ saved' = IF o \in {"ok", "fail"} THEN [saved EXCEPT ![f[1]] = o] ELSE saved
        /\ submits' = submits
    BY <1>3, <1>0 DEF Conclude, Types
  <2>4. \A c \in Branches : /\ Last(c)' = Last(c) /\ (c # f[1] => Last(c) # f)
                            /\ submits[c] > 0 => Last(c) \in Futures
    BY <2>3, <1>0, FutureFacts DEF Last
  <2>5. /\ \A c \in Branches : c # f[1] => saved'[c] = saved[c]
        /\ o \in {"ok", "fail"} => saved'[f[1]] = o
    BY <2>2, <2>3, <1>0 DEF Types
  <2> QED
    BY <2>2, <2>3, <2>4, <2>5
<1> QED
  BY <1>1, <1>2, <1>3
  DEF Threads, Parent, Timer, Submit, Branch, Callback, StartTask, MarkRunning, Hook, AfterInline,
      FinishTask, Mark, MarkCancelled, Escape, Store, Count, Schedule, Check, Scan, Decide,
      Looks, PopDue, PopNothing, Refreshed, RefreshEscapes, Resubmitted, TimerEnds, PoolRefuses,
      WaitForEvent, CancelPending, StopTimer, ShutDown, ReadItem, ReadTorn, Close,
      AncestorCompletes, taskVars

LEMMA DurableStays == ASSUME Tracked, Durable, [Next]_vars PROVE Durable'
<1>0. Types /\ N \in Nat
  BY ExecutorAssumption DEF Tracked
<1>1. CASE UNCHANGED vars
  BY <1>1 DEF vars, branchVars, taskVars, parentVars, Durable, Last
<1>2. CASE Next
  <2>0. Threads \/ AncestorCompletes
    BY <1>2 DEF Next
  <2>1. ~Flat => \A b \in Branches : submits'[b] > 0 /\ outcome'[Last(b)'] \in {"ok", "fail"}
                                       => saved'[b] = outcome'[Last(b)']
    BY <2>0, SavedStays DEF Durable
  <2>2. \A b \in Branches : status[b] \in {"completed", "failed"} => status'[b] = status[b]
    BY <2>0, StatusStays
  <2>3. CASE ReadItem
    <3>1. /\ readAt <= N /\ readAt' = readAt + 1 /\ status' = status
          /\ items' = [items EXCEPT ![readAt] = ItemOf(status[readAt])]
          /\ parent' = "reading"
      BY <2>3 DEF ReadItem, branchVars
    <3>2. readAt \in Branches /\ readAt \in Nat
      BY <3>1, <1>0 DEF Types, Branches
    <3>3. items'[readAt] = ItemOf(status[readAt])
          /\ \A b \in Branches : b # readAt => items'[b] = items[b]
      BY <3>1, <3>2, <1>0 DEF Types
    <3>4. \A b \in Branches : b \in Nat
      BY DEF Branches
    <3> QED
      BY <2>1, <3>1, <3>2, <3>3, <3>4 DEF Durable, ItemOf
  <2>4. CASE ~ReadItem
    <3>1. items' = items /\ readAt' = readAt /\ (parent' = "closed" => readAt > N \/ parent = "closed")
      BY <2>0, <2>4
      DEF Threads, Parent, Timer, Submit, Branch, Callback, StartTask, PoolSubmit, MarkRunning, Hook,
          AfterInline, Conclude, FinishTask, Mark, MarkCancelled, Escape, Store, Count, Schedule,
          Check, Scan, Decide, Looks, PopDue, PopNothing, Refreshed, RefreshEscapes, Resubmitted,
          TimerEnds, PoolRefuses, WaitForEvent, CancelPending, StopTimer, ShutDown, ReadTorn, Close,
          ParentGoto, AncestorCompletes, parentVars
    <3> QED
      BY <2>1, <2>2, <3>1 DEF Durable
  <2> QED
    BY <2>3, <2>4
<1> QED
  BY <1>1, <1>2

LEMMA DurableMeansDurable == ASSUME Tracked, Durable, ~Flat PROVE OutcomesAreDurable
<1>1. \A b \in Branches : /\ status[b] = "completed" => saved[b] = "ok"
                          /\ status[b] = "failed" => saved[b] = "fail"
  BY StatusTellsOutcome DEF Durable
<1>2. ASSUME NEW b \in Branches, parent = "closed", items[b] # "started"
      PROVE  ReplayItem(b) = items[b]
  <2>1. b < readAt
    BY <1>2, ExecutorAssumption DEF Durable, Branches, Tracked, Types
  <2>2. items[b] \in {"ok", "fail"}
    BY <1>2, <2>1 DEF Durable, Tracked, Types
  <2> QED
    BY <2>2, <1>1 DEF Durable, ReplayItem
<1> QED
  BY <1>1, <1>2 DEF OutcomesAreDurable

\* Where branches have checkpoints of their own, whatever of a branch takes part in a decision
\* or a result is durable, at any time and for any number of branches.
THEOREM OutcomesAreKept == ASSUME ~Flat PROVE Spec => []OutcomesAreDurable
<1>1. Init => Tracked /\ Durable
  <2>1. Init => Durable
    BY ExecutorAssumption DEF Init, Durable, Branches
  <2> QED
    BY <2>1, InitTracked
<1>2. Tracked /\ Durable /\ [Next]_vars => (Tracked /\ Durable)'
  BY TrackedStays, DurableStays
<1>3. Tracked /\ Durable => OutcomesAreDurable
  BY DurableMeansDurable
<1> QED
  BY <1>1, <1>2, <1>3, PTL DEF Spec

-----------------------------------------------------------------------------
(* The decision *)

\* A decision to complete stands when more branches have ended.
LEMMA MoreStillComplete ==
  ASSUME NEW n \in Nat, NEW s \in Nat, NEW f \in Nat, NEW s2 \in Nat, NEW f2 \in Nat,
         s <= s2, f <= f2, s2 + f2 <= n, ShouldComplete(Config, n, s, f)
  PROVE  ShouldComplete(Config, n, s2, f2)
<1>0. IsConfig(Config)
  BY ExecutorAssumption
<1>1. ASSUME IsComplete(Config, n, s, f) PROVE IsComplete(Config, n, s2, f2)
  <2>1. MinNeeded(Config, n) \in Nat
    BY <1>0 DEF IsConfig, MinNeeded
  <2> QED
    BY <1>1, <2>1 DEF IsComplete
<1>2. ASSUME ~ShouldContinue(Config, n, f) PROVE ~ShouldContinue(Config, n, f2)
  <2>1. CASE HasTolerance(Config)
    <3>1. Exceeds(Config, n, f)
      BY <1>2, <2>1 DEF ShouldContinue
    <3>2. Exceeds(Config, n, f2)
      <4>1. CASE Config.count # None /\ f > Config.count
        BY <4>1, <1>0 DEF IsConfig, Exceeds
      <4>2. CASE Config.pct # None /\ n > 0 /\ f * 100 > Config.pct * n
        <5>1. Config.pct * n \in Nat
          <6>1. Config.pct \in Nat
            BY <4>2, <1>0 DEF IsConfig
          <6> QED
            BY <6>1
        <5>2. f2 * 100 >= f * 100 /\ f2 * 100 \in Nat /\ f * 100 \in Nat
          OBVIOUS
        <5>3. f2 * 100 > Config.pct * n
          BY <4>2, <5>1, <5>2
        <5> QED
          BY <4>2, <5>3 DEF Exceeds
      <4> QED
        BY <3>1, <4>1, <4>2 DEF Exceeds
    <3> QED
      BY <2>1, <3>2 DEF ShouldContinue
  <2>2. CASE ~HasTolerance(Config)
    BY <1>2, <2>2 DEF ShouldContinue
  <2> QED
    BY <2>1, <2>2
<1> QED
  BY <1>1, <1>2 DEF ShouldComplete

\* Two disjoint sets of branches.
LEMMA DisjointSets ==
  ASSUME NEW S \in SUBSET Branches, NEW T \in SUBSET Branches, S \cap T = {}
  PROVE  /\ IsFiniteSet(S) /\ IsFiniteSet(T)
         /\ Cardinality(S) \in Nat /\ Cardinality(T) \in Nat
         /\ Cardinality(S) + Cardinality(T) <= N
<1>1. IsFiniteSet(Branches) /\ Cardinality(Branches) = N
  BY ExecutorAssumption, FS_Interval DEF Branches
<1>2. IsFiniteSet(S) /\ IsFiniteSet(T)
  BY <1>1, FS_Subset
<1>3. Cardinality(S) \in Nat /\ Cardinality(T) \in Nat
  BY <1>2, FS_CardinalityType
<1>4. Cardinality(S \cup T) = Cardinality(S) + Cardinality(T)
  <2>1. Cardinality(S \cap T) = 0
    <3>1. Cardinality({}) = 0
      BY FS_EmptySet
    <3> QED
      BY <3>1, Zenon
  <2>2. Cardinality(S \cup T) = Cardinality(S) + Cardinality(T) - Cardinality(S \cap T)
    BY <1>2, FS_Union
  <2> QED
    BY <2>1, <2>2, <1>3
<1>5. Cardinality(S \cup T) <= N
  <2>1. S \cup T \in SUBSET Branches
    OBVIOUS
  <2> QED
    BY <2>1, <1>1, FS_Subset
<1> QED
  BY <1>2, <1>3, <1>4, <1>5

\* What a callback has counted stays counted; only Count counts.
LEMMA CountedChanges ==
  ASSUME Tracked, Threads \/ AncestorCompletes, NEW o \in {"ok", "fail"}
  PROVE  \/ Counted(o)' = Counted(o)
         \/ \E f \in Futures : Count(f) /\ outcome[f] = o
<1>0. Types /\ Callbacks /\ OneByOne /\ Places /\ Lists
      /\ cb \in [Futures -> CbSteps]
  BY DEF Tracked, Types
<1> DEFINE Goal == Counted(o)' = Counted(o)
<1>1. \A b \in Branches : /\ submits[b] > 0 => Last(b) \in Futures
                          /\ Last(b)[1] = b
  BY <1>0, FutureFacts
<1>2. ASSUME NEW s \in Submitters, PoolSubmit(s) PROVE Goal
  <2>1. /\ todo[s] # <<>> /\ step[s] = "submit" /\ cb' = cb /\ outcome' = outcome
        /\ submits' = [submits EXCEPT ![Head(todo[s])] = submits[Head(todo[s])] + 1]
        /\ todo' = todo
    BY <1>2 DEF PoolSubmit, Submitting, cbVars
  <2> DEFINE b == Head(todo[s])
             f == <<b, submits[b] + 1>>
  <2>2. b \in Branches /\ b \in Waiting(s)
    BY <2>1, <1>0, HeadFacts
  <2>3. submits'[b] = submits[b] + 1 /\ submits[b] \in Nat
        /\ \A c \in Branches : c # b => submits'[c] = submits[c]
    BY <2>1, <2>2, <1>0, FutureFacts DEF Types
  <2>4. b \notin Counted(o)
    <3>1. submits[b] = 0 \/ Resumable(b)
      BY <2>2, <1>0 DEF Places, Submitters
    <3> QED
      BY <3>1, <2>3 DEF Counted, Resumable
  <2>5. f \in Futures
    <3>1. Tracked'
      BY <1>2, PoolSubmitKeeps
    <3>2. submits'[b] \in 0 .. MaxResumes + 1
      BY <3>1, <2>2 DEF Tracked, Types
    <3> QED
      BY <3>2, <2>2, <2>3, ExecutorAssumption DEF Futures
  <2>6. outcome[f] = "none"
    <3>1. f[1] = b /\ f[2] > submits[b]
      BY <2>3
    <3>2. task[f] = "none"
      BY <3>1, <2>5, <1>0 DEF OneByOne
    <3> HIDE DEF f
    <3> QED
      BY <3>2, <2>5, <1>0 DEF Callbacks
  <2>7. \A c \in Branches : Last(c)' = IF c = b THEN f ELSE Last(c)
    BY <2>1, <2>3 DEF Last
  <2> HIDE DEF b, f
  <2>8. \A c \in Branches : c \in Counted(o)' <=> c \in Counted(o)
    <3> SUFFICES ASSUME NEW c \in Branches PROVE c \in Counted(o)' <=> c \in Counted(o)
      OBVIOUS
    <3>1. CASE c = b
      BY <3>1, <2>1, <2>4, <2>6, <2>7 DEF Counted
    <3>2. CASE c # b
      BY <3>2, <2>1, <2>3, <2>7 DEF Counted
    <3> QED
      BY <3>1, <3>2
  <2> QED
    BY <2>8 DEF Counted
\* Of a branch whose last future has ended as o, only Count moves the callback to the past.
<1>3. ASSUME submits' = submits,
             \A g \in Futures :
               (outcome'[g] = o /\ cb'[g] \in Past) <=> (outcome[g] = o /\ cb[g] \in Past)
      PROVE  Goal
  <2>1. \A c \in Branches : Last(c)' = Last(c)
    BY <1>3 DEF Last
  <2> QED
    BY <2>1, <1>1, <1>3 DEF Counted
<1>4. ASSUME NEW g \in Futures, \E r \in OutcomeKinds \cup {"orphaned"} : Conclude(g, r)
      PROVE  Goal
  <2>1. task[g] = "running" /\ cb[g] = "none" /\ cb' = cb /\ submits' = submits
        /\ \E r \in OutcomeKinds \cup {"orphaned"} : outcome' = [outcome EXCEPT ![g] = r]
    BY <1>4, <1>0 DEF Conclude, Callbacks, cbVars, OutcomeKinds
  <2> QED
    BY <2>1, <1>0, <1>3 DEF Types, Past
<1>5. ASSUME NEW s \in Submitters, Hook(s) PROVE Goal
  <2>1. /\ todo[s] # <<>> /\ step[s] = "hook" /\ UNCHANGED <<submits, outcome>>
        /\ \/ cb' = [cb EXCEPT ![Last(Head(todo[s]))] = "mark"]
           \/ cb' = cb
    BY <1>5 DEF Hook, Submitting, Submitted, Last
  <2>2. Last(Head(todo[s])) \in Futures /\ cb[Last(Head(todo[s]))] = "none"
    <3>1. ~hooked[Last(Head(todo[s]))] /\ submits[Head(todo[s])] > 0
      BY <2>1, <1>0 DEF Places
    <3>2. Last(Head(todo[s])) \in Futures
      BY <3>1, <2>1, <1>0, HeadFacts, FutureFacts
    <3> QED
      BY <3>1, <3>2, <1>0 DEF Callbacks
  <2> QED
    BY <2>1, <2>2, <1>0, <1>3 DEF Past
<1>6. ASSUME NEW g \in Futures, FinishTask(g) PROVE Goal
  <2>1. cb[g] = "none" /\ UNCHANGED <<submits, outcome>>
        /\ (cb' = [cb EXCEPT ![g] = "mark"] \/ cb' = cb)
    BY <1>6, <1>0 DEF FinishTask, Callbacks
  <2> QED
    BY <2>1, <1>0, <1>3 DEF Past
<1>7. ASSUME NEW g \in Futures, Callback(g), ~(Count(g) /\ outcome[g] = o) PROVE Goal
  <2>1. UNCHANGED <<submits, outcome>>
    BY <1>7 DEF Callback, Mark, MarkCancelled, Escape, Store, Count, Schedule, Check, Scan, Decide,
                taskVars
  <2>2. \/ cb' = cb
        \/ \E to \in CbSteps :
             /\ cb' = [cb EXCEPT ![g] = to]
             /\ (outcome[g] = o /\ to \in Past) <=> (outcome[g] = o /\ cb[g] \in Past)
    <3>1. CASE Mark(g)
      BY <3>1, <1>0 DEF Mark, CbGoto, Past, CbSteps
    <3>2. CASE MarkCancelled(g)
      BY <3>2, <1>0 DEF MarkCancelled, Callbacks, CbGoto, Past, CbSteps
    <3>3. CASE Escape(g)
      BY <3>3, <1>0 DEF Escape, CbGoto, Past, CbSteps
    <3>4. CASE Store(g)
      BY <3>4, <1>0 DEF Store, CbGoto, Past, CbSteps
    <3>5. CASE Count(g)
      BY <3>5, <1>0, <1>7 DEF Count, CbGoto, Past, CbSteps
    <3>6. CASE Schedule(g)
      BY <3>6, <1>0 DEF Schedule, Callbacks, CbGoto, Past, CbSteps
    <3>7. CASE Check(g)
      BY <3>7, <1>0 DEF Check, Past, CbSteps
    <3>8. CASE Scan(g)
      BY <3>8, <1>0 DEF Scan, Past, CbSteps
    <3>9. CASE Decide(g)
      BY <3>9, <1>0 DEF Decide, CbGoto, Past, CbSteps
    <3> QED
      BY <1>7, <3>1, <3>2, <3>3, <3>4, <3>5, <3>6, <3>7, <3>8, <3>9 DEF Callback
  <2> QED
    BY <2>1, <2>2, <1>0, <1>3
<1>8. CASE CancelPending \/ ShutDown
  <2>1. UNCHANGED <<submits, outcome>>
    BY <1>8 DEF CancelPending, ShutDown
  <2>2. PICK C \in SUBSET Futures : CancelTasks(C) /\ \A f \in C : task[f] = "queued"
    BY <1>8 DEF CancelPending, ShutDown
  <2>3. cb' = [f \in Futures |-> IF f \in {g \in C : hooked[g]} THEN "ended" ELSE cb[f]]
    BY <2>2 DEF CancelTasks
  <2>4. \A f \in C : outcome[f] # o
    BY <2>2, <1>0 DEF Callbacks
  <2> QED
    BY <2>1, <2>3, <2>4, <1>3
<1>9. CASE UNCHANGED <<submits, outcome, cb>>
  BY <1>9, <1>3
<1> QED
  BY <1>2, <1>4, <1>5, <1>6, <1>7, <1>8, <1>9
  DEF Threads, Parent, Timer, Submit, Branch, StartTask, MarkRunning, AfterInline,
      Looks, PopDue, PopNothing, Refreshed, RefreshEscapes, Resubmitted, TimerEnds, PoolRefuses,
      WaitForEvent, StopTimer, ReadItem, ReadTorn, Close, AncestorCompletes, taskVars, cbVars

Counts == succ = Cardinality(Counted("ok")) /\ fails = Cardinality(Counted("fail"))

LEMMA CountsBound ==
  ASSUME Counts
  PROVE  succ \in Nat /\ fails \in Nat /\ succ + fails <= N
<1>1. /\ Counted("ok") \in SUBSET Branches /\ Counted("fail") \in SUBSET Branches
      /\ Counted("ok") \cap Counted("fail") = {}
  BY DEF Counted
<1> QED
  BY <1>1, DisjointSets DEF Counts

\* The counters count the branches, and what they have counted stays.
LEMMA CountsStay ==
  ASSUME Tracked, Counts, Threads \/ AncestorCompletes
  PROVE  /\ Counts'
         /\ Counted("ok") \subseteq Counted("ok")' /\ Counted("fail") \subseteq Counted("fail")'
         /\ succ <= succ' /\ fails <= fails'
<1>0. Types /\ Callbacks /\ OneByOne /\ cb \in [Futures -> CbSteps]
  BY DEF Tracked, Types
<1>1. succ \in Nat /\ fails \in Nat
  BY CountsBound
<1>2. CASE \E f \in Futures : Count(f)
  <2>1. PICK f \in Futures : Count(f)
    BY <1>2
  <2>2. /\ cb[f] = "count" /\ cb' = [cb EXCEPT ![f] = "check"]
        /\ UNCHANGED <<submits, outcome>>
        /\ succ' = IF outcome[f] = "ok" THEN succ + 1 ELSE succ
        /\ fails' = IF outcome[f] = "fail" THEN fails + 1 ELSE fails
    BY <2>1 DEF Count, CbGoto, taskVars
  <2>3. outcome[f] \in {"ok", "fail"} /\ task[f] = "done"
    BY <2>2, <1>0 DEF Callbacks
  <2>4. f = Last(f[1]) /\ f[1] \in Branches /\ submits[f[1]] > 0
    BY <2>2, <2>3, <1>0, Current DEF Past
  <2>5. \A c \in Branches : /\ Last(c)' = Last(c) /\ (c # f[1] => Last(c) # f)
                            /\ submits[c] > 0 => Last(c) \in Futures
    BY <2>2, <1>0, FutureFacts DEF Last
  <2>6. cb'[f] = "check" /\ \A g \in Futures : g # f => cb'[g] = cb[g]
    BY <2>2, <1>0
  <2>7. \A c \in Branches : c # f[1] => /\ c \in Counted("ok")' <=> c \in Counted("ok")
                                        /\ c \in Counted("fail")' <=> c \in Counted("fail")
    BY <2>2, <2>5, <2>6 DEF Counted
  <2>8. /\ f[1] \notin Counted("ok") /\ f[1] \notin Counted("fail")
        /\ f[1] \in Counted("ok")' <=> outcome[f] = "ok"
        /\ f[1] \in Counted("fail")' <=> outcome[f] = "fail"
    BY <2>2, <2>4, <2>5, <2>6 DEF Counted, Past
  <2>9. /\ Counted("ok") \in SUBSET Branches /\ Counted("fail") \in SUBSET Branches
        /\ Counted("ok")' \in SUBSET Branches /\ Counted("fail")' \in SUBSET Branches
        /\ Counted("ok") \cap Counted("fail") = {}
    BY DEF Counted
  <2>10. IsFiniteSet(Counted("ok")) /\ IsFiniteSet(Counted("fail"))
    BY <2>9, DisjointSets
  <2>11. CASE outcome[f] = "ok"
    <3>1. /\ Counted("ok")' = Counted("ok") \cup {f[1]}
          /\ Counted("fail")' = Counted("fail")
      BY <2>4, <2>7, <2>8, <2>9, <2>11
    <3>2. Cardinality(Counted("ok")') = Cardinality(Counted("ok")) + 1
      BY <3>1, <2>8, <2>10, FS_AddElement
    <3> QED
      BY <3>1, <3>2, <2>2, <2>11, <1>1 DEF Counts
  <2>12. CASE outcome[f] = "fail"
    <3>1. /\ Counted("fail")' = Counted("fail") \cup {f[1]}
          /\ Counted("ok")' = Counted("ok")
      BY <2>4, <2>7, <2>8, <2>9, <2>12
    <3>2. Cardinality(Counted("fail")') = Cardinality(Counted("fail")) + 1
      BY <3>1, <2>8, <2>10, FS_AddElement
    <3> QED
      BY <3>1, <3>2, <2>2, <2>12, <1>1 DEF Counts
  <2> QED
    BY <2>3, <2>11, <2>12
<1>3. CASE ~\E f \in Futures : Count(f)
  <2>1. Counted("ok")' = Counted("ok") /\ Counted("fail")' = Counted("fail")
    BY <1>3, CountedChanges
  <2>2. succ' = succ /\ fails' = fails
    BY <1>3
    DEF Threads, Parent, Timer, Submit, Branch, Callback, StartTask, PoolSubmit, MarkRunning, Hook,
        AfterInline, Conclude, FinishTask, Mark, MarkCancelled, Escape, Store, Schedule, Check,
        Scan, Decide, Looks, PopDue, PopNothing, Refreshed, RefreshEscapes, Resubmitted, TimerEnds,
        PoolRefuses, WaitForEvent, CancelPending, StopTimer, ShutDown, ReadItem, ReadTorn, Close,
        AncestorCompletes, sharedVars
  <2> QED
    BY <2>1, <2>2, <1>1 DEF Counts
<1> QED
  BY <1>2, <1>3

\* The event is set by a decision, which stands.
LEMMA EventStays ==
  ASSUME Tracked, Counts, Threads \/ AncestorCompletes,
         event => suspendExc \/ ShouldComplete(Config, N, succ, fails)
  PROVE  /\ event' => suspendExc' \/ ShouldComplete(Config, N, succ', fails')
         /\ event => event'
<1>0. /\ succ \in Nat /\ fails \in Nat /\ succ' \in Nat /\ fails' \in Nat
      /\ succ' + fails' <= N /\ succ <= succ' /\ fails <= fails' /\ N \in Nat
  <2>1. Counts' /\ succ <= succ' /\ fails <= fails'
    BY CountsStay
  <2>2. succ' \in Nat /\ fails' \in Nat /\ succ' + fails' <= N
    <3>1. /\ Counted("ok")' \in SUBSET Branches /\ Counted("fail")' \in SUBSET Branches
          /\ Counted("ok")' \cap Counted("fail")' = {}
      BY DEF Counted
    <3> QED
      BY <3>1, <2>1, DisjointSets DEF Counts
  <2> QED
    BY <2>1, <2>2, CountsBound, ExecutorAssumption
<1>1. ShouldComplete(Config, N, succ, fails) => ShouldComplete(Config, N, succ', fails')
  BY <1>0, MoreStillComplete
<1>2. \/ event' = event /\ suspendExc' = suspendExc
      \/ event' = TRUE /\ ShouldComplete(Config, N, succ, fails)
      \/ /\ suspendExc => suspendExc'
         /\ event => event'
         /\ event' => event \/ suspendExc'
  <2>1. ASSUME NEW f \in Futures, Check(f)
        PROVE  \/ event' = event /\ suspendExc' = suspendExc
               \/ event' = TRUE /\ ShouldComplete(Config, N, succ, fails)
    BY <2>1 DEF Check
  <2>2. ASSUME NEW f \in Futures, Decide(f)
        PROVE  /\ suspendExc => suspendExc'
               /\ event => event'
               /\ event' => event \/ suspendExc'
    <3>1. suspendExc' = (suspendExc \/ scanFound[f]) /\ event' = (event \/ scanFound[f])
      BY <2>2 DEF Decide
    <3> QED
      BY <3>1, Zenon
  <2>3. CASE ~\E f \in Futures : Check(f) \/ Decide(f)
    BY <2>3
    DEF Threads, Parent, Timer, Submit, Branch, Callback, StartTask, PoolSubmit, MarkRunning, Hook,
        AfterInline, Conclude, FinishTask, Mark, MarkCancelled, Escape, Store, Count, Schedule,
        Scan, Looks, PopDue, PopNothing, Refreshed, RefreshEscapes, Resubmitted, TimerEnds,
        PoolRefuses, WaitForEvent, CancelPending, StopTimer, ShutDown, ReadItem, ReadTorn, Close,
        AncestorCompletes, sharedVars
  <2> QED
    BY <2>1, <2>2, <2>3
<1>3. CASE event' = event /\ suspendExc' = suspendExc
  BY <1>1, <1>3
<1>4. CASE event' = TRUE /\ ShouldComplete(Config, N, succ, fails)
  BY <1>1, <1>4
<1>5. CASE /\ suspendExc => suspendExc'
           /\ event => event'
           /\ event' => event \/ suspendExc'
  BY <1>1, <1>5
<1> QED
  BY <1>2, <1>3, <1>4, <1>5

\* A decision goes into the result with the branches it rests on.
LEMMA RestsStay ==
  ASSUME Tracked, Counts, Threads \/ AncestorCompletes,
         NEW A \in SUBSET Branches, NEW B \in SUBSET Branches, Rests(A, B)
  PROVE  Rests(A, B)'
<1>0. /\ Types /\ Counted("ok") \subseteq Counted("ok")'
      /\ Counted("fail") \subseteq Counted("fail")'
  BY CountsStay DEF Tracked
<1>1. CASE ReadItem
  <2>1. /\ readAt <= N /\ readAt' = readAt + 1
        /\ items' = [items EXCEPT ![readAt] = ItemOf(status[readAt])]
    BY <1>1 DEF ReadItem
  <2>2. readAt \in Branches /\ readAt \in Nat /\ \A b \in Branches : b \in Nat
    BY <2>1, <1>0 DEF Types, Branches
  <2>3. items'[readAt] = ItemOf(status[readAt])
        /\ \A b \in Branches : b # readAt => items'[b] = items[b]
    BY <2>1, <2>2, <1>0 DEF Types
  <2>4. /\ readAt \in A => items'[readAt] = "ok"
        /\ readAt \in B => items'[readAt] = "fail"
    BY <2>2, <2>3, StatusTellsOutcome DEF Rests, Counted, ItemOf
  <2> QED
    BY <2>1, <2>2, <2>3, <2>4, <1>0 DEF Rests
<1>2. CASE ~ReadItem
  <2>1. items' = items /\ readAt' = readAt
    BY <1>2
    DEF Threads, Parent, Timer, Submit, Branch, Callback, StartTask, PoolSubmit, MarkRunning, Hook,
        AfterInline, Conclude, FinishTask, Mark, MarkCancelled, Escape, Store, Count, Schedule,
        Check, Scan, Decide, Looks, PopDue, PopNothing, Refreshed, RefreshEscapes, Resubmitted,
        TimerEnds, PoolRefuses, WaitForEvent, CancelPending, StopTimer, ShutDown, ReadTorn, Close,
        AncestorCompletes, parentVars
  <2> QED
    BY <2>1, <1>0 DEF Rests
<1> QED
  BY <1>1, <1>2

LEMMA DecisionsStay == ASSUME Tracked, Decisions, [Next]_vars PROVE Decisions'
<1>0. Types /\ Counts
  BY DEF Tracked, Decisions, Counts
<1>1. CASE UNCHANGED vars
  <2>1. UNCHANGED <<submits, outcome, cb, succ, fails, event, suspendExc, parent, readAt, items>>
    BY <1>1 DEF vars, taskVars, cbVars, sharedVars, parentVars
  <2>2. Counted("ok")' = Counted("ok") /\ Counted("fail")' = Counted("fail")
    BY <2>1 DEF Counted, Last
  <2>3. \A A, B \in SUBSET Branches : Rests(A, B) => Rests(A, B)'
    BY <2>1, <2>2 DEF Rests
  <2> QED
    BY <2>1, <2>2, <2>3 DEF Decisions
<1>2. CASE Next
  <2>0. Threads \/ AncestorCompletes
    BY <1>2 DEF Next
  <2>1. Counts' /\ (event' => suspendExc' \/ ShouldComplete(Config, N, succ', fails'))
        /\ (event => event')
    BY <2>0, <1>0, CountsStay, EventStays DEF Decisions
  <2>2. \A A, B \in SUBSET Branches : Rests(A, B) => Rests(A, B)'
    BY <2>0, <1>0, RestsStay
  <2>3. CASE StopTimer
    <3>1. /\ parent \in {"deciding", "failing"} /\ UNCHANGED <<readAt, event>>
          /\ parent' # "deciding" /\ parent' \notin {"submitting", "waiting", "reading", "closed"}
          /\ parent' = "stopping" => parent = "deciding" /\ ~suspendExc
      BY <2>3 DEF StopTimer, sharedVars
    <3>2. ASSUME parent' = "stopping"
          PROVE  readAt = 1 /\ \E A, B \in SUBSET Branches : Rests(A, B)
      <4>1. readAt = 1 /\ ShouldComplete(Config, N, succ, fails)
        BY <3>1, <3>2 DEF Decisions
      <4>2. \A b \in Branches : ~(b < 1)
        BY DEF Branches
      <4>3. Rests(Counted("ok"), Counted("fail"))
        BY <4>1, <4>2, <1>0 DEF Rests, Counts, Counted
      <4>4. Counted("ok") \in SUBSET Branches /\ Counted("fail") \in SUBSET Branches
        BY DEF Counted
      <4> QED
        BY <4>1, <4>3, <4>4
    <3> QED
      BY <3>1, <3>2, <2>1, <2>2 DEF Decisions, Counts
  <2>4. CASE ~StopTimer
    <3>1. /\ parent' \in {"submitting", "waiting", "deciding", "stopping"} =>
               parent \in {"submitting", "waiting", "deciding", "stopping"} /\ readAt' = readAt
          /\ parent' = "deciding" => parent = "deciding" \/ event
          /\ parent' \in {"stopping", "reading", "closed"} =>
               parent \in {"stopping", "reading", "closed"}
      <4>1. CASE Parent
        BY <4>1, <2>4
        DEF Parent, WaitForEvent, CancelPending, ShutDown, ReadItem, ReadTorn, Close, ParentGoto
      <4>2. CASE ~Parent
        <5>1. readAt' = readAt /\ parent' \in {parent, "failing"}
          BY <4>2, <2>0
          DEF Threads, Timer, Submit, Branch, Callback, StartTask, PoolSubmit, MarkRunning, Hook,
              AfterInline, Conclude, FinishTask, Mark, MarkCancelled, Escape, Store, Count, Schedule,
              Check, Scan, Decide, Looks, PopDue, PopNothing, Refreshed, RefreshEscapes, Resubmitted,
              TimerEnds, PoolRefuses, AncestorCompletes, parentVars
        <5> QED
          BY <5>1
      <4> QED
        BY <4>1, <4>2
    <3> QED
      BY <3>1, <2>1, <2>2 DEF Decisions, Counts
  <2> QED
    BY <2>3, <2>4
<1> QED
  BY <1>1, <1>2

LEMMA DecisionsMeetCriteria ==
  ASSUME Tracked, Durable, Decisions PROVE ResultMeetsCriteria
<1> SUFFICES ASSUME parent = "closed"
             PROVE  ShouldComplete(Config, N, Ended("ok"), Ended("fail"))
  BY DEF ResultMeetsCriteria
<1> DEFINE S == {b \in Branches : items[b] = "ok"}
           T == {b \in Branches : items[b] = "fail"}
<1>1. PICK A \in SUBSET Branches, B \in SUBSET Branches : Rests(A, B)
  BY DEF Decisions
<1>2. A \subseteq S /\ B \subseteq T
  <2>1. \A b \in Branches : b < readAt
    BY ExecutorAssumption DEF Durable, Branches, Tracked, Types
  <2> QED
    BY <2>1, <1>1 DEF Rests
<1>3. S \in SUBSET Branches /\ T \in SUBSET Branches /\ S \cap T = {} /\ A \cap B = {}
  BY <1>2
<1>4. Ended("ok") = Cardinality(S) /\ Ended("fail") = Cardinality(T)
  BY DEF Ended
<1> HIDE DEF S, T
<1>5. /\ IsFiniteSet(S) /\ IsFiniteSet(T) /\ Cardinality(S) \in Nat /\ Cardinality(T) \in Nat
      /\ Cardinality(S) + Cardinality(T) <= N
      /\ Cardinality(A) \in Nat /\ Cardinality(B) \in Nat
  BY <1>3, DisjointSets
<1>6. Cardinality(A) <= Cardinality(S) /\ Cardinality(B) <= Cardinality(T)
  BY <1>2, <1>5, FS_Subset
<1>7. ShouldComplete(Config, N, Cardinality(A), Cardinality(B)) /\ N \in Nat
  BY <1>1, ExecutorAssumption DEF Rests
<1> QED
  BY <1>4, <1>5, <1>6, <1>7, MoreStillComplete

LEMMA InitDecisions == Init => Durable /\ Decisions
<1> SUFFICES ASSUME Init PROVE Durable /\ Decisions
  OBVIOUS
<1>1. Durable
  BY ExecutorAssumption DEF Init, Durable, Branches
<1>2. Counted("ok") = {} /\ Counted("fail") = {}
  BY DEF Init, Counted
<1>3. succ = Cardinality(Counted("ok")) /\ fails = Cardinality(Counted("fail"))
  BY <1>2, FS_EmptySet DEF Init
<1> QED
  BY <1>1, <1>3 DEF Init, Decisions

\* The items a map or parallel returns meet the criteria for which it stopped, whatever
\* completes between the decision and the reading of each item.
THEOREM ResultRestsOnItems == Spec => []ResultMeetsCriteria
<1>1. Init => Tracked /\ Durable /\ Decisions
  BY InitTracked, InitDecisions
<1>2. Tracked /\ Durable /\ Decisions /\ [Next]_vars => (Tracked /\ Durable /\ Decisions)'
  BY TrackedStays, DurableStays, DecisionsStay
<1>3. Tracked /\ Durable /\ Decisions => ResultMeetsCriteria
  BY DecisionsMeetCriteria
<1> QED
  BY <1>1, <1>2, <1>3, PTL DEF Spec

=============================================================================
