------------------------ MODULE DurableContextProofs ------------------------
(***************************************************************************)
(* For every program that does not tell the two errors of a failed check   *)
(* apart, any number of checks and of invocations that die: in all its     *)
(* invocations the code is given the same at the same point, but for the   *)
(* class of such an error, the service refuses no update, code that is new *)
(* is not taken for a replay, and a check of a condition continues from    *)
(* the one before.                                                         *)
(*                                                                         *)
(* An outcome is determined by what stands behind it (Backed): an          *)
(* operation that has ended and stays as it is, or for a child that is run *)
(* again what its own code has been given, by way of L, the log of each    *)
(* context up to each line.  L exists because a line is given one outcome. *)
(***************************************************************************)
EXTENDS DurableContext, FiniteSetTheorems, SequenceTheorems, TLAPS

-----------------------------------------------------------------------------
\* The program, as the invariant sees it.

Paths == DOMAIN program.body
Code(path) == program.body[path]
OpId(path, l) == path \o <<Position(Code(path), l)>>
IsOp(path, l) == path \in Paths /\ l \in 1 .. Len(Code(path)) /\ Code(path)[l].kind # "result"

-----------------------------------------------------------------------------
\* Types.

Words == {"none", "yes", "no", "s", "boom", "summary"}
Payloads == Seq(Words)
Statuses == {"STARTED", "PENDING", "READY"} \cup Terminal
Operation == [kind : OpKinds, status : Statuses, parent : Seq(Nat), attempt : Nat,
              payload : Payloads, replay : BOOLEAN]
Update == [id : Seq(Nat), kind : OpKinds, parent : Seq(Nat),
           action : {"START", "RETRY", "SUCCEED", "FAIL"}, payload : Payloads, replay : BOOLEAN]
Frame == [path : Seq(Nat), parent : Seq(Nat), line : Nat, at : Nat, new : BOOLEAN,
          flip : BOOLEAN, virtual : BOOLEAN, again : BOOLEAN, log : Payloads]

Resting == {"down", "suspended", "done", "failed"}
InOperation == {"check", "starting", "checking", "met", "unmet", "broken"}

TypeOK ==
  /\ program \in Programs
  /\ DOMAIN ops \subseteq Seq(Nat) /\ ops \in [DOMAIN ops -> Operation]
  /\ DOMAIN view \subseteq Seq(Nat) /\ view \in [DOMAIN view -> Operation]
  /\ queue \in Seq(Update) /\ stack \in Seq(Frame)
  /\ pc \in Resting \cup InOperation \cup {"run", "raising", "closing", "failing"}
  /\ taken \in [attempt : Nat, payload : Payloads]
  /\ given \subseteq Seq(Nat) \X Nat \X ({"returns"} \cup Errors) \X Payloads

-----------------------------------------------------------------------------
\* The contexts: what every frame is, and what ties it to the one below.

Live == pc \notin Resting

FrameIsIn(f) ==
  /\ f.path \in Paths /\ f.line \in 0 .. Len(Code(f.path))
  /\ f.at = Position(Code(f.path), f.line)

\* The instruction of a frame that runs an operation or a child.
AtOp(f) == f.line > 0 /\ Code(f.path)[f.line].kind # "result"
KindOf(f) == Code(f.path)[f.line].kind

IsChildOf(g, f) ==
  /\ AtOp(f) /\ KindOf(f) \in ChildKinds
  /\ g.path = Id(f) /\ g.virtual = (KindOf(f) = "virtual")
  /\ g.parent = IF g.virtual THEN f.parent ELSE Id(f)

Shape ==
  /\ Live <=> stack # <<>>
  /\ ~Live => queue = <<>>
  /\ \A k \in 1 .. Len(stack) : FrameIsIn(stack[k]) /\ Len(stack[k].path) = k - 1
  /\ Live => stack[1].path = Root /\ stack[1].parent = Root /\ ~stack[1].virtual /\ ~stack[1].again
  /\ \A k \in 1 .. Len(stack) - 1 : IsChildOf(stack[k + 1], stack[k])
  /\ pc \in InOperation => AtOp(Top)
  /\ pc \in {"checking", "met", "unmet", "broken"} => KindOf(Top) = "condition"
  /\ pc \in {"closing", "failing"} => Len(stack) > 1 /\ ~Top.virtual /\ ~Top.again
  /\ pc = "closing" => Top.line = Len(Code(Top.path))

\* The operations of a context report to the nearest that is not virtual, whose own operation
\* runs.
Parents ==
  \A k \in 1 .. Len(stack) :
    stack[k].parent = Root \/ \E j \in 1 .. k - 1 : /\ ~stack[j + 1].virtual
                                                  /\ stack[k].parent = Id(stack[j])

-----------------------------------------------------------------------------
\* The operations.

\* They are those of the program, and an invocation knows them as they are, but for what the
\* service has completed since.
OpsFit ==
  /\ \A p \in Paths : \A l \in 1 .. Len(Code(p)) :
       IsOp(p, l) /\ OpId(p, l) \in DOMAIN ops => ops[OpId(p, l)].kind = Code(p)[l].kind
  /\ \A i \in DOMAIN queue : \A p \in Paths : \A l \in 1 .. Len(Code(p)) :
       IsOp(p, l) /\ queue[i].id = OpId(p, l) => queue[i].kind = Code(p)[l].kind

Seen ==
  Live => /\ DOMAIN view = DOMAIN ops
          /\ \A id \in DOMAIN ops : view[id].kind = ops[id].kind
          /\ \A id \in DOMAIN ops :
               \/ view[id] = ops[id]
               \/ /\ view[id].kind \in {"wait", "invoke", "callback"} /\ view[id].status = "STARTED"
               \/ view[id].kind = "condition" /\ view[id].status = "PENDING"

-----------------------------------------------------------------------------
\* The updates in the queue.

First(i) == \A j \in 1 .. i - 1 : queue[j].id # queue[i].id

\* An operation has at most a START and what comes after it in the queue.
Follows(i, j) ==
  /\ queue[i].action = "START" /\ queue[j].action # "START"
  /\ "STARTED" \in Accepted[queue[j].kind][queue[j].action]

\* The service takes every update when its turn comes.
AcceptableAt(j) ==
  /\ queue[j].action \in DOMAIN Accepted[queue[j].kind]
  /\ \A i \in 1 .. j - 1 : queue[i].id = queue[j].id => Follows(i, j)
  /\ First(j) /\ queue[j].id \in DOMAIN ops
       => ops[queue[j].id].status \in Accepted[queue[j].kind][queue[j].action]
  /\ queue[j].parent # Root =>
       \/ queue[j].parent \in DOMAIN ops /\ ops[queue[j].parent].kind = "child"
       \/ \E i \in 1 .. j - 1 : queue[i].id = queue[j].parent /\ queue[i].kind = "child"

Acceptable == \A j \in DOMAIN queue : AcceptableAt(j)

\* Whose updates they are.
Verdict == {"met", "unmet", "broken"}
Origin ==
  \A i \in DOMAIN queue :
    \/ \E k \in 1 .. Len(stack) - 1 :
         /\ queue[i].id = Id(stack[k])
         /\ \/ queue[i].action = "START"
            \/ k = Len(stack) - 1 /\ pc \in {"closing", "failing"}
    \/ /\ pc \in {"starting", "checking"} \cup Verdict /\ queue[i].id = Id(Top)
       /\ pc \in {"starting", "checking"} => queue[i].action = "START"

Queued(id) == \E i \in DOMAIN queue : queue[i].id = id /\ queue[i].action = "START"
IsStarted(id, kind) ==
  \/ id \in DOMAIN ops /\ ops[id].kind = kind /\ ops[id].status = "STARTED"
  \/ Queued(id)

\* The update with the outcome of an operation is the last of the queue, or was applied.
Told(id, action, payload) ==
  LET Is(p, r) == r \/ p = payload
  IN \/ /\ queue # <<>>
        /\ LET u == queue[Len(queue)]
           IN u.id = id /\ u.action = action /\ Is(u.payload, u.replay)
     \/ /\ queue = <<>> /\ id \in DOMAIN ops
        /\ ops[id].status = StatusAfter[action] /\ Is(ops[id].payload, ops[id].replay)

\* The operation of a child context whose code runs.
ChildIsOpen(k) ==
  LET id == Id(stack[k])
      f == stack[k + 1]
  IN IF f.again
     THEN /\ id \in DOMAIN ops /\ ops[id].kind = "child"
          /\ ops[id].status = "SUCCEEDED" /\ ops[id].replay
     ELSE IsStarted(id, "child") \/ (k = Len(stack) - 1 /\ pc \in {"closing", "failing"})

Open ==
  /\ \A k \in 1 .. Len(stack) - 1 : ~stack[k + 1].virtual =>
       /\ ChildIsOpen(k)
       /\ Id(stack[k]) \in DOMAIN ops => ops[Id(stack[k])].kind = "child"
       /\ Id(stack[k]) \in DOMAIN ops \/ Queued(Id(stack[k]))
  /\ pc = "checking" => IsStarted(Id(Top), "condition")
  /\ pc = "met" => Told(Id(Top), "SUCCEED", taken.payload)
  /\ pc = "broken" => Told(Id(Top), "FAIL", <<"boom">>)
  /\ pc = "closing" => Told(Id(Creator), "SUCCEED", Top.log)
  /\ pc = "failing" => Told(Id(Creator), "FAIL", Top.log)
  /\ \A i \in DOMAIN queue : queue[i].kind # "child" => ~queue[i].replay
  /\ \A i \in DOMAIN queue : queue[i].action # "SUCCEED" => ~queue[i].replay
  /\ \A id \in DOMAIN ops : ops[id].kind # "child" => ~ops[id].replay
  /\ \A id \in DOMAIN ops : ops[id].status \in Failed => ~ops[id].replay

-----------------------------------------------------------------------------
\* What the code has been given.

Given(p, l, how, what) == <<p, l, how, what>> \in given

\* How an instruction may end.
Hows(kind) ==
  {"returns"} \cup
    IF kind = "result" THEN {"CallbackError"}
    ELSE {"CallableRuntimeError"} \cup IF kind = "condition" THEN {"CheckError"} ELSE {}

\* The code catches the errors of a line, which it does not tell apart.
Catches(p, l) ==
  IF Code(p)[l].kind = "result" THEN "CallbackError" \in program.catches
  ELSE "CallableRuntimeError" \in program.catches

\* The first lines of the code were given something, and it went on.
Ran(p, n) ==
  \A l \in 1 .. n : \E g \in given : g[1] = p /\ g[2] = l /\ (g[3] = "returns" \/ Catches(p, l))

RanToEnd(p) == p \in Paths /\ Ran(p, Len(Code(p)))

Done(k) == IF k < Len(stack) \/ pc \in InOperation THEN stack[k].line - 1 ELSE stack[k].line

\* The code raises the error of its last line.
Raises(p, l) == ~Catches(p, l) /\ \E g \in given : g[1] = p /\ g[2] = l /\ g[3] # "returns"

\* Two outcomes of one line are the same but for the class of an error.
Agree ==
  \A g, h \in given : g[1] = h[1] /\ g[2] = h[2] =>
    g[4] = h[4] /\ (g[3] = "returns" <=> h[3] = "returns")

GivenInOrder ==
  \A g \in given : /\ g[1] \in Paths /\ g[2] \in 1 .. Len(Code(g[1])) /\ Ran(g[1], g[2] - 1)
                   /\ g[3] \in Hows(Code(g[1])[g[2]].kind)

FramesRan ==
  \A k \in 1 .. Len(stack) :
    IF k = Len(stack) /\ pc \in {"raising", "failing"}
    THEN /\ stack[k].line > 0 /\ Ran(stack[k].path, stack[k].line - 1)
         /\ Raises(stack[k].path, stack[k].line)
    ELSE Ran(stack[k].path, Done(k))

ChildrenRan ==
  /\ \A id \in DOMAIN ops :
       ops[id].kind = "child" /\ ops[id].status = "SUCCEEDED" => RanToEnd(id)
  /\ \A i \in DOMAIN queue :
       queue[i].kind = "child" /\ queue[i].action = "SUCCEED" => RanToEnd(queue[i].id)

Answers(id, how, what) ==
  /\ id \in DOMAIN ops /\ what = ops[id].payload
  /\ \/ ops[id].status = "SUCCEEDED" /\ how = "returns"
     \/ ops[id].status \in Failed /\ how # "returns"

\* What stands behind what was given at a line, L being what the code of each context has
\* been given up to each line.
Backed(L, p, l, how, what) ==
  LET kind == Code(p)[l].kind
      id == OpId(p, l)
  IN CASE kind = "wait" -> how = "returns" /\ what = <<>>
       [] kind = "callback" -> how = "returns" /\ what = <<>> /\ id \in DOMAIN ops
       [] kind \in {"invoke", "condition"} -> Answers(id, how, what)
       [] kind = "result" -> Answers(p \o <<Code(p)[l].of>>, how, what)
       [] kind = "child" ->
            IF id \in DOMAIN ops /\ ops[id].status = "SUCCEEDED" /\ ops[id].replay
            THEN how = "returns" /\ what = L[id][Len(Code(id))]
            ELSE Answers(id, how, what)
       [] kind = "virtual" ->
            \/ how = "returns" /\ RanToEnd(id) /\ what = L[id][Len(Code(id))]
            \/ /\ how # "returns"
               /\ \E m \in 1 .. Len(Code(id)) : Raises(id, m) /\ what = L[id][m]

LogFunctions == [Seq(Nat) -> [Nat -> Payloads]]

GivenFits(L) ==
  /\ \A p \in Paths : L[p][0] = <<>>
  /\ \A g \in given : /\ L[g[1]][g[2]] = L[g[1]][g[2] - 1] \o g[4]
                      /\ Backed(L, g[1], g[2], g[3], g[4])

FramesFit(L) == \A k \in 1 .. Len(stack) : stack[k].log = L[stack[k].path][Done(k)]

SomeLogs == \E L \in LogFunctions : GivenFits(L) /\ FramesFit(L)

Inv ==
  /\ TypeOK /\ Shape /\ Parents /\ OpsFit /\ Seen /\ Acceptable /\ Origin /\ Open
  /\ GivenInOrder /\ FramesRan /\ ChildrenRan /\ Agree /\ SomeLogs

-----------------------------------------------------------------------------
\* Sequences, positions and ids.

\* The payloads that the model names, and what is made of two of them.
LEMMA PayloadsClosed ==
  /\ <<>> \in Payloads /\ None \in Payloads /\ <<"summary">> \in Payloads /\ <<"boom">> \in Payloads
  /\ <<"yes">> \in Payloads /\ <<"no">> \in Payloads
  /\ \A s, t \in Payloads : s \o t \in Payloads
  /\ \A s \in Payloads : Append(s, "s") \in Payloads
<1>1. ASSUME NEW s \in Payloads, NEW t \in Payloads PROVE s \o t \in Payloads
  BY ConcatProperties DEF Payloads
<1>2. ASSUME NEW s \in Payloads PROVE Append(s, "s") \in Payloads
  BY AppendProperties, "s" \in Words DEF Payloads, Words
<1>3. /\ <<>> \in Payloads /\ None \in Payloads /\ <<"summary">> \in Payloads
      /\ <<"boom">> \in Payloads /\ <<"yes">> \in Payloads /\ <<"no">> \in Payloads
  <2>1. ASSUME NEW x \in Words PROVE <<x>> \in Payloads
    BY DEF Payloads
  <2>2. <<>> \in Payloads
    BY DEF Payloads
  <2> QED
    BY <2>1, <2>2 DEF None, Words
<1> QED
  BY <1>1, <1>2, <1>3

\* The first elements of a sequence.
LEMMA Beginning ==
  ASSUME NEW S, NEW s \in Seq(S), NEW n \in Nat, n <= Len(s), NEW b, b = SubSeq(s, 1, n)
  PROVE  b \in Seq(S) /\ Len(b) = n /\ \A k \in 1 .. n : b[k] = s[k]
<1>1. \A i \in 1 .. n : s[i] \in S
  OBVIOUS
<1>2. /\ b \in Seq(S) /\ Len(b) = IF 1 <= n THEN n - 1 + 1 ELSE 0
      /\ \A i \in 1 .. n - 1 + 1 : b[i] = s[1 + i - 1]
  BY <1>1, SubSeqProperties
<1>3. \A k \in 1 .. n : 1 + k - 1 = k /\ k \in 1 .. n - 1 + 1
  OBVIOUS
<1> QED
  BY <1>2, <1>3

\* The stack with its top replaced, and with its two topmost replaced by one.
LEMMA ReplaceTop ==
  ASSUME NEW S, NEW s \in Seq(S), s # <<>>, NEW x \in S,
         NEW r, r = Append(SubSeq(s, 1, Len(s) - 1), x)
  PROVE  /\ r \in Seq(S) /\ Len(r) = Len(s) /\ r[Len(s)] = x /\ r # <<>>
         /\ \A k \in 1 .. Len(s) - 1 : r[k] = s[k]
<1>1. PICK n \in Nat : Len(s) = n + 1 /\ Len(s) - 1 = n
  <2>1. Len(s) - 1 \in Nat /\ Len(s) = (Len(s) - 1) + 1
    OBVIOUS
  <2> QED
    BY <2>1
<1>2. PICK b : b = SubSeq(s, 1, n)
  OBVIOUS
<1>3. b \in Seq(S) /\ Len(b) = n /\ \A k \in 1 .. n : b[k] = s[k]
  BY <1>1, <1>2, Beginning
<1>4. r = Append(b, x)
  BY <1>1, <1>2
<1>5. r \in Seq(S) /\ Len(r) = n + 1 /\ r[n + 1] = x /\ \A k \in 1 .. n : r[k] = b[k]
  BY <1>3, <1>4
<1>6. r # <<>>
  BY <1>5
<1>7. \A k \in 1 .. n : r[k] = s[k]
  BY <1>3, <1>5
<1> QED
  BY <1>1, <1>5, <1>6, <1>7

\* The innermost context is left: the last two elements become one.
LEMMA MergeTop ==
  ASSUME NEW S, NEW s \in Seq(S), Len(s) > 1, NEW x \in S,
         NEW r, r = Append(SubSeq(s, 1, Len(s) - 2), x)
  PROVE  /\ r \in Seq(S) /\ Len(r) = Len(s) - 1 /\ r[Len(s) - 1] = x /\ r # <<>>
         /\ \A k \in 1 .. Len(s) - 2 : r[k] = s[k]
<1>1. PICK n \in Nat : Len(s) = n + 2 /\ Len(s) - 2 = n /\ Len(s) - 1 = n + 1
  <2>1. Len(s) - 2 \in Nat /\ Len(s) = (Len(s) - 2) + 2 /\ Len(s) - 1 = (Len(s) - 2) + 1
    OBVIOUS
  <2> QED
    BY <2>1
<1>2. PICK b : b = SubSeq(s, 1, n)
  OBVIOUS
<1>3. b \in Seq(S) /\ Len(b) = n /\ \A k \in 1 .. n : b[k] = s[k]
  BY <1>1, <1>2, Beginning
<1>4. r = Append(b, x)
  BY <1>1, <1>2
<1>5. r \in Seq(S) /\ Len(r) = n + 1 /\ r[n + 1] = x /\ \A k \in 1 .. n : r[k] = b[k]
  BY <1>3, <1>4
<1>6. r # <<>>
  BY <1>5
<1>7. \A k \in 1 .. n : r[k] = s[k]
  BY <1>3, <1>5
<1> QED
  BY <1>1, <1>5, <1>6, <1>7

\* A context is entered, an update is queued.
LEMMA OneMore ==
  ASSUME NEW S, NEW s \in Seq(S), NEW x \in S
  PROVE  LET r == Append(s, x)
         IN /\ r \in Seq(S) /\ Len(r) = Len(s) + 1 /\ r[Len(r)] = x /\ r # <<>>
            /\ DOMAIN r = DOMAIN s \cup {Len(r)}
            /\ \A k \in DOMAIN s : r[k] = s[k]
  OBVIOUS

\* The count of the operations goes up at every instruction that is one.
LEMMA PositionStep ==
  ASSUME NEW code, NEW l \in Nat
  PROVE  /\ Position(code, 0) = 0 /\ Position(code, l) \in Nat
         /\ Position(code, l + 1) = IF code[l + 1].kind # "result" THEN Position(code, l) + 1
                                    ELSE Position(code, l)
<1> DEFINE P(n) == {k \in 1 .. n : code[k].kind # "result"}
<1>1. P(0) = {}
  OBVIOUS
<1>2. IsFiniteSet(1 .. l)
  BY FS_Interval
<1>3. IsFiniteSet(P(l))
  <2>1. P(l) \in SUBSET (1 .. l)
    OBVIOUS
  <2> QED
    BY <1>2, <2>1, FS_Subset
<1>4. P(l + 1) = IF code[l + 1].kind # "result" THEN P(l) \cup {l + 1} ELSE P(l)
  OBVIOUS
<1>5. Cardinality(P(l)) \in Nat /\ Cardinality(P(0)) = 0
  BY <1>1, <1>3, FS_CardinalityType, FS_EmptySet
<1>6. l + 1 \notin P(l)
  OBVIOUS
<1>7. Cardinality(P(l) \cup {l + 1}) = Cardinality(P(l)) + 1
  BY <1>3, <1>6, FS_AddElement
<1> QED
  BY <1>4, <1>5, <1>7 DEF Position

\* An operation has a higher position than all before it.
LEMMA PositionGrows ==
  ASSUME NEW code, NEW l \in Nat, NEW m \in Nat, l < m, code[m].kind # "result"
  PROVE  Position(code, l) < Position(code, m)
<1> DEFINE P(n) == {k \in 1 .. n : code[k].kind # "result"}
<1>1. PICK n \in Nat : m = n + 1 /\ l <= n
  <2>1. m - 1 \in Nat /\ m = (m - 1) + 1 /\ l <= m - 1
    OBVIOUS
  <2> QED
    BY <2>1
<1>2. Position(code, m) = Position(code, n) + 1 /\ Position(code, n) \in Nat
  BY <1>1, PositionStep
<1>3. P(l) \subseteq P(n)
  BY <1>1
<1>4. IsFiniteSet(1 .. n)
  BY <1>1, FS_Interval
<1>5. IsFiniteSet(P(n))
  <2>1. P(n) \in SUBSET (1 .. n)
    OBVIOUS
  <2> QED
    BY <1>4, <2>1, FS_Subset
<1>6. Cardinality(P(l)) <= Cardinality(P(n))
  <2>1. P(l) \in SUBSET P(n)
    BY <1>3
  <2> QED
    BY <1>5, <2>1, FS_Subset
<1>7. Position(code, l) \in Nat
  BY PositionStep
<1> QED
  BY <1>2, <1>6, <1>7 DEF Position

\* An id tells the context and the position in it.
LEMMA PathsSplit ==
  ASSUME NEW p \in Seq(Nat), NEW q \in Seq(Nat), NEW a \in Nat, NEW b \in Nat,
         p \o <<a>> = q \o <<b>>
  PROVE  p = q /\ a = b
<1>1. Len(p) = Len(q)
  OBVIOUS
<1>2. a = b
  OBVIOUS
<1>3. \A i \in 1 .. Len(p) : p[i] = q[i]
  OBVIOUS
<1> QED
  BY <1>1, <1>2, <1>3

\* An id is longer than the path of its context.
LEMMA LongerPath ==
  ASSUME NEW p \in Seq(Nat), NEW a \in Nat
  PROVE  p \o <<a>> \in Seq(Nat) /\ Len(p \o <<a>>) = Len(p) + 1 /\ p \o <<a>> # Root
  BY DEF Root

-----------------------------------------------------------------------------
\* What the program is.

\* What ProgramAssumption says of the program that runs.
LEMMA CodeFacts ==
  ASSUME TypeOK
  PROVE  /\ Root \in Paths /\ Paths \subseteq Seq(Nat)
         /\ \A p \in Paths : /\ Code(p) \in Seq(Instructions) /\ Len(Code(p)) \in Nat
                             /\ \A l \in 1 .. Len(Code(p)) : Code(p)[l] \in Instructions
         /\ \A p \in Paths : \A l \in 1 .. Len(Code(p)) :
              /\ Code(p)[l].kind \in ChildKinds => OpId(p, l) \in Paths
              /\ Code(p)[l].kind = "result" =>
                   \E m \in 1 .. l - 1 : Code(p)[m].kind = "callback"
                                         /\ Position(Code(p), m) = Code(p)[l].of
<1>1. /\ Root \in Paths /\ Paths \subseteq Seq(Nat)
      /\ \A p \in Paths : IsCode(Code(p), p, program.body)
  BY ProgramAssumption DEF TypeOK, Paths, Code, Root
<1>2. \A p \in Paths : Code(p) \in Seq(Instructions)
  BY <1>1 DEF IsCode
<1>3. \A p \in Paths : \A l \in 1 .. Len(Code(p)) : Code(p)[l] \in Instructions
  BY <1>2
<1> QED
  BY <1>1, <1>2, <1>3 DEF IsCode, OpId, Paths

\* The id of the operation at a line.
LEMMA OpIdType ==
  ASSUME TypeOK, NEW p \in Paths, NEW l \in Nat
  PROVE  /\ OpId(p, l) \in Seq(Nat) /\ Len(OpId(p, l)) = Len(p) + 1 /\ OpId(p, l) # Root
         /\ Position(Code(p), l) \in Nat /\ p \in Seq(Nat)
  BY CodeFacts, PositionStep, LongerPath DEF OpId

\* An id belongs to one operation of the program.
LEMMA OneOpPerId ==
  ASSUME TypeOK, NEW p, NEW l, NEW q, NEW m,
         IsOp(p, l), IsOp(q, m), OpId(p, l) = OpId(q, m)
  PROVE  p = q /\ l = m
<1>1. p \in Paths /\ q \in Paths /\ l \in Nat /\ m \in Nat
  BY CodeFacts DEF IsOp
<1>2. p = q /\ Position(Code(p), l) = Position(Code(q), m)
  BY <1>1, OpIdType, PathsSplit DEF OpId
<1>3. ~(l < m) /\ ~(m < l)
  <2>1. Code(p)[l].kind # "result" /\ Code(p)[m].kind # "result"
    BY <1>2 DEF IsOp
  <2>2. Position(Code(p), l) = Position(Code(p), m) /\ Position(Code(p), l) \in Nat
    BY <1>1, <1>2, OpIdType
  <2>3. l < m => Position(Code(p), l) < Position(Code(p), m)
    BY <1>1, <2>1, PositionGrows
  <2>4. m < l => Position(Code(p), m) < Position(Code(p), l)
    BY <1>1, <2>1, PositionGrows
  <2> QED
    BY <2>2, <2>3, <2>4
<1> QED
  BY <1>1, <1>2, <1>3

-----------------------------------------------------------------------------
\* What the code is given.

\* What is in the history.
LEMMA GivenType ==
  ASSUME TypeOK, NEW g \in given
  PROVE  /\ g[1] \in Seq(Nat) /\ g[2] \in Nat /\ g[3] \in {"returns"} \cup Errors /\ g[4] \in Payloads
         /\ g = <<g[1], g[2], g[3], g[4]>>
  BY DEF TypeOK

\* Two errors of one context at two lines: the code did not go on after the first.
LEMMA OneError ==
  ASSUME TypeOK, Agree, GivenInOrder, NEW p, NEW l \in Nat, NEW m \in Nat,
         Raises(p, l), Raises(p, m), l >= 1, m >= 1
  PROVE  l = m
<1>1. ASSUME NEW i \in Nat, NEW j \in Nat, i >= 1, Raises(p, i), Raises(p, j) PROVE ~(i < j)
  <2> SUFFICES ASSUME i < j PROVE FALSE
    OBVIOUS
  <2>1. PICK g \in given : g[1] = p /\ g[2] = j
    BY <1>1 DEF Raises
  <2>2. Ran(p, j - 1) /\ i \in 1 .. j - 1
    BY <1>1, <2>1 DEF GivenInOrder
  <2>3. PICK h \in given : h[1] = p /\ h[2] = i /\ (h[3] = "returns" \/ Catches(p, i))
    BY <2>2 DEF Ran
  <2>4. PICK e \in given : e[1] = p /\ e[2] = i /\ e[3] # "returns" /\ ~Catches(p, i)
    BY <1>1 DEF Raises
  <2>5. e[3] = "returns" <=> h[3] = "returns"
    BY <2>3, <2>4 DEF Agree
  <2> QED
    BY <2>3, <2>4, <2>5
<1> QED
  BY <1>1

\* Where the code went on, it was given no error that ends it.
LEMMA NoErrorBefore ==
  ASSUME Agree, NEW p, NEW n \in Nat, NEW l \in 1 .. n, Ran(p, n)
  PROVE  ~Raises(p, l)
  BY DEF Ran, Raises, Agree

\* What stands behind an outcome determines it.
LEMMA BackedOnce ==
  ASSUME TypeOK, Agree, GivenInOrder, NEW L,
         NEW p \in Paths, NEW l \in 1 .. Len(Code(p)), NEW how, NEW what, NEW how2, NEW what2,
         Backed(L, p, l, how, what), Backed(L, p, l, how2, what2)
  PROVE  (how = "returns" <=> how2 = "returns") /\ what = what2
<1> DEFINE kind == Code(p)[l].kind
           id == OpId(p, l)
<1>0. Code(p)[l] \in Instructions /\ Len(Code(p)) \in Nat
  BY CodeFacts
<1>1. \A i, h, w, h2, w2 : Answers(i, h, w) /\ Answers(i, h2, w2) =>
        (h = "returns" <=> h2 = "returns") /\ w = w2
  BY DEF Answers, Failed
<1>2. CASE kind \in {"wait", "callback"}
  BY <1>2 DEF Backed
<1>3. CASE kind \in {"invoke", "condition", "result"}
  BY <1>1, <1>3 DEF Backed
<1>4. CASE kind = "child"
  BY <1>1, <1>4 DEF Backed
<1>5. CASE kind = "virtual"
  <2>1. id \in Paths /\ Len(Code(id)) \in Nat
    BY <1>5, CodeFacts DEF ChildKinds
  <2>2. \A h, w : Backed(L, p, l, h, w) =>
           \/ h = "returns" /\ RanToEnd(id) /\ w = L[id][Len(Code(id))]
           \/ h # "returns" /\ \E m \in 1 .. Len(Code(id)) : Raises(id, m) /\ w = L[id][m]
    BY <1>5 DEF Backed
  <2>3. \A m \in 1 .. Len(Code(id)) : RanToEnd(id) => ~Raises(id, m)
    BY <2>1, NoErrorBefore DEF RanToEnd
  <2>4. \A m, n \in 1 .. Len(Code(id)) : Raises(id, m) /\ Raises(id, n) => m = n
    BY <2>1, OneError
  <2> HIDE DEF id
  <2> QED
    BY <2>2, <2>3, <2>4
<1> QED
  BY <1>0, <1>2, <1>3, <1>4, <1>5 DEF Instructions, OpKinds

-----------------------------------------------------------------------------
\* How it grows.  The two ways in which what stands behind an outcome changes: more is given,
\* and operations are added or end.

GivenGrows == program' = program /\ given \subseteq given'

\* What has run has run for good.
LEMMA RanGrows ==
  ASSUME GivenGrows, NEW p, NEW n
  PROVE  /\ Ran(p, n) => Ran(p, n)'
         /\ Raises(p, n) => Raises(p, n)'
         /\ RanToEnd(p) => RanToEnd(p)'
         /\ Code(p)' = Code(p) /\ Paths' = Paths
<1>1. \A l : Catches(p, l)' <=> Catches(p, l)
  BY DEF GivenGrows, Catches, Code
<1>2. \A m : Ran(p, m) => Ran(p, m)'
  BY <1>1 DEF GivenGrows, Ran
<1>3. Code(p)' = Code(p) /\ Paths' = Paths
  BY DEF GivenGrows, Code, Paths
<1> QED
  BY <1>1, <1>2, <1>3 DEF GivenGrows, Raises, RanToEnd

\* An operation that has ended stays as it is.
OpsGrow ==
  \A id \in DOMAIN ops :
    id \in DOMAIN ops' /\ (ops[id].status \in Terminal => ops'[id] = ops[id])

\* An operation that has ended answers the same for good.
LEMMA AnswersGrow ==
  ASSUME OpsGrow, NEW id, NEW how, NEW what, Answers(id, how, what)
  PROVE  Answers(id, how, what)'
  BY DEF OpsGrow, Answers, Terminal, Failed

\* M agrees with L where an outcome has been given, and where the code of a context begins.
SameLogs(L, M) ==
  /\ \A p \in Paths : M[p][0] = L[p][0]
  /\ \A g \in given : M[g[1]][g[2]] = L[g[1]][g[2]] /\ M[g[1]][g[2] - 1] = L[g[1]][g[2] - 1]

\* Log functions that agree on what was given agree on a context that has ended.
LEMMA EndIsSame ==
  ASSUME TypeOK, NEW L, NEW M, SameLogs(L, M), NEW q \in Paths, RanToEnd(q)
  PROVE  M[q][Len(Code(q))] = L[q][Len(Code(q))]
<1>1. Len(Code(q)) \in Nat
  BY CodeFacts
<1>2. CASE Len(Code(q)) = 0
  BY <1>2 DEF SameLogs
<1>3. CASE Len(Code(q)) # 0
  <2>1. Len(Code(q)) \in 1 .. Len(Code(q))
    BY <1>1, <1>3
  <2>2. PICK g \in given : g[1] = q /\ g[2] = Len(Code(q))
    BY <2>1 DEF RanToEnd, Ran
  <2> QED
    BY <2>2 DEF SameLogs
<1> QED
  BY <1>2, <1>3

\* What stands behind an outcome stays there.
LEMMA BackedGrows ==
  ASSUME TypeOK, OpsFit, ChildrenRan, GivenGrows, OpsGrow,
         NEW L, NEW M, SameLogs(L, M),
         NEW p \in Paths, NEW l \in 1 .. Len(Code(p)), NEW how, NEW what, Backed(L, p, l, how, what)
  PROVE  Backed(M, p, l, how, what)'
<1> DEFINE kind == Code(p)[l].kind
           id == OpId(p, l)
<1>0. Code(p)[l] \in Instructions /\ Len(Code(p)) \in Nat
  BY CodeFacts
<1>1. /\ \A q : Code(q)' = Code(q) /\ OpId(p, l)' = id /\ Paths' = Paths
      /\ \A q : RanToEnd(q) => RanToEnd(q)'
      /\ \A q, m : Raises(q, m) => Raises(q, m)'
  BY RanGrows DEF OpId
<1>2. CASE kind = "wait"
  BY <1>1, <1>2 DEF Backed
<1>3. CASE kind = "callback"
  BY <1>1, <1>3 DEF Backed, OpsGrow
<1>4. CASE kind \in {"invoke", "condition", "result"}
  BY <1>1, <1>4, AnswersGrow DEF Backed
<1>5. CASE kind = "child"
  <2>1. id \in Paths
    BY <1>5, CodeFacts DEF ChildKinds
  <2>2. CASE id \in DOMAIN ops /\ ops[id].status = "SUCCEEDED" /\ ops[id].replay
    <3>1. RanToEnd(id)
      <4>1. ops[id].kind = "child"
        BY <1>5, <2>2 DEF OpsFit, IsOp
      <4> QED
        BY <2>2, <4>1 DEF ChildrenRan
    <3>2. M[id][Len(Code(id))] = L[id][Len(Code(id))]
      BY <2>1, <3>1, EndIsSame
    <3>3. ops'[id] = ops[id] /\ id \in DOMAIN ops'
      BY <2>2 DEF OpsGrow, Terminal
    <3> QED
      BY <1>1, <1>5, <2>2, <3>2, <3>3 DEF Backed
  <2>3. CASE ~(id \in DOMAIN ops /\ ops[id].status = "SUCCEEDED" /\ ops[id].replay)
    <3>1. Answers(id, how, what)
      BY <1>5, <2>3 DEF Backed
    <3>2. Answers(id, how, what)'
      <4>1. \A c : Answers(c, how, what) => Answers(c, how, what)'
        BY AnswersGrow
      <4> QED
        BY <1>1, <3>1, <4>1
    <3>3. id \in DOMAIN ops /\ ops'[id] = ops[id]
      BY <3>1 DEF Answers, OpsGrow, Terminal, Failed
    <3> QED
      BY <1>1, <1>5, <2>3, <3>2, <3>3 DEF Backed
  <2> QED
    BY <2>2, <2>3
<1>6. CASE kind = "virtual"
  <2>1. id \in Paths /\ Len(Code(id)) \in Nat
    BY <1>6, CodeFacts DEF ChildKinds
  <2>2. CASE how = "returns" /\ RanToEnd(id) /\ what = L[id][Len(Code(id))]
    <3>1. M[id][Len(Code(id))] = L[id][Len(Code(id))]
      BY <2>1, <2>2, EndIsSame
    <3> QED
      BY <1>1, <1>6, <2>2, <3>1 DEF Backed
  <2>3. CASE how # "returns" /\ \E m \in 1 .. Len(Code(id)) : Raises(id, m) /\ what = L[id][m]
    <3>1. PICK m \in 1 .. Len(Code(id)) : Raises(id, m) /\ what = L[id][m]
      BY <2>3
    <3>2. M[id][m] = L[id][m]
      BY <3>1 DEF Raises, SameLogs
    <3> QED
      BY <1>1, <1>6, <2>3, <3>1, <3>2 DEF Backed
  <2> QED
    BY <1>6, <2>2, <2>3 DEF Backed
<1> QED
  BY <1>0, <1>2, <1>3, <1>4, <1>5, <1>6 DEF Instructions, OpKinds

-----------------------------------------------------------------------------
\* The two ways in which what the code is given goes on: as it is, and with one more outcome.

\* What a log function gives.
LEMMA LogType ==
  ASSUME NEW L \in LogFunctions, NEW p \in Seq(Nat), NEW n \in Nat
  PROVE  L[p][n] \in Payloads
  BY DEF LogFunctions

\* A step that gives the code nothing keeps what was given and what stands behind it.
LEMMA NothingGiven ==
  ASSUME TypeOK, OpsFit, ChildrenRan, GivenInOrder, Agree,
         program' = program, given' = given, OpsGrow
  PROVE  /\ GivenInOrder' /\ Agree'
         /\ \A L \in LogFunctions : GivenFits(L) => GivenFits(L)'
<1>1. GivenGrows
  BY DEF GivenGrows
<1>2. GivenInOrder' /\ Agree'
  <2>1. \A p, n : Ran(p, n) => Ran(p, n)'
    BY <1>1, RanGrows
  <2>2. \A p : Code(p)' = Code(p) /\ Paths' = Paths
    BY <1>1, RanGrows
  <2> QED
    BY <2>1, <2>2 DEF GivenInOrder, Agree
<1>3. ASSUME NEW L \in LogFunctions, GivenFits(L) PROVE GivenFits(L)'
  <2>1. SameLogs(L, L)
    BY DEF SameLogs
  <2>2. Paths' = Paths
    BY <1>1, RanGrows
  <2>3. ASSUME NEW g \in given PROVE Backed(L, g[1], g[2], g[3], g[4])'
    <3>1. PICK p, l, how, what : p = g[1] /\ l = g[2] /\ how = g[3] /\ what = g[4]
      OBVIOUS
    <3>2. p \in Paths /\ l \in 1 .. Len(Code(p)) /\ Backed(L, p, l, how, what)
      BY <1>3, <3>1 DEF GivenInOrder, GivenFits
    <3>3. Backed(L, p, l, how, what)'
      BY <1>1, <2>1, <3>2, BackedGrows
    <3>4. given' = given
      OBVIOUS
    <3> QED
      BY <3>1, <3>3
  <2> QED
    BY <1>3, <2>2, <2>3 DEF GivenFits
<1> QED
  BY <1>2, <1>3

\* The logs, if the code is given the outcome at line l of p, and no more than was given there.
GivesOn(p, l, what, L, M) ==
  /\ M[p][l] = L[p][l - 1] \o what
  /\ \A q \in Seq(Nat) : \A n \in Nat : q # p \/ n # l => M[q][n] = L[q][n]

\* A step that gives the code one outcome, behind which something stands.
LEMMA OneGiven ==
  ASSUME TypeOK, OpsFit, ChildrenRan, GivenInOrder, Agree,
         program' = program, OpsGrow,
         NEW p \in Paths, NEW l \in 1 .. Len(Code(p)), NEW how \in Hows(Code(p)[l].kind),
         NEW what \in Payloads, given' = given \cup {<<p, l, how, what>>}, Ran(p, l - 1),
         NEW L \in LogFunctions, GivenFits(L), Backed(L, p, l, how, what)
  PROVE  /\ GivenInOrder' /\ Agree'
         /\ \E M \in LogFunctions : GivenFits(M)' /\ GivesOn(p, l, what, L, M)
<1>1. /\ GivenGrows /\ l \in Nat /\ l - 1 \in Nat /\ l # 0 /\ p \in Seq(Nat)
      /\ Len(Code(p)) \in Nat /\ Paths \subseteq Seq(Nat)
  BY CodeFacts DEF GivenGrows
<1>2. /\ \A q, n : Ran(q, n) => Ran(q, n)'
      /\ \A q : Code(q)' = Code(q) /\ Paths' = Paths
  BY <1>1, RanGrows
<1>3. GivenInOrder'
  <2>1. ASSUME NEW g \in given'
        PROVE  /\ g[1] \in Paths /\ g[2] \in 1 .. Len(Code(g[1])) /\ Ran(g[1], g[2] - 1)
               /\ g[3] \in Hows(Code(g[1])[g[2]].kind)
    <3>1. CASE g \in given
      BY <3>1 DEF GivenInOrder
    <3>2. CASE g = <<p, l, how, what>>
      BY <3>2
    <3> QED
      BY <3>1, <3>2
  <2> QED
    BY <1>2, <2>1 DEF GivenInOrder
<1>4. CASE \E g \in given : g[1] = p /\ g[2] = l
  <2>1. ASSUME NEW g \in given, g[1] = p, g[2] = l
        PROVE  (g[3] = "returns" <=> how = "returns") /\ g[4] = what
    <3>1. PICK h, w : h = g[3] /\ w = g[4]
      OBVIOUS
    <3>2. Backed(L, p, l, h, w)
      BY <2>1, <3>1 DEF GivenFits
    <3> QED
      BY <3>1, <3>2, BackedOnce
  <2>2. L[p][l] = L[p][l - 1] \o what
    BY <1>4, <2>1 DEF GivenFits
  <2>3. Agree'
    <3>1. \A g \in given' : g \in given \/ (g = <<p, l, how, what>> /\ g[1] = p /\ g[2] = l
                                             /\ g[3] = how /\ g[4] = what)
      OBVIOUS
    <3> QED
      BY <2>1, <3>1 DEF Agree
  <2>4. SameLogs(L, L)
    BY DEF SameLogs
  <2>5. ASSUME NEW g \in given'
        PROVE  L[g[1]][g[2]] = L[g[1]][g[2] - 1] \o g[4] /\ Backed(L, g[1], g[2], g[3], g[4])'
    <3>1. CASE g \in given
      <4>1. PICK q, m, h, w : q = g[1] /\ m = g[2] /\ h = g[3] /\ w = g[4]
        OBVIOUS
      <4>2. q \in Paths /\ m \in 1 .. Len(Code(q)) /\ Backed(L, q, m, h, w)
        BY <3>1, <4>1 DEF GivenInOrder, GivenFits
      <4>3. Backed(L, q, m, h, w)'
        BY <1>1, <2>4, <4>2, BackedGrows
      <4>4. Backed(L, g[1], g[2], g[3], g[4])'
        BY <4>1, <4>3
      <4> QED
        BY <3>1, <4>4 DEF GivenFits
    <3>2. CASE g = <<p, l, how, what>>
      <4>1. Backed(L, p, l, how, what)'
        BY <1>1, <2>4, BackedGrows
      <4> QED
        BY <2>2, <3>2, <4>1
    <3> QED
      BY <3>1, <3>2
  <2>6. GivenFits(L)'
    BY <1>2, <2>5 DEF GivenFits
  <2>7. GivesOn(p, l, what, L, L)
    BY <2>2 DEF GivesOn
  <2> QED
    BY <1>3, <2>3, <2>6, <2>7
<1>5. CASE ~\E g \in given : g[1] = p /\ g[2] = l
  <2>1. L[p][l - 1] \in Payloads
    BY <1>1, LogType
  <2>2. PICK new : new = L[p][l - 1] \o what
    OBVIOUS
  <2>3. new \in Payloads
    BY <2>1, <2>2, PayloadsClosed
  <2>4. PICK M : M = [L EXCEPT ![p][l] = new]
    OBVIOUS
  <2>5. M \in LogFunctions
    <3>1. L[p] \in [Nat -> Payloads]
      BY <1>1 DEF LogFunctions
    <3>2. [L[p] EXCEPT ![l] = new] \in [Nat -> Payloads]
      BY <1>1, <2>3, <3>1
    <3>3. M = [L EXCEPT ![p] = [L[p] EXCEPT ![l] = new]]
      BY <2>4
    <3> QED
      BY <3>2, <3>3 DEF LogFunctions
  <2>6. M[p][l] = new /\ \A q \in Seq(Nat) : \A n \in Nat : q # p \/ n # l => M[q][n] = L[q][n]
    BY <1>1, <2>4 DEF LogFunctions
  <2>7. GivesOn(p, l, what, L, M)
    BY <2>2, <2>6 DEF GivesOn
  <2>8. Agree'
    <3>1. ASSUME NEW g \in given PROVE ~(g[1] = p /\ g[2] = l)
      BY <1>5
    <3>2. \A g \in given' : g \in given \/ (g = <<p, l, how, what>> /\ g[1] = p /\ g[2] = l)
      OBVIOUS
    <3> QED
      BY <3>1, <3>2 DEF Agree
  <2>9. SameLogs(L, M)
    <3>1. \A q \in Paths : M[q][0] = L[q][0]
      BY <1>1, <2>6
    <3>2. ASSUME NEW g \in given
          PROVE  M[g[1]][g[2]] = L[g[1]][g[2]] /\ M[g[1]][g[2] - 1] = L[g[1]][g[2] - 1]
      <4>1. /\ g[1] \in Seq(Nat) /\ g[2] \in Nat /\ g[2] - 1 \in Nat /\ Ran(g[1], g[2] - 1)
            /\ ~(g[1] = p /\ g[2] = l)
        <5>1. g[1] \in Seq(Nat) /\ g[2] \in Nat
          BY GivenType
        <5>2. g[1] \in Paths /\ g[2] \in 1 .. Len(Code(g[1])) /\ Ran(g[1], g[2] - 1)
          BY DEF GivenInOrder
        <5>3. Len(Code(g[1])) \in Nat
          BY <5>2, CodeFacts
        <5>4. g[2] - 1 \in Nat
          BY <5>1, <5>2, <5>3
        <5> QED
          BY <1>5, <5>1, <5>2, <5>4
      <4>2. ~(g[1] = p /\ g[2] - 1 = l)
        <5> SUFFICES ASSUME g[1] = p, g[2] - 1 = l PROVE FALSE
          OBVIOUS
        <5>1. l \in 1 .. g[2] - 1
          BY <1>1
        <5>2. \E h \in given : h[1] = p /\ h[2] = l
          BY <4>1, <5>1 DEF Ran
        <5> QED
          BY <1>5, <5>2
      <4> QED
        BY <2>6, <4>1, <4>2
    <3> QED
      BY <3>1, <3>2 DEF SameLogs
  <2>10. ASSUME NEW g \in given'
         PROVE  M[g[1]][g[2]] = M[g[1]][g[2] - 1] \o g[4] /\ Backed(M, g[1], g[2], g[3], g[4])'
    <3>1. CASE g \in given
      <4>1. PICK q, m, h, w : q = g[1] /\ m = g[2] /\ h = g[3] /\ w = g[4]
        OBVIOUS
      <4>2. q \in Paths /\ m \in 1 .. Len(Code(q)) /\ Backed(L, q, m, h, w)
        BY <3>1, <4>1 DEF GivenInOrder, GivenFits
      <4>3. Backed(M, q, m, h, w)'
        BY <1>1, <2>9, <4>2, BackedGrows
      <4>4. Backed(M, g[1], g[2], g[3], g[4])'
        BY <4>1, <4>3
      <4>5. L[g[1]][g[2]] = L[g[1]][g[2] - 1] \o g[4]
        BY <3>1 DEF GivenFits
      <4> QED
        BY <2>9, <3>1, <4>4, <4>5 DEF SameLogs
    <3>2. CASE g = <<p, l, how, what>>
      <4>1. Backed(M, p, l, how, what)'
        BY <1>1, <2>9, BackedGrows
      <4>2. M[p][l - 1] = L[p][l - 1]
        BY <1>1, <2>6
      <4> QED
        BY <2>2, <2>6, <3>2, <4>1, <4>2
    <3> QED
      BY <3>1, <3>2
  <2>11. \A q \in Paths : M[q][0] = <<>>
    BY <2>9 DEF SameLogs, GivenFits
  <2>12. GivenFits(M)'
    BY <1>2, <2>10, <2>11 DEF GivenFits
  <2> QED
    BY <1>3, <2>5, <2>7, <2>8, <2>12
<1> QED
  BY <1>4, <1>5

-----------------------------------------------------------------------------
\* The contexts.

\* What the invariant says of one context of the stack.
LEMMA FrameFacts ==
  ASSUME TypeOK, Shape, NEW k \in 1 .. Len(stack)
  PROVE  /\ Len(stack) \in Nat /\ k \in Nat /\ stack[k] \in Frame /\ FrameIsIn(stack[k])
         /\ Len(stack[k].path) = k - 1 /\ Len(Code(stack[k].path)) \in Nat
         /\ stack[k].path \in Paths /\ stack[k].path \in Seq(Nat) /\ stack[k].line \in Nat
         /\ stack[k].at \in Nat /\ stack[k].log \in Payloads /\ stack[k].parent \in Seq(Nat)
         /\ Id(stack[k]) = OpId(stack[k].path, stack[k].line)
         /\ Id(stack[k]) \in Seq(Nat) /\ Len(Id(stack[k])) = k /\ Id(stack[k]) # Root
         /\ AtOp(stack[k]) => IsOp(stack[k].path, stack[k].line)
<1>1. Len(stack) \in Nat /\ k \in Nat /\ stack[k] \in Frame
  BY DEF TypeOK
<1>2. FrameIsIn(stack[k]) /\ Len(stack[k].path) = k - 1
  BY DEF Shape
<1>3. /\ stack[k].path \in Seq(Nat) /\ stack[k].line \in Nat /\ stack[k].at \in Nat
      /\ stack[k].log \in Payloads /\ stack[k].parent \in Seq(Nat)
  BY <1>1 DEF Frame
<1>4. /\ stack[k].path \in Paths /\ stack[k].line \in 0 .. Len(Code(stack[k].path))
      /\ stack[k].at = Position(Code(stack[k].path), stack[k].line)
  BY <1>2 DEF FrameIsIn
<1>5. Len(Code(stack[k].path)) \in Nat
  BY <1>4, CodeFacts
<1>6. Id(stack[k]) = OpId(stack[k].path, stack[k].line)
  BY <1>4 DEF Id, OpId
<1>7. Id(stack[k]) \in Seq(Nat) /\ Len(Id(stack[k])) = k /\ Id(stack[k]) # Root
  <2>1. PICK p \in Seq(Nat), a \in Nat : p = stack[k].path /\ a = stack[k].at
    BY <1>3
  <2>2. Id(stack[k]) = p \o <<a>>
    BY <2>1 DEF Id
  <2>3. p \o <<a>> \in Seq(Nat) /\ Len(p \o <<a>>) = Len(p) + 1 /\ p \o <<a>> # Root
    BY LongerPath
  <2>4. Len(p) = k - 1 /\ k - 1 + 1 = k
    BY <1>1, <1>2, <2>1
  <2>5. PICK id : id = Id(stack[k])
    OBVIOUS
  <2>6. id \in Seq(Nat) /\ Len(id) = k /\ id # Root
    BY <2>2, <2>3, <2>4, <2>5
  <2> QED
    BY <2>5, <2>6
<1>8. AtOp(stack[k]) => IsOp(stack[k].path, stack[k].line)
  BY <1>3, <1>4, <1>5 DEF AtOp, IsOp
<1> QED
  BY <1>1, <1>2, <1>3, <1>4, <1>5, <1>6, <1>7, <1>8

\* The innermost context and the one below it.
LEMMA TopIs ==
  ASSUME TypeOK, Shape, Live
  PROVE  /\ Len(stack) \in 1 .. Len(stack) /\ Len(stack) \in Nat /\ Top = stack[Len(stack)]
         /\ Len(stack) > 1 => Len(stack) - 1 \in 1 .. Len(stack)
                              /\ Creator = stack[Len(stack) - 1]
<1>1. Len(stack) \in Nat /\ Len(stack) # 0
  BY DEF TypeOK, Shape
<1> QED
  BY <1>1 DEF Top, Creator

\* A context that runs a child is at the operation of it.
LEMMA CreatorFacts ==
  ASSUME TypeOK, Shape, NEW k \in 1 .. Len(stack) - 1
  PROVE  /\ k \in 1 .. Len(stack) /\ k + 1 \in 1 .. Len(stack)
         /\ IsChildOf(stack[k + 1], stack[k])
         /\ IsOp(stack[k].path, stack[k].line) /\ stack[k].line >= 1
         /\ stack[k].line \in 1 .. Len(Code(stack[k].path))
         /\ stack[k + 1].path = OpId(stack[k].path, stack[k].line)
<1>1. Len(stack) \in Nat
  BY DEF TypeOK
<1>2. k \in 1 .. Len(stack) /\ k + 1 \in 1 .. Len(stack)
  BY <1>1
<1>3. IsChildOf(stack[k + 1], stack[k])
  BY DEF Shape
<1>4. IsOp(stack[k].path, stack[k].line)
  BY <1>2, <1>3, FrameFacts DEF IsChildOf
<1>5. stack[k].line \in 1 .. Len(Code(stack[k].path)) /\ stack[k].line \in Nat
  BY <1>2, <1>4, FrameFacts DEF IsOp
<1>6. stack[k + 1].path = OpId(stack[k].path, stack[k].line)
  BY <1>2, <1>3, FrameFacts DEF IsChildOf
<1> QED
  BY <1>2, <1>3, <1>4, <1>5, <1>6

\* The contexts run different codes, and their operations are different.
LEMMA FramesDiffer ==
  ASSUME TypeOK, Shape,
         NEW j \in 1 .. Len(stack), NEW k \in 1 .. Len(stack), j # k
  PROVE  stack[j].path # stack[k].path /\ Id(stack[j]) # Id(stack[k])
<1>1. Len(stack[j].path) = j - 1 /\ Len(Id(stack[j])) = j /\ j \in Nat
  BY FrameFacts
<1>2. Len(stack[k].path) = k - 1 /\ Len(Id(stack[k])) = k /\ k \in Nat
  BY FrameFacts
<1> QED
  BY <1>1, <1>2

Moves(n, f) ==
  /\ n \in 1 .. Len(stack) /\ stack' \in Seq(Frame) /\ Len(stack') = n /\ stack'[n] = f
  /\ \A k \in 1 .. n - 1 : stack'[k] = stack[k]
  /\ f \in Frame /\ FrameIsIn(f)
  /\ f.path = stack[n].path /\ f.parent = stack[n].parent
  /\ f.virtual = stack[n].virtual /\ f.again = stack[n].again

Chain ==
  /\ \A k \in 1 .. Len(stack) : FrameIsIn(stack[k]) /\ Len(stack[k].path) = k - 1
  /\ stack # <<>>
  /\ stack[1].path = Root /\ stack[1].parent = Root /\ ~stack[1].virtual /\ ~stack[1].again
  /\ \A k \in 1 .. Len(stack) - 1 : IsChildOf(stack[k + 1], stack[k])

\* The context with index n goes on, those above it are left.
LEMMA MovesKeep ==
  ASSUME TypeOK, Shape, Parents, program' = program, NEW n, NEW f, Moves(n, f),
         Live
  PROVE  Chain' /\ Parents'
<1>1. n \in Nat /\ Len(stack) \in Nat /\ n >= 1 /\ n <= Len(stack)
  BY DEF Moves, TypeOK
<1>2. ASSUME NEW k \in 1 .. n
      PROVE  /\ k \in 1 .. Len(stack) /\ stack'[k].path = stack[k].path
             /\ stack'[k].parent = stack[k].parent /\ stack'[k].virtual = stack[k].virtual
             /\ stack'[k].again = stack[k].again /\ FrameIsIn(stack'[k])
  <2>1. k \in 1 .. Len(stack)
    BY <1>1
  <2>2. CASE k = n
    BY <2>1, <2>2 DEF Moves
  <2>3. CASE k # n
    <3>1. k \in 1 .. n - 1
      BY <1>1, <2>3
    <3>2. stack'[k] = stack[k]
      BY <3>1 DEF Moves
    <3> QED
      BY <2>1, <3>2 DEF Shape
  <2> QED
    BY <2>2, <2>3
<1>3. Len(stack') = n
  BY DEF Moves
<1>4. \A k \in 1 .. n - 1 : stack'[k] = stack[k] /\ k \in 1 .. n /\ k + 1 \in 1 .. n
                            /\ k \in 1 .. Len(stack) - 1
  BY <1>1 DEF Moves
<1>5. \A g : FrameIsIn(g)' <=> FrameIsIn(g)
  BY DEF FrameIsIn, Paths, Code
<1>6. \A k \in 1 .. n : FrameIsIn(stack[k])' /\ Len(stack'[k].path) = k - 1
  <2> TAKE k \in 1 .. n
  <2>1. Len(stack'[k].path) = k - 1
    BY <1>2 DEF Shape
  <2>2. FrameIsIn(stack[k])'
    BY <1>2 DEF FrameIsIn, Paths, Code
  <2> QED
    BY <2>1, <2>2
<1>7. \A k \in 1 .. n - 1 : IsChildOf(stack[k + 1], stack[k])'
  <2> TAKE k \in 1 .. n - 1
  <2>1. IsChildOf(stack[k + 1], stack[k])
    BY <1>4 DEF Shape
  <2>2. stack'[k] = stack[k] /\ k + 1 \in 1 .. n
    BY <1>4
  <2>3. /\ stack'[k + 1].path = stack[k + 1].path /\ stack'[k + 1].parent = stack[k + 1].parent
        /\ stack'[k + 1].virtual = stack[k + 1].virtual
    BY <1>2, <2>2
  <2> QED
    <3>1. PICK g, h, c, d : g = stack[k] /\ h = stack[k + 1] /\ c = stack'[k] /\ d = stack'[k + 1]
      OBVIOUS
    <3>2. IsChildOf(h, g) /\ c = g
      BY <2>1, <2>2, <3>1
    <3>3. d.path = h.path /\ d.parent = h.parent /\ d.virtual = h.virtual
      BY <2>3, <3>1
    <3>4. (AtOp(g)' <=> AtOp(g)) /\ KindOf(g)' = KindOf(g)
      BY DEF AtOp, KindOf, Code
    <3>5. IsChildOf(d, c)'
      BY <3>2, <3>3, <3>4 DEF IsChildOf, Id
    <3> QED
      BY <3>1, <3>5
<1>8. /\ stack'[1].path = Root /\ stack'[1].parent = Root
      /\ ~stack'[1].virtual /\ ~stack'[1].again
  <2>1. /\ stack[1].path = Root /\ stack[1].parent = Root
        /\ ~stack[1].virtual /\ ~stack[1].again
    BY DEF Shape
  <2>2. 1 \in 1 .. n
    BY <1>1
  <2>3. /\ stack'[1].path = stack[1].path /\ stack'[1].parent = stack[1].parent
        /\ stack'[1].virtual = stack[1].virtual /\ stack'[1].again = stack[1].again
    BY <1>2, <2>2
  <2> QED
    BY <2>1, <2>3
<1>9. stack' # <<>>
  BY <1>1, <1>3
<1>10. Chain'
  BY <1>3, <1>6, <1>7, <1>8, <1>9 DEF Chain
<1>11. Parents'
  <2> SUFFICES ASSUME NEW k \in 1 .. n
      PROVE  stack'[k].parent = Root
             \/ \E j \in 1 .. k - 1 : ~stack'[j + 1].virtual /\ stack'[k].parent = Id(stack'[j])
    BY <1>3 DEF Parents, Id
  <2>1. CASE stack[k].parent = Root
    BY <1>2, <2>1
  <2>2. CASE stack[k].parent # Root
    <3>1. PICK j \in 1 .. k - 1 : ~stack[j + 1].virtual /\ stack[k].parent = Id(stack[j])
      BY <1>2, <2>2 DEF Parents
    <3>2. j \in 1 .. n - 1 /\ j + 1 \in 1 .. n
      BY <1>1
    <3> QED
      BY <1>2, <1>4, <3>1, <3>2 DEF Id
  <2> QED
    BY <2>1, <2>2
<1> QED
  BY <1>10, <1>11

-----------------------------------------------------------------------------
\* The operations as the service has them.

Recorded ==
  /\ DOMAIN ops \subseteq Seq(Nat) /\ ops \in [DOMAIN ops -> Operation]
  /\ \A p \in Paths : \A l \in 1 .. Len(Code(p)) :
       IsOp(p, l) /\ OpId(p, l) \in DOMAIN ops => ops[OpId(p, l)].kind = Code(p)[l].kind
  /\ \A id \in DOMAIN ops :
       ops[id].kind = "child" /\ ops[id].status = "SUCCEEDED" => RanToEnd(id)
  /\ \A id \in DOMAIN ops : ops[id].kind # "child" => ~ops[id].replay
  /\ \A id \in DOMAIN ops : ops[id].status \in Failed => ~ops[id].replay

\* What the invariant says of the operations at the service.
LEMMA RecordedNow ==
  ASSUME Inv
  PROVE  Recorded
  BY DEF Inv, TypeOK, OpsFit, ChildrenRan, Open, Recorded

\* The first update of the queue and the rest.
LEMMA QueueFacts ==
  ASSUME TypeOK, queue # <<>>
  PROVE  /\ Head(queue) = queue[1] /\ queue[1] \in Update /\ 1 \in DOMAIN queue
         /\ Len(queue) \in Nat /\ Len(queue) >= 1 /\ DOMAIN queue = 1 .. Len(queue)
         /\ Tail(queue) \in Seq(Update) /\ Len(Tail(queue)) = Len(queue) - 1
         /\ DOMAIN Tail(queue) = 1 .. Len(queue) - 1
         /\ \A i \in DOMAIN Tail(queue) : i + 1 \in DOMAIN queue /\ Tail(queue)[i] = queue[i + 1]
<1>1. queue \in Seq(Update)
  BY DEF TypeOK
<1>2. Len(queue) \in Nat /\ Len(queue) >= 1 /\ DOMAIN queue = 1 .. Len(queue)
  BY <1>1
<1>3. Head(queue) = queue[1] /\ queue[1] \in Update
  BY <1>1, <1>2
<1>4. /\ Tail(queue) \in Seq(Update) /\ Len(Tail(queue)) = Len(queue) - 1
      /\ \A i \in 1 .. Len(queue) - 1 : Tail(queue)[i] = queue[i + 1]
  BY <1>1, HeadTailProperties
<1>5. DOMAIN Tail(queue) = 1 .. Len(queue) - 1
  BY <1>4
<1> QED
  BY <1>2, <1>3, <1>4, <1>5

\* The first update of the queue meets an operation that takes it.
LEMMA HeadAccepted ==
  ASSUME TypeOK, Acceptable, queue # <<>>
  PROVE  /\ queue[1].action \in DOMAIN Accepted[queue[1].kind]
         /\ queue[1].id \in DOMAIN ops =>
              /\ ops[queue[1].id].status \in Accepted[queue[1].kind][queue[1].action]
              /\ ops[queue[1].id].status \in {"STARTED", "READY"}
         /\ queue[1].parent # Root =>
              queue[1].parent \in DOMAIN ops /\ ops[queue[1].parent].kind = "child"
<1>1. 1 \in DOMAIN queue /\ queue[1] \in Update
  BY QueueFacts
<1>2. First(1)
  BY DEF First
<1>3. queue[1].action \in DOMAIN Accepted[queue[1].kind]
  BY <1>1 DEF Acceptable, AcceptableAt
<1>4. queue[1].id \in DOMAIN ops =>
        ops[queue[1].id].status \in Accepted[queue[1].kind][queue[1].action]
  BY <1>1, <1>2 DEF Acceptable, AcceptableAt
<1>5. Accepted[queue[1].kind][queue[1].action] \subseteq {"STARTED", "READY"}
  <2>1. queue[1].kind \in OpKinds
    BY <1>1 DEF Update
  <2> QED
    BY <1>3, <2>1 DEF Accepted, OpKinds
<1>6. queue[1].parent # Root =>
        queue[1].parent \in DOMAIN ops /\ ops[queue[1].parent].kind = "child"
  BY <1>1 DEF Acceptable, AcceptableAt
<1> QED
  BY <1>3, <1>4, <1>5, <1>6

\* An update is one of the operation that a context is at, and of its kind.
LEMMA UpdateIsOf ==
  ASSUME Inv, NEW i \in DOMAIN queue
  PROVE  /\ queue[i] \in Update
         /\ \E k \in 1 .. Len(stack) : queue[i].id = Id(stack[k]) /\ AtOp(stack[k])
                                      /\ queue[i].kind = KindOf(stack[k])
         /\ queue[i].id \in DOMAIN ops => ops[queue[i].id].kind = queue[i].kind
<1>0. TypeOK /\ Shape /\ OpsFit /\ Origin
  BY DEF Inv
<1>1. queue[i] \in Update
  BY <1>0 DEF TypeOK
<1>2. PICK k \in 1 .. Len(stack) : queue[i].id = Id(stack[k]) /\ AtOp(stack[k])
  <2>1. CASE \E k \in 1 .. Len(stack) - 1 : queue[i].id = Id(stack[k])
    <3>1. PICK k \in 1 .. Len(stack) - 1 : queue[i].id = Id(stack[k])
      BY <2>1
    <3>2. k \in 1 .. Len(stack) /\ AtOp(stack[k])
      BY <1>0, <3>1, CreatorFacts DEF IsChildOf
    <3> QED
      BY <3>1, <3>2
  <2>2. CASE pc \in {"starting", "checking"} \cup Verdict /\ queue[i].id = Id(Top)
    <3>1. Live /\ pc \in InOperation
      BY <2>2 DEF Live, Resting, InOperation, Verdict
    <3>2. Top = stack[Len(stack)] /\ Len(stack) \in 1 .. Len(stack) /\ AtOp(Top)
      BY <1>0, <3>1, TopIs DEF Shape
    <3> QED
      BY <2>2, <3>2
  <2> QED
    BY <1>0, <2>1, <2>2 DEF Origin
<1>3. PICK p, l : p = stack[k].path /\ l = stack[k].line
  OBVIOUS
<1>4. IsOp(p, l) /\ queue[i].id = OpId(p, l) /\ p \in Paths /\ l \in 1 .. Len(Code(p))
  BY <1>0, <1>2, <1>3, FrameFacts DEF IsOp
<1>5. queue[i].kind = Code(p)[l].kind
  BY <1>0, <1>4 DEF OpsFit
<1>6. queue[i].kind = KindOf(stack[k])
  BY <1>3, <1>5 DEF KindOf
<1>7. queue[i].id \in DOMAIN ops => ops[queue[i].id].kind = queue[i].kind
  BY <1>0, <1>4, <1>5 DEF OpsFit
<1> QED
  BY <1>1, <1>2, <1>6, <1>7

\* It is applied: what is recorded stays sound.
LEMMA Applied ==
  ASSUME Inv, program' = program, given' = given, queue # <<>>,
         ops' = Process(Head(queue))
  PROVE  /\ OpsGrow /\ Recorded'
         /\ DOMAIN ops' = DOMAIN ops \cup {queue[1].id}
         /\ \A id \in DOMAIN ops : id # queue[1].id => ops'[id] = ops[id]
         /\ \A id \in DOMAIN ops : ops'[id].kind = ops[id].kind
         /\ ops'[queue[1].id].kind = queue[1].kind
         /\ ops'[queue[1].id].status = StatusAfter[queue[1].action]
         /\ ops'[queue[1].id].payload = queue[1].payload
         /\ ops'[queue[1].id].replay = queue[1].replay
<1> DEFINE u == queue[1]
<1>0. /\ TypeOK /\ Shape /\ OpsFit /\ Acceptable /\ Origin /\ Open /\ ChildrenRan
      /\ Recorded
  BY RecordedNow DEF Inv
<1>1. u = Head(queue) /\ u \in Update /\ 1 \in DOMAIN queue
  BY <1>0, QueueFacts
<1>2. PICK after \in [kind : {u.kind}, status : {StatusAfter[u.action]}, parent : {u.parent},
                        attempt : Nat, payload : {u.payload}, replay : {u.replay}] :
        ops' = [id \in DOMAIN ops \cup {u.id} |-> IF id = u.id THEN after ELSE ops[id]]
  <2>1. u.id \in DOMAIN ops => ops[u.id].attempt \in Nat
    BY <1>0 DEF Recorded, Operation
  <2> QED
    BY <1>1, <2>1 DEF Process
<1>3. DOMAIN ops' = DOMAIN ops \cup {u.id} /\ \A id \in DOMAIN ops : id # u.id => ops'[id] = ops[id]
  BY <1>2
<1>4. /\ ops'[u.id] = after /\ after.kind = u.kind /\ after.status = StatusAfter[u.action]
      /\ after.payload = u.payload /\ after.replay = u.replay
  BY <1>2
<1>5. StatusAfter[u.action] \in {"STARTED", "PENDING", "SUCCEEDED", "FAILED"}
  BY <1>1 DEF Update, StatusAfter
<1>6. ops'[u.id] \in Operation
  BY <1>1, <1>2, <1>4, <1>5 DEF Update, Operation, Statuses, Terminal, Failed
<1>7. u.id \in Seq(Nat) /\ u.kind \in OpKinds /\ u.replay \in BOOLEAN
  BY <1>1 DEF Update
<1>9. \A p \in Paths : \A l \in 1 .. Len(Code(p)) :
        IsOp(p, l) /\ OpId(p, l) = u.id => u.kind = Code(p)[l].kind
  BY <1>0, <1>1 DEF OpsFit
<1>10. u.id \in DOMAIN ops => ops[u.id].kind = u.kind
  BY <1>1, UpdateIsOf
<1>11. OpsGrow
  <2>1. u.id \in DOMAIN ops => ops[u.id].status \notin Terminal
    BY <1>0, HeadAccepted DEF Terminal, Failed
  <2> QED
    BY <1>3, <2>1 DEF OpsGrow
<1>12. Recorded'
  <2>1. DOMAIN ops' \subseteq Seq(Nat) /\ ops' \in [DOMAIN ops' -> Operation]
    <3>1. \A id \in DOMAIN ops' : ops'[id] \in Operation
      BY <1>0, <1>3, <1>6 DEF Recorded
    <3>2. ops' = [id \in DOMAIN ops' |-> ops'[id]]
      BY <1>2
    <3> QED
      BY <1>0, <1>3, <1>7, <3>1, <3>2 DEF Recorded
  <2>2. \A q : Code(q)' = Code(q) /\ Paths' = Paths /\ (RanToEnd(q)' <=> RanToEnd(q))
    BY DEF Code, Paths, RanToEnd, Ran, Catches
  <2>3. (\A p \in Paths : \A l \in 1 .. Len(Code(p)) :
          IsOp(p, l) /\ OpId(p, l) \in DOMAIN ops => ops[OpId(p, l)].kind = Code(p)[l].kind)'
    <3>1. ASSUME NEW p \in Paths, NEW l \in 1 .. Len(Code(p)), IsOp(p, l),
                 OpId(p, l) \in DOMAIN ops'
          PROVE  ops'[OpId(p, l)].kind = Code(p)[l].kind
      <4>1. CASE OpId(p, l) = u.id
        BY <1>4, <1>9, <3>1, <4>1
      <4>2. CASE OpId(p, l) # u.id
        BY <1>0, <1>3, <3>1, <4>2 DEF OpsFit
      <4> QED
        BY <4>1, <4>2
    <3> QED
      BY <2>2, <3>1 DEF IsOp, OpId
  <2>4. (\A id \in DOMAIN ops :
          ops[id].kind = "child" /\ ops[id].status = "SUCCEEDED" => RanToEnd(id))'
    <3>1. u.kind = "child" /\ StatusAfter[u.action] = "SUCCEEDED" => RanToEnd(u.id)
      <4>1. StatusAfter[u.action] = "SUCCEEDED" => u.action = "SUCCEED"
        BY <1>1 DEF Update, StatusAfter
      <4> QED
        BY <1>0, <1>1, <4>1 DEF ChildrenRan
    <3> QED
      BY <1>0, <1>3, <1>4, <2>2, <3>1 DEF Recorded
  <2>5. (\A id \in DOMAIN ops : ops[id].kind # "child" => ~ops[id].replay)'
    <3>1. u.kind # "child" => ~u.replay
      BY <1>0, <1>1 DEF Open
    <3> QED
      BY <1>0, <1>3, <1>4, <3>1 DEF Recorded
  <2>6. (\A id \in DOMAIN ops : ops[id].status \in Failed => ~ops[id].replay)'
    <3>1. StatusAfter[u.action] \in Failed => ~u.replay
      <4>1. StatusAfter[u.action] \in Failed => u.action # "SUCCEED"
        BY <1>1 DEF Update, StatusAfter, Failed
      <4> QED
        BY <1>0, <1>1, <4>1 DEF Open
    <3> QED
      BY <1>0, <1>3, <1>4, <3>1 DEF Recorded
  <2> QED
    BY <2>1, <2>3, <2>4, <2>5, <2>6 DEF Recorded
<1>13. \A id \in DOMAIN ops : ops'[id].kind = ops[id].kind
  BY <1>3, <1>4, <1>10
<1> QED
  BY <1>3, <1>4, <1>11, <1>12, <1>13

-----------------------------------------------------------------------------
\* An invocation ends, or has not begun.

\* The invocation has ended: nothing is left of its contexts and its queue.
LEMMA RestKeeps ==
  ASSUME Inv, program' = program, given' = given, view' = view, taken' = taken,
         OpsGrow, Recorded', pc' \in Resting, stack' = <<>>, queue' = <<>>
  PROVE  Inv'
<1>1. GivenInOrder' /\ Agree' /\ \A L \in LogFunctions : GivenFits(L) => GivenFits(L)'
  BY NothingGiven DEF Inv
<1>2. Len(stack') = 0 /\ DOMAIN queue' = {} /\ DOMAIN stack' = {}
  OBVIOUS
<1>3. ~Live' /\ pc' \notin InOperation /\ pc' \notin Verdict
      /\ pc' \notin {"run", "raising", "closing", "failing", "checking", "met", "unmet", "broken"}
  BY DEF Live, Resting, InOperation, Verdict
<1>4. TypeOK'
  <2>1. stack' \in Seq(Frame) /\ queue' \in Seq(Update)
    OBVIOUS
  <2>2. TypeOK
    BY DEF Inv
  <2> QED
    BY <2>1, <2>2 DEF TypeOK, Recorded
<1>5. Shape' /\ Parents'
  BY <1>2, <1>3 DEF Shape, Parents
<1>6. OpsFit' /\ Seen' /\ Acceptable' /\ Origin'
  BY <1>2, <1>3 DEF OpsFit, Seen, Acceptable, AcceptableAt, Origin, Recorded
<1>7. Open'
  BY <1>2, <1>3 DEF Open, Recorded
<1>8. FramesRan' /\ ChildrenRan'
  BY <1>2 DEF FramesRan, ChildrenRan, Recorded
<1>9. SomeLogs'
  <2>1. PICK L \in LogFunctions : GivenFits(L)
    BY DEF Inv, SomeLogs
  <2>2. GivenFits(L)'
    BY <1>1, <2>1
  <2>3. FramesFit(L)'
    BY <1>2 DEF FramesFit
  <2> QED
    BY <2>2, <2>3 DEF SomeLogs
<1> QED
  BY <1>1, <1>4, <1>5, <1>6, <1>7, <1>8, <1>9 DEF Inv

\* What is recorded is as it was, if the operations and what was given are.
LEMMA SameRecord ==
  ASSUME Inv, program' = program, ops' = ops, given \subseteq given'
  PROVE  OpsGrow /\ Recorded'
<1>1. GivenGrows
  BY DEF GivenGrows
<1>2. /\ \A p : RanToEnd(p) => RanToEnd(p)'
      /\ \A p : Code(p)' = Code(p) /\ Paths' = Paths
  BY <1>1, RanGrows
<1>3. Recorded
  BY RecordedNow
<1>4. OpsGrow
  BY DEF OpsGrow
<1> QED
  BY <1>2, <1>3, <1>4 DEF Recorded, IsOp, OpId

\* The invocation suspends.
LEMMA SuspendKeeps ==
  ASSUME Inv, Suspend
  PROVE  Inv'
<1>1. OpsGrow /\ Recorded'
  BY SameRecord DEF Suspend, history
<1>2. "suspended" \in Resting
  BY DEF Resting
<1> QED
  BY <1>1, <1>2, RestKeeps DEF Suspend, history

\* The invocation dies, with or without its first update applied.
LEMMA CrashKeeps ==
  ASSUME Inv, Crash
  PROVE  Inv'
<1>1. /\ program' = program /\ given' = given /\ view' = view /\ taken' = taken
      /\ pc' \in Resting /\ stack' = <<>> /\ queue' = <<>>
  BY DEF Crash, Dies, history, Resting
<1>2. OpsGrow /\ Recorded'
  <2>1. CASE ops' = ops
    BY <1>1, <2>1, SameRecord
  <2>2. CASE queue # <<>> /\ ops' = Process(Head(queue))
    BY <1>1, <2>2, Applied
  <2> QED
    BY <2>1, <2>2 DEF Crash
<1> QED
  BY <1>1, <1>2, RestKeeps

\* The handler returns or raises.
LEMMA EndHandlerKeeps ==
  ASSUME Inv, EndHandler
  PROVE  Inv'
<1>1. /\ program' = program /\ given' = given /\ view' = view /\ taken' = taken /\ ops' = ops
      /\ pc' \in Resting /\ stack' = <<>> /\ queue' = queue /\ pc \in {"run", "raising"}
      /\ Len(stack) = 1
  BY DEF EndHandler, pipe, AtEnd, Resting
<1>2. queue = <<>>
  <2>1. Origin /\ queue \in Seq(Update)
    BY DEF Inv, TypeOK
  <2>2. \A i \in DOMAIN queue : FALSE
    <3>1. pc \notin {"starting", "checking"} \cup Verdict
      BY <1>1 DEF Verdict
    <3>2. \A k \in 1 .. Len(stack) - 1 : FALSE
      BY <1>1
    <3> QED
      BY <2>1, <3>1, <3>2 DEF Origin
  <2>3. TypeOK
    BY DEF Inv
  <2> QED
    BY <2>2, <2>3, QueueFacts
<1>3. OpsGrow /\ Recorded'
  BY <1>1, SameRecord
<1> QED
  BY <1>1, <1>2, <1>3, RestKeeps

-----------------------------------------------------------------------------
\* An invocation begins.

\* An invocation starts with the root context.
LEMMA InvokeKeeps ==
  ASSUME Inv, Invoke
  PROVE  Inv'
<1>0. /\ TypeOK /\ Shape /\ OpsFit /\ Open /\ ChildrenRan /\ GivenInOrder /\ Agree
      /\ SomeLogs
  BY DEF Inv
<1>1. /\ program' = program /\ given' = given /\ ops' = ops /\ view' = ops /\ queue' = queue
      /\ taken' = taken /\ pc' = "run" /\ pc \in {"down", "suspended"}
      /\ stack' = <<Context(Root, Root, ops = <<>>, FALSE, FALSE)>>
  BY DEF Invoke, history
<1>2. /\ stack = <<>> /\ queue = <<>> /\ DOMAIN queue' = {}
      /\ Live' /\ pc' \notin InOperation /\ pc' \notin Verdict
  BY <1>0, <1>1 DEF Shape, Live, Resting, InOperation, Verdict
<1>3. PICK f : f = Context(Root, Root, ops = <<>>, FALSE, FALSE)
  OBVIOUS
<1>4. /\ f.path = Root /\ f.parent = Root /\ f.line = 0 /\ f.at = 0 /\ f.log = <<>>
      /\ f.virtual = FALSE /\ f.again = FALSE /\ f \in Frame
  BY <1>3, PayloadsClosed DEF Context, Frame, Root
<1>5. stack' = <<f>> /\ Len(stack') = 1 /\ stack'[1] = f /\ stack' # <<>> /\ stack' \in Seq(Frame)
  <2>1. stack' = <<f>>
    BY <1>1, <1>3
  <2>2. <<f>> \in Seq(Frame) /\ Len(<<f>>) = 1 /\ <<f>>[1] = f
    BY <1>4
  <2>3. <<f>> # <<>>
    OBVIOUS
  <2> QED
    BY <2>1, <2>2, <2>3
<1>6. OpsGrow /\ Recorded'
  BY <1>1, SameRecord
<1>7. GivenInOrder' /\ Agree' /\ \A L \in LogFunctions : GivenFits(L) => GivenFits(L)'
  BY <1>0, <1>1, <1>6, NothingGiven
<1>8. TypeOK'
  BY <1>0, <1>1, <1>5 DEF TypeOK
<1>9. Shape' /\ Parents'
  <2>1. Root \in Paths /\ Len(Code(Root)) \in Nat
    BY <1>0, CodeFacts
  <2>2. FrameIsIn(stack[1])'
    <3>1. PICK code : code = Code(Root)
      OBVIOUS
    <3>2. Position(code, 0) = 0
      BY PositionStep
    <3>3. Paths' = Paths /\ Code(f.path)' = code
      BY <1>1, <1>4, <3>1 DEF Paths, Code
    <3>4. FrameIsIn(f)'
      BY <1>4, <2>1, <3>1, <3>2, <3>3 DEF FrameIsIn
    <3> QED
      BY <1>5, <3>4 DEF FrameIsIn
  <2>3. Len(stack'[1].path) = 0
    BY <1>4, <1>5 DEF Root
  <2>4. Shape'
    <3>1. (\A k \in 1 .. Len(stack) : FrameIsIn(stack[k]) /\ Len(stack[k].path) = k - 1)'
      <4>1. \A k \in 1 .. Len(stack') : k = 1
        BY <1>5
      <4> QED
        BY <2>2, <2>3, <4>1
    <3>2. \A k \in 1 .. Len(stack') - 1 : FALSE
      BY <1>5
    <3> QED
      BY <1>1, <1>2, <1>4, <1>5, <3>1, <3>2 DEF Shape
  <2> QED
    BY <1>4, <1>5, <2>4 DEF Parents
<1>10. OpsFit' /\ Seen' /\ Acceptable' /\ Origin'
  BY <1>1, <1>2, <1>6 DEF OpsFit, Seen, Acceptable, AcceptableAt, Origin, Recorded
<1>11. Open'
  BY <1>1, <1>2, <1>5, <1>6 DEF Open, Recorded
<1>12. FramesRan' /\ ChildrenRan'
  <2>1. ChildrenRan'
    BY <1>2, <1>6 DEF ChildrenRan, Recorded
  <2>2. Done(1)' = 0
    BY <1>2, <1>4, <1>5 DEF Done
  <2>3. \A p : Ran(p, 0)'
    BY DEF Ran
  <2>4. \A k \in 1 .. Len(stack') : k = 1
    BY <1>5
  <2>5. FramesRan'
    BY <1>1, <2>2, <2>3, <2>4 DEF FramesRan
  <2> QED
    BY <2>1, <2>5
<1>13. SomeLogs'
  <2>1. PICK L \in LogFunctions : GivenFits(L)
    BY <1>0 DEF SomeLogs
  <2>2. GivenFits(L)'
    BY <1>7, <2>1
  <2>3. Root \in Paths /\ L[Root][0] = <<>>
    BY <1>0, <2>1, CodeFacts DEF GivenFits
  <2>4. FramesFit(L)'
    BY <1>2, <1>4, <1>5, <2>3 DEF FramesFit, Done
  <2> QED
    BY <2>2, <2>4 DEF SomeLogs
<1> QED
  BY <1>7, <1>8, <1>9, <1>10, <1>11, <1>12, <1>13 DEF Inv

-----------------------------------------------------------------------------
\* The service: the code does not move.

\* A step of the service or of the pipeline: the thread does nothing.
LEMMA ThreadStays ==
  ASSUME Inv, program' = program, given' = given, stack' = stack, pc' = pc,
         Live \/ queue' = queue, OpsGrow, Recorded',
         \A i \in DOMAIN queue' : \E j \in DOMAIN queue : queue'[i] = queue[j]
  PROVE  /\ Shape' /\ Parents' /\ OpsFit' /\ Origin' /\ GivenInOrder' /\ Agree'
         /\ FramesRan' /\ ChildrenRan' /\ SomeLogs'
<1>0. /\ TypeOK /\ Shape /\ Parents /\ OpsFit /\ Open /\ ChildrenRan /\ GivenInOrder
      /\ Agree /\ SomeLogs /\ Origin /\ FramesRan
  BY DEF Inv
<1>1. GivenInOrder' /\ Agree' /\ \A L \in LogFunctions : GivenFits(L) => GivenFits(L)'
  BY <1>0, NothingGiven
<1>2. /\ \A q : Code(q)' = Code(q) /\ Paths' = Paths /\ (RanToEnd(q)' <=> RanToEnd(q))
      /\ \A q, n : (Ran(q, n)' <=> Ran(q, n)) /\ (Raises(q, n)' <=> Raises(q, n))
  BY DEF Code, Paths, RanToEnd, Ran, Raises, Catches
<1>3. Shape' /\ Parents'
  BY <1>0, <1>2
     DEF Shape, Parents, Live, FrameIsIn, IsChildOf, AtOp, KindOf, Paths, Code, Top, Id
<1>4. OpsFit' /\ ChildrenRan'
  <2>1. ASSUME NEW i \in DOMAIN queue', NEW p \in Paths, NEW l \in 1 .. Len(Code(p)), IsOp(p, l),
               queue'[i].id = OpId(p, l)
        PROVE  queue'[i].kind = Code(p)[l].kind
    BY <1>0, <2>1 DEF OpsFit
  <2>2. \A i \in DOMAIN queue' :
          queue'[i].kind = "child" /\ queue'[i].action = "SUCCEED" => RanToEnd(queue'[i].id)
    BY <1>0 DEF ChildrenRan
  <2>3. OpsFit'
    BY <1>2, <2>1 DEF OpsFit, Recorded, IsOp, OpId
  <2>4. ChildrenRan'
    BY <1>2, <2>2 DEF ChildrenRan, Recorded
  <2> QED
    BY <2>3, <2>4
<1>5. Origin'
  <2>1. (\A k : Id(stack[k])' = Id(stack[k])) /\ Id(Top)' = Id(Top) /\ Len(stack') = Len(stack)
    BY DEF Id, Top
  <2>2. ASSUME NEW i \in DOMAIN queue'
        PROVE  (\/ \E k \in 1 .. Len(stack) - 1 :
                     /\ queue[i].id = Id(stack[k])
                     /\ \/ queue[i].action = "START"
                        \/ k = Len(stack) - 1 /\ pc \in {"closing", "failing"}
                \/ /\ pc \in {"starting", "checking"} \cup Verdict /\ queue[i].id = Id(Top)
                   /\ pc \in {"starting", "checking"} => queue[i].action = "START")'
    <3>1. PICK j \in DOMAIN queue : queue'[i] = queue[j]
      OBVIOUS
    <3> QED
      BY <1>0, <2>1, <3>1 DEF Origin
  <2> QED
    BY <2>2 DEF Origin
<1>6. FramesRan'
  BY <1>0, <1>2 DEF FramesRan, Done
<1>7. SomeLogs'
  <2>1. PICK L \in LogFunctions : GivenFits(L) /\ FramesFit(L)
    BY <1>0 DEF SomeLogs
  <2>2. FramesFit(L)'
    BY <2>1 DEF FramesFit, Done
  <2> QED
    BY <1>1, <2>1, <2>2 DEF SomeLogs
<1> QED
  BY <1>1, <1>3, <1>4, <1>5, <1>6, <1>7

\* An operation ends, or is due, at the service.
LEMMA CompleteKeeps ==
  ASSUME Inv, NEW id \in DOMAIN ops, Complete(id)
  PROVE  Inv'
<1>0. /\ TypeOK /\ Seen /\ Acceptable /\ Open /\ Recorded
  BY RecordedNow DEF Inv
<1>1. /\ program' = program /\ given' = given /\ stack' = stack /\ pc' = pc /\ taken' = taken
      /\ view' = view /\ queue' = queue
  BY DEF Complete, pipe, thread, history
<1>2. PICK status \in {"SUCCEEDED", "FAILED", "TIMED_OUT", "READY"}, payload \in Payloads :
        /\ ops' = [ops EXCEPT ![id].status = status, ![id].payload = payload]
        /\ \/ ops[id].kind \in {"wait", "invoke", "callback"} /\ ops[id].status = "STARTED"
           \/ ops[id].kind = "condition" /\ ops[id].status = "PENDING"
  <2>1. ops[id].payload \in Payloads
    BY <1>0 DEF Recorded, Operation
  <2> QED
    BY <2>1, PayloadsClosed DEF Complete
<1>3. /\ DOMAIN ops' = DOMAIN ops /\ \A x \in DOMAIN ops : x # id => ops'[x] = ops[x]
      /\ ops'[id].kind = ops[id].kind /\ ops'[id].replay = ops[id].replay
      /\ ops' \in [DOMAIN ops -> Operation]
  <2>1. PICK o : o = ops[id]
    OBVIOUS
  <2>2. o \in Operation
    BY <1>0, <2>1 DEF Recorded
  <2>3. PICK new : new = [o EXCEPT !.status = status, !.payload = payload]
    OBVIOUS
  <2>4. new \in Operation /\ new.kind = o.kind /\ new.replay = o.replay
    BY <2>2, <2>3 DEF Operation, Statuses, Terminal, Failed
  <2>5. ops' = [ops EXCEPT ![id] = new]
    BY <1>2, <2>1, <2>3
  <2> QED
    BY <1>0, <2>1, <2>4, <2>5 DEF Recorded
<1>4. OpsGrow
  BY <1>2, <1>3 DEF OpsGrow, Terminal, Failed
<1>5. Recorded'
  <2>1. \A q : Code(q)' = Code(q) /\ Paths' = Paths /\ (RanToEnd(q)' <=> RanToEnd(q))
    BY <1>1 DEF Code, Paths, RanToEnd, Ran, Catches
  <2>2. ops[id].kind # "child" /\ ~ops[id].replay
    BY <1>0, <1>2 DEF Recorded
  <2>3. \A x \in DOMAIN ops : ops'[x].kind = ops[x].kind
    BY <1>3
  <2>4. (\A p \in Paths : \A l \in 1 .. Len(Code(p)) :
          IsOp(p, l) /\ OpId(p, l) \in DOMAIN ops => ops[OpId(p, l)].kind = Code(p)[l].kind)'
    BY <1>0, <1>3, <2>1, <2>3 DEF Recorded, IsOp, OpId
  <2> QED
    BY <1>0, <1>3, <2>1, <2>2, <2>4 DEF Recorded
<1>6. /\ Shape' /\ Parents' /\ OpsFit' /\ Origin' /\ GivenInOrder' /\ Agree'
      /\ FramesRan' /\ ChildrenRan' /\ SomeLogs'
  <2>1. \A i \in DOMAIN queue' : \E j \in DOMAIN queue : queue'[i] = queue[j]
    BY <1>1
  <2> QED
    BY <1>1, <1>4, <1>5, <2>1, ThreadStays
<1>7. TypeOK'
  BY <1>0, <1>1, <1>3 DEF TypeOK
<1>8. Seen'
  BY <1>0, <1>1, <1>2, <1>3 DEF Seen, Live
<1>9. Acceptable'
  <2>1. ASSUME NEW j \in DOMAIN queue, First(j), queue[j].id = id
        PROVE  FALSE
    <3>1. ops[id].status \in Accepted[queue[j].kind][queue[j].action]
      BY <1>0, <2>1 DEF Acceptable, AcceptableAt
    <3>2. queue[j].kind = ops[id].kind /\ queue[j].action \in DOMAIN Accepted[queue[j].kind]
      BY <1>0, <2>1, UpdateIsOf DEF Acceptable, AcceptableAt
    <3> QED
      BY <1>2, <3>1, <3>2 DEF Accepted
  <2>2. \A i, j : Follows(i, j)' <=> Follows(i, j)
    BY <1>1 DEF Follows
  <2>3. \A j : First(j)' <=> First(j)
    BY <1>1 DEF First
  <2> QED
    BY <1>0, <1>1, <1>3, <2>1, <2>2, <2>3 DEF Acceptable, AcceptableAt
<1>10. Open'
  <2>1. \A x : IsStarted(x, "child") => IsStarted(x, "child")'
    BY <1>1, <1>2, <1>3 DEF IsStarted, Queued
  <2>2. \A x : IsStarted(x, "condition") => IsStarted(x, "condition")'
    BY <1>1, <1>2, <1>3 DEF IsStarted, Queued
  <2>3. \A x, action, p : Told(x, action, p) /\ action \in {"SUCCEED", "FAIL"}
                            => Told(x, action, p)'
    BY <1>1, <1>4 DEF Told, OpsGrow, StatusAfter, Terminal, Failed
  <2>4. \A k : ChildIsOpen(k) => ChildIsOpen(k)'
    <3> TAKE k
    <3>1. PICK c, f : c = Id(stack[k]) /\ f = stack[k + 1]
      OBVIOUS
    <3>2. c = Id(stack[k])' /\ f = stack'[k + 1] /\ Len(stack') = Len(stack)
      BY <1>1, <3>1 DEF Id
    <3> QED
      BY <1>1, <1>2, <1>3, <2>1, <3>1, <3>2 DEF ChildIsOpen
  <2>5. \A x : Queued(x)' <=> Queued(x)
    BY <1>1 DEF Queued
  <2>6. /\ Top' = Top /\ Creator' = Creator /\ \A k : Id(stack[k])' = Id(stack[k])
        /\ Id(Top)' = Id(Top) /\ Id(Creator)' = Id(Creator)
    BY <1>1 DEF Top, Creator, Id
  <2>7. /\ \A k \in 1 .. Len(stack) - 1 : ~stack[k + 1].virtual =>
            /\ ChildIsOpen(k)'
            /\ Id(stack[k]) \in DOMAIN ops' => ops'[Id(stack[k])].kind = "child"
            /\ Id(stack[k]) \in DOMAIN ops' \/ Queued(Id(stack[k]))
    BY <1>0, <1>3, <2>4 DEF Open
  <2>8. /\ pc = "checking" => IsStarted(Id(Top), "condition")'
        /\ pc = "met" => Told(Id(Top), "SUCCEED", taken.payload)'
        /\ pc = "broken" => Told(Id(Top), "FAIL", <<"boom">>)'
        /\ pc = "closing" => Told(Id(Creator), "SUCCEED", Top.log)'
        /\ pc = "failing" => Told(Id(Creator), "FAIL", Top.log)'
    <3>1. PICK t, c, w, log : t = Id(Top) /\ c = Id(Creator) /\ w = taken.payload /\ log = Top.log
      OBVIOUS
    <3>2. t = Id(Top)' /\ c = Id(Creator)' /\ w = taken'.payload /\ log = Top'.log
      BY <1>1, <2>6, <3>1
    <3>3. /\ pc = "checking" => IsStarted(t, "condition")'
          /\ pc = "met" => Told(t, "SUCCEED", w)'
          /\ pc = "broken" => Told(t, "FAIL", <<"boom">>)'
          /\ pc = "closing" => Told(c, "SUCCEED", log)'
          /\ pc = "failing" => Told(c, "FAIL", log)'
      BY <1>0, <2>2, <2>3, <3>1 DEF Open
    <3> QED
      BY <3>2, <3>3
  <2>9. (\A k \in 1 .. Len(stack) - 1 : ~stack[k + 1].virtual =>
          /\ ChildIsOpen(k)
          /\ Id(stack[k]) \in DOMAIN ops => ops[Id(stack[k])].kind = "child"
          /\ Id(stack[k]) \in DOMAIN ops \/ Queued(Id(stack[k])))'
    BY <1>1, <2>5, <2>6, <2>7
  <2>10. (/\ \A i \in DOMAIN queue : queue[i].kind # "child" => ~queue[i].replay
          /\ \A i \in DOMAIN queue : queue[i].action # "SUCCEED" => ~queue[i].replay)'
    BY <1>0, <1>1 DEF Open
  <2>11. (/\ pc = "checking" => IsStarted(Id(Top), "condition")
          /\ pc = "met" => Told(Id(Top), "SUCCEED", taken.payload)
          /\ pc = "broken" => Told(Id(Top), "FAIL", <<"boom">>)
          /\ pc = "closing" => Told(Id(Creator), "SUCCEED", Top.log)
          /\ pc = "failing" => Told(Id(Creator), "FAIL", Top.log))'
    BY <1>1, <2>8
  <2> QED
    BY <1>5, <2>9, <2>10, <2>11 DEF Open, Recorded
<1> QED
  BY <1>6, <1>7, <1>8, <1>9, <1>10 DEF Inv

\* The first update is applied, and its answer merged.
LEMMA SendKeeps ==
  ASSUME Inv, Send
  PROVE  Inv'
<1> DEFINE u == queue[1]
<1>0. /\ TypeOK /\ Shape /\ Parents /\ OpsFit /\ Seen /\ Acceptable /\ Origin /\ Open
  BY DEF Inv
<1>1. /\ program' = program /\ given' = given /\ stack' = stack /\ pc' = pc /\ taken' = taken
      /\ view' = ops' /\ queue' = Tail(queue) /\ ops' = Process(Head(queue)) /\ queue # <<>>
  BY DEF Send, thread, history
<1>2. /\ u \in Update /\ 1 \in DOMAIN queue /\ Len(queue) \in Nat /\ Len(queue) >= 1
      /\ DOMAIN queue = 1 .. Len(queue) /\ queue' \in Seq(Update) /\ Len(queue') = Len(queue) - 1
      /\ DOMAIN queue' = 1 .. Len(queue) - 1
      /\ \A i \in DOMAIN queue' : i + 1 \in DOMAIN queue /\ queue'[i] = queue[i + 1]
  BY <1>0, <1>1, QueueFacts
<1>3. /\ OpsGrow /\ Recorded' /\ DOMAIN ops' = DOMAIN ops \cup {u.id}
      /\ \A id \in DOMAIN ops : id # u.id => ops'[id] = ops[id]
      /\ \A id \in DOMAIN ops : ops'[id].kind = ops[id].kind
      /\ ops'[u.id].kind = u.kind /\ ops'[u.id].status = StatusAfter[u.action]
      /\ ops'[u.id].payload = u.payload /\ ops'[u.id].replay = u.replay
  BY <1>1, Applied
<1>4. Live
  BY <1>0, <1>1 DEF Shape
<1>5. u.action \in DOMAIN Accepted[u.kind] /\ u.kind \in OpKinds
      /\ u.action \in {"START", "RETRY", "SUCCEED", "FAIL"}
  BY <1>0, <1>1, <1>2, HeadAccepted DEF Update
<1>6. /\ Shape' /\ Parents' /\ OpsFit' /\ Origin' /\ GivenInOrder' /\ Agree'
      /\ FramesRan' /\ ChildrenRan' /\ SomeLogs'
  <2>1. \A i \in DOMAIN queue' : \E j \in DOMAIN queue : queue'[i] = queue[j]
    BY <1>2
  <2> QED
    BY <1>1, <1>3, <1>4, <2>1, ThreadStays
<1>7. TypeOK'
  BY <1>0, <1>1, <1>2, <1>3 DEF TypeOK, Recorded
<1>8. Seen'
  BY <1>1 DEF Seen
<1>9. Acceptable'
  <2>1. ASSUME NEW j \in DOMAIN queue'
        PROVE  /\ queue'[j].action \in DOMAIN Accepted[queue'[j].kind]
               /\ \A i \in 1 .. j - 1 : queue'[i].id = queue'[j].id => Follows(i, j)'
    <3>1. j + 1 \in DOMAIN queue /\ queue'[j] = queue[j + 1] /\ j \in Nat
      BY <1>2
    <3>2. queue[j + 1].action \in DOMAIN Accepted[queue[j + 1].kind]
      BY <1>0, <3>1 DEF Acceptable, AcceptableAt
    <3>3. ASSUME NEW i \in 1 .. j - 1, queue'[i].id = queue'[j].id PROVE Follows(i, j)'
      <4>1. i \in DOMAIN queue' /\ i + 1 \in 1 .. (j + 1) - 1 /\ queue'[i] = queue[i + 1]
        <5>1. j \in 1 .. Len(queue) - 1
          BY <1>2
        <5>2. i \in 1 .. Len(queue) - 1 /\ i + 1 \in 1 .. (j + 1) - 1
          BY <1>2, <5>1
        <5>3. i \in DOMAIN queue'
          BY <1>2, <5>2
        <5> QED
          BY <1>2, <5>2, <5>3
      <4>2. Follows(i + 1, j + 1)
        BY <1>0, <3>1, <3>3, <4>1 DEF Acceptable, AcceptableAt
      <4> QED
        BY <3>1, <4>1, <4>2 DEF Follows
    <3> QED
      BY <3>1, <3>2, <3>3
  <2>2. ASSUME NEW j \in DOMAIN queue', First(j)', queue'[j].id \in DOMAIN ops'
        PROVE  ops'[queue'[j].id].status \in Accepted[queue'[j].kind][queue'[j].action]
    <3>1. j + 1 \in DOMAIN queue /\ queue'[j] = queue[j + 1] /\ j \in Nat /\ 1 \in 1 .. (j + 1) - 1
      BY <1>2
    <3>2. CASE queue[j + 1].id = u.id
      <4>1. Follows(1, j + 1)
        BY <1>0, <3>1, <3>2 DEF Acceptable, AcceptableAt
      <4>2. ops'[u.id].status = "STARTED"
        BY <1>3, <4>1 DEF Follows, StatusAfter
      <4> QED
        BY <3>1, <3>2, <4>1, <4>2 DEF Follows
    <3>3. CASE queue[j + 1].id # u.id
      <4>1. ASSUME NEW i \in 1 .. (j + 1) - 1 PROVE queue[i].id # queue[j + 1].id
        <5>1. CASE i = 1
          BY <3>3, <5>1
        <5>2. CASE i # 1
          <6>1. i - 1 \in 1 .. j - 1 /\ i - 1 \in DOMAIN queue' /\ (i - 1) + 1 = i
            BY <1>2, <3>1, <5>2
          <6>2. queue'[i - 1] = queue[i]
            BY <1>2, <6>1
          <6> QED
            BY <2>2, <3>1, <6>1, <6>2 DEF First
        <5> QED
          BY <5>1, <5>2
      <4>2. First(j + 1)
        BY <4>1 DEF First
      <4>3. queue[j + 1].id \in DOMAIN ops /\ ops'[queue[j + 1].id] = ops[queue[j + 1].id]
        BY <1>3, <2>2, <3>1, <3>3
      <4> QED
        BY <1>0, <3>1, <4>2, <4>3 DEF Acceptable, AcceptableAt
    <3> QED
      BY <3>2, <3>3
  <2>3. ASSUME NEW j \in DOMAIN queue', queue'[j].parent # Root
        PROVE  \/ queue'[j].parent \in DOMAIN ops' /\ ops'[queue'[j].parent].kind = "child"
               \/ \E i \in 1 .. j - 1 : queue'[i].id = queue'[j].parent /\ queue'[i].kind = "child"
    <3>1. j + 1 \in DOMAIN queue /\ queue'[j] = queue[j + 1] /\ j \in Nat
      BY <1>2
    <3>2. CASE queue[j + 1].parent \in DOMAIN ops /\ ops[queue[j + 1].parent].kind = "child"
      BY <1>3, <3>1, <3>2
    <3>3. CASE \E i \in 1 .. (j + 1) - 1 : queue[i].id = queue[j + 1].parent
                                           /\ queue[i].kind = "child"
      <4>1. PICK i \in 1 .. (j + 1) - 1 : queue[i].id = queue[j + 1].parent
                                          /\ queue[i].kind = "child"
        BY <3>3
      <4>2. CASE i = 1
        BY <1>3, <3>1, <4>1, <4>2
      <4>3. CASE i # 1
        <5>1. i - 1 \in 1 .. j - 1 /\ i - 1 \in DOMAIN queue' /\ (i - 1) + 1 = i
          BY <1>2, <3>1, <4>3
        <5>2. queue'[i - 1] = queue[i]
          BY <1>2, <5>1
        <5> QED
          BY <3>1, <4>1, <5>1, <5>2
      <4> QED
        BY <4>2, <4>3
    <3> QED
      BY <1>0, <2>3, <3>1, <3>2, <3>3 DEF Acceptable, AcceptableAt
  <2> QED
    BY <2>1, <2>2, <2>3 DEF Acceptable, AcceptableAt
<1>10. Open'
  <2>1. /\ \A k : Id(stack[k])' = Id(stack[k])
        /\ Top' = Top /\ Creator' = Creator /\ Id(Top)' = Id(Top) /\ Id(Creator)' = Id(Creator)
    BY <1>1 DEF Top, Creator, Id
  \* A START that was queued is, or is applied.
  <2>2. ASSUME NEW x, Queued(x)
        PROVE  Queued(x)' \/ (x = u.id /\ x \in DOMAIN ops' /\ ops'[x].status = "STARTED")
    <3>1. PICK i \in DOMAIN queue : queue[i].id = x /\ queue[i].action = "START"
      BY <2>2 DEF Queued
    <3>2. CASE i = 1
      BY <1>3, <3>1, <3>2 DEF StatusAfter
    <3>3. CASE i # 1
      <4>1. i - 1 \in DOMAIN queue' /\ (i - 1) + 1 = i
        BY <1>2, <3>3
      <4>2. queue'[i - 1] = queue[i]
        BY <1>2, <4>1
      <4> QED
        BY <3>1, <4>1, <4>2 DEF Queued
    <3> QED
      BY <3>2, <3>3
  <2>3. ASSUME NEW x, NEW kind \in {"child", "condition"}, IsStarted(x, kind),
               x = u.id => u.kind = kind, x = u.id => u.action = "START"
        PROVE  IsStarted(x, kind)'
    <3>1. CASE Queued(x)
      BY <1>3, <2>2, <2>3, <3>1 DEF IsStarted
    <3>2. CASE x \in DOMAIN ops /\ ops[x].kind = kind /\ ops[x].status = "STARTED"
      <4>1. CASE x = u.id
        BY <1>3, <2>3, <4>1 DEF IsStarted, StatusAfter
      <4>2. CASE x # u.id
        BY <1>3, <3>2, <4>2 DEF IsStarted
      <4> QED
        BY <4>1, <4>2
    <3> QED
      BY <2>3, <3>1, <3>2 DEF IsStarted
  <2>4. ASSUME NEW x, NEW action, NEW p, Told(x, action, p) PROVE Told(x, action, p)'
    <3>1. PICK last : last = queue[Len(queue)]
      OBVIOUS
    <3>2. last.id = x /\ last.action = action /\ (last.replay \/ last.payload = p)
      BY <1>1, <2>4, <3>1 DEF Told
    <3>3. CASE Len(queue) = 1
      <4>1. queue' = <<>> /\ last = u
        BY <1>2, <3>1, <3>3
      <4> QED
        BY <1>3, <3>2, <4>1 DEF Told
    <3>4. CASE Len(queue) # 1
      <4>1. Len(queue') \in DOMAIN queue' /\ Len(queue') + 1 = Len(queue) /\ queue' # <<>>
        BY <1>2, <3>4
      <4>2. queue'[Len(queue')] = last
        BY <1>2, <3>1, <4>1
      <4> QED
        BY <3>2, <4>1, <4>2 DEF Told
    <3> QED
      BY <3>3, <3>4
  <2>5. ASSUME NEW k \in 1 .. Len(stack) - 1, ~stack[k + 1].virtual
        PROVE  /\ ChildIsOpen(k)'
               /\ Id(stack[k]) \in DOMAIN ops' => ops'[Id(stack[k])].kind = "child"
               /\ Id(stack[k]) \in DOMAIN ops' \/ Queued(Id(stack[k]))'
    <3>1. PICK c, f : c = Id(stack[k]) /\ f = stack[k + 1]
      OBVIOUS
    <3>2. /\ ChildIsOpen(k)
          /\ c \in DOMAIN ops => ops[c].kind = "child"
          /\ c \in DOMAIN ops \/ Queued(c)
      BY <1>0, <2>5, <3>1 DEF Open
    <3>3. c = u.id => u.kind = "child"
      <4>1. PICK j \in 1 .. Len(stack) : u.id = Id(stack[j]) /\ AtOp(stack[j])
                                         /\ u.kind = KindOf(stack[j])
        BY <1>2, UpdateIsOf
      <4>2. k \in 1 .. Len(stack) /\ KindOf(stack[k]) \in ChildKinds
        BY <1>0, CreatorFacts DEF IsChildOf
      <4>3. c = u.id => j = k
        BY <1>0, <3>1, <4>1, <4>2, FramesDiffer
      <4> QED
        BY <1>5, <4>1, <4>2, <4>3 DEF ChildKinds, OpKinds
    <3>4. c \in DOMAIN ops' => ops'[c].kind = "child"
      BY <1>3, <3>2, <3>3
    <3>5. c \in DOMAIN ops' \/ Queued(c)'
      BY <1>3, <2>2, <3>2
    <3>6. (IF f.again
           THEN c \in DOMAIN ops' /\ ops'[c].kind = "child" /\ ops'[c].status = "SUCCEEDED"
                /\ ops'[c].replay
           ELSE IsStarted(c, "child")' \/ (k = Len(stack) - 1 /\ pc \in {"closing", "failing"}))
      <4>1. CASE f.again
        <5>1. c \in DOMAIN ops /\ ops[c].status = "SUCCEEDED" /\ ops[c].replay
          BY <3>1, <3>2, <4>1 DEF ChildIsOpen
        <5>2. c \in DOMAIN ops' /\ ops'[c] = ops[c]
          BY <1>3, <5>1 DEF OpsGrow, Terminal
        <5> QED
          BY <3>4, <4>1, <5>1, <5>2
      <4>2. CASE ~f.again
        <5>1. CASE k = Len(stack) - 1 /\ pc \in {"closing", "failing"}
          BY <4>2, <5>1
        <5>2. CASE ~(k = Len(stack) - 1 /\ pc \in {"closing", "failing"})
          <6>1. IsStarted(c, "child")
            BY <3>1, <3>2, <4>2, <5>2 DEF ChildIsOpen
          <6>2. c = u.id => u.action = "START"
            <7>1. k \in 1 .. Len(stack) /\ Len(stack) \in Nat
              BY <1>0, CreatorFacts DEF TypeOK
            <7>2. ASSUME c = u.id, NEW j \in 1 .. Len(stack) - 1, u.id = Id(stack[j]) PROVE j = k
              <8>1. j \in 1 .. Len(stack)
                BY <7>1
              <8> QED
                BY <1>0, <3>1, <7>1, <7>2, <8>1, FramesDiffer
            <7>3. c = u.id => ~(pc \in {"starting", "checking"} \cup Verdict /\ u.id = Id(Top))
              <8> SUFFICES ASSUME c = u.id, u.id = Id(Top) PROVE FALSE
                OBVIOUS
              <8>1. Top = stack[Len(stack)] /\ Len(stack) \in 1 .. Len(stack) /\ Len(stack) # k
                BY <1>0, <1>4, <7>1, TopIs
              <8> QED
                BY <1>0, <3>1, <7>1, <8>1, FramesDiffer
            <7> QED
              BY <1>0, <1>2, <5>2, <7>2, <7>3 DEF Origin
          <6> QED
            BY <2>3, <3>3, <4>2, <6>1, <6>2
        <5> QED
          BY <5>1, <5>2
      <4> QED
        BY <4>1, <4>2
    <3>7. c = Id(stack[k])' /\ f = stack'[k + 1] /\ Len(stack') = Len(stack) /\ pc' = pc
      BY <1>1, <2>1, <3>1
    <3>8. ChildIsOpen(k)'
      BY <3>6, <3>7 DEF ChildIsOpen
    <3> QED
      BY <3>1, <3>4, <3>5, <3>7, <3>8
  <2>6. (\A k \in 1 .. Len(stack) - 1 : ~stack[k + 1].virtual =>
          /\ ChildIsOpen(k)
          /\ Id(stack[k]) \in DOMAIN ops => ops[Id(stack[k])].kind = "child"
          /\ Id(stack[k]) \in DOMAIN ops \/ Queued(Id(stack[k])))'
    BY <1>1, <2>1, <2>5
  <2>7. (/\ pc = "checking" => IsStarted(Id(Top), "condition")
         /\ pc = "met" => Told(Id(Top), "SUCCEED", taken.payload)
         /\ pc = "broken" => Told(Id(Top), "FAIL", <<"boom">>)
         /\ pc = "closing" => Told(Id(Creator), "SUCCEED", Top.log)
         /\ pc = "failing" => Told(Id(Creator), "FAIL", Top.log))'
    <3>1. PICK t, c, w, log : t = Id(Top) /\ c = Id(Creator) /\ w = taken.payload /\ log = Top.log
      OBVIOUS
    <3>2. t = Id(Top)' /\ c = Id(Creator)' /\ w = taken'.payload /\ log = Top'.log
      BY <1>1, <2>1, <3>1
    <3>3. /\ pc = "met" => Told(t, "SUCCEED", w)'
          /\ pc = "broken" => Told(t, "FAIL", <<"boom">>)'
          /\ pc = "closing" => Told(c, "SUCCEED", log)'
          /\ pc = "failing" => Told(c, "FAIL", log)'
      BY <1>0, <2>4, <3>1 DEF Open
    <3>4. pc = "checking" => IsStarted(t, "condition")'
      <4> SUFFICES ASSUME pc = "checking" PROVE IsStarted(t, "condition")'
        OBVIOUS
      <4>1. IsStarted(t, "condition") /\ KindOf(Top) = "condition"
        BY <1>0, <3>1 DEF Open, Shape
      <4>2. Top = stack[Len(stack)] /\ Len(stack) \in 1 .. Len(stack) /\ Len(stack) \in Nat
        BY <1>0, <1>4, TopIs
      <4>3. t = u.id => u.kind = "condition"
        <5>1. PICK j \in 1 .. Len(stack) : u.id = Id(stack[j]) /\ AtOp(stack[j])
                                           /\ u.kind = KindOf(stack[j])
          BY <1>2, UpdateIsOf
        <5>2. t = u.id => j = Len(stack)
          BY <1>0, <3>1, <4>2, <5>1, FramesDiffer
        <5> QED
          BY <4>1, <4>2, <5>1, <5>2
      <4>4. t = u.id => u.action = "START"
        <5>1. ASSUME NEW j \in 1 .. Len(stack) - 1 PROVE t # Id(stack[j])
          <6>1. j \in 1 .. Len(stack) /\ j # Len(stack)
            BY <4>2
          <6> QED
            BY <1>0, <3>1, <4>2, <6>1, FramesDiffer
        <5> QED
          BY <1>0, <1>2, <5>1 DEF Origin
      <4> QED
        BY <2>3, <4>1, <4>3, <4>4
    <3> QED
      BY <1>1, <3>2, <3>3, <3>4
  <2>8. (/\ \A i \in DOMAIN queue : queue[i].kind # "child" => ~queue[i].replay
         /\ \A i \in DOMAIN queue : queue[i].action # "SUCCEED" => ~queue[i].replay)'
    BY <1>0, <1>2 DEF Open
  <2> QED
    BY <1>3, <2>6, <2>7, <2>8 DEF Open, Recorded
<1> QED
  BY <1>6, <1>7, <1>8, <1>9, <1>10 DEF Inv

-----------------------------------------------------------------------------
\* An update is put in the queue.

QueueSound ==
  /\ queue \in Seq(Update) /\ OpsFit /\ Acceptable /\ ChildrenRan
  /\ \A i \in DOMAIN queue : queue[i].kind # "child" => ~queue[i].replay
  /\ \A i \in DOMAIN queue : queue[i].action # "SUCCEED" => ~queue[i].replay

QueueGrows == \A i \in DOMAIN queue : i \in DOMAIN queue' /\ queue'[i] = queue[i]

\* The context whose operation encloses those of another is known to the service, or is told
\* to it before them.
LEMMA ParentIsKnown ==
  ASSUME Inv, NEW k \in 1 .. Len(stack), stack[k].parent # Root
  PROVE  LET p == stack[k].parent
         IN \/ p \in DOMAIN ops /\ ops[p].kind = "child"
            \/ \E i \in DOMAIN queue : queue[i].id = p /\ queue[i].kind = "child"
<1>0. TypeOK /\ Shape /\ Parents /\ Open
  BY DEF Inv
<1>1. PICK j \in 1 .. k - 1 : ~stack[j + 1].virtual /\ stack[k].parent = Id(stack[j])
  BY <1>0 DEF Parents
<1>2. j \in 1 .. Len(stack) - 1 /\ j \in 1 .. Len(stack)
  BY <1>0 DEF TypeOK
<1>3. PICK p : p = Id(stack[j])
  OBVIOUS
<1>4. (p \in DOMAIN ops => ops[p].kind = "child") /\ (p \in DOMAIN ops \/ Queued(p))
  BY <1>0, <1>1, <1>2, <1>3 DEF Open
<1>5. CASE p \in DOMAIN ops
  BY <1>1, <1>3, <1>4, <1>5
<1>6. CASE Queued(p)
  <2>1. PICK i \in DOMAIN queue : queue[i].id = p
    BY <1>6 DEF Queued
  <2>2. PICK m \in 1 .. Len(stack) : queue[i].id = Id(stack[m]) /\ queue[i].kind = KindOf(stack[m])
    BY UpdateIsOf
  <2>3. m = j
    BY <1>0, <1>2, <1>3, <2>1, <2>2, FramesDiffer
  <2>4. KindOf(stack[j]) \in ChildKinds /\ (stack[j + 1].virtual = (KindOf(stack[j]) = "virtual"))
    BY <1>0, <1>2, CreatorFacts DEF IsChildOf
  <2>5. KindOf(stack[j]) = "child"
    BY <1>1, <2>4 DEF ChildKinds
  <2> QED
    BY <1>1, <1>3, <2>1, <2>2, <2>3, <2>5
<1> QED
  BY <1>4, <1>5, <1>6

\* An update of an operation that runs is queued.
LEMMA PutFits ==
  ASSUME Inv, program' = program, given' = given, ops' = ops,
         NEW k \in 1 .. Len(stack), AtOp(stack[k]), NEW m \in 1 .. Len(stack),
         NEW u \in Update, queue' = Append(queue, u),
         u.id = Id(stack[k]), u.kind = KindOf(stack[k]), u.parent = stack[m].parent,
         u.action \in DOMAIN Accepted[u.kind],
         \A i \in DOMAIN queue : queue[i].id = u.id =>
           /\ queue[i].action = "START" /\ u.action # "START"
           /\ "STARTED" \in Accepted[u.kind][u.action],
         (\A i \in DOMAIN queue : queue[i].id # u.id) /\ u.id \in DOMAIN ops =>
           ops[u.id].status \in Accepted[u.kind][u.action],
         u.kind = "child" /\ u.action = "SUCCEED" => RanToEnd(u.id),
         u.replay => u.kind = "child" /\ u.action = "SUCCEED"
  PROVE  /\ QueueSound' /\ QueueGrows /\ queue' # <<>>
         /\ DOMAIN queue' = DOMAIN queue \cup {Len(queue')} /\ queue'[Len(queue')] = u
<1>0. /\ TypeOK /\ Shape /\ OpsFit /\ Acceptable /\ Open /\ ChildrenRan /\ Parents
  BY DEF Inv
<1>1. queue \in Seq(Update)
  BY <1>0 DEF TypeOK
<1>2. PICK n \in Nat : n = Len(queue)
  BY <1>1
<1>3. /\ DOMAIN queue = 1 .. n /\ DOMAIN queue' = 1 .. n + 1 /\ Len(queue') = n + 1
      /\ queue' \in Seq(Update) /\ queue'[n + 1] = u /\ queue' # <<>>
      /\ \A i \in 1 .. n : queue'[i] = queue[i]
  BY <1>1, <1>2, OneMore
<1>4. /\ QueueGrows /\ DOMAIN queue' = DOMAIN queue \cup {n + 1}
      /\ \A i \in DOMAIN queue' : i \in 1 .. n \/ i = n + 1
  BY <1>3 DEF QueueGrows
<1>5. \A q : Code(q)' = Code(q) /\ Paths' = Paths /\ (RanToEnd(q)' <=> RanToEnd(q))
  BY DEF Code, Paths, RanToEnd, Ran, Catches
<1>6. OpsFit'
  <2>1. ASSUME NEW p \in Paths, NEW l \in 1 .. Len(Code(p)), IsOp(p, l), u.id = OpId(p, l)
        PROVE  u.kind = Code(p)[l].kind
    <3>1. PICK q, j : q = stack[k].path /\ j = stack[k].line
      OBVIOUS
    <3>2. IsOp(q, j) /\ u.id = OpId(q, j)
      BY <1>0, <3>1, FrameFacts
    <3>3. p = q /\ l = j
      BY <1>0, <2>1, <3>2, OneOpPerId
    <3> QED
      BY <3>1, <3>3 DEF KindOf
  <2>2. ASSUME NEW i \in DOMAIN queue', NEW p \in Paths, NEW l \in 1 .. Len(Code(p)), IsOp(p, l),
               queue'[i].id = OpId(p, l)
        PROVE  queue'[i].kind = Code(p)[l].kind
    <3>1. CASE i = n + 1
      BY <1>3, <2>1, <2>2, <3>1
    <3>2. CASE i \in 1 .. n
      <4>1. i \in DOMAIN queue /\ queue'[i] = queue[i]
        BY <1>3, <3>2
      <4> QED
        BY <1>0, <2>2, <4>1 DEF OpsFit
    <3> QED
      BY <1>4, <3>1, <3>2
  <2> QED
    <3>1. Recorded'
      BY SameRecord
    <3>2. (\A i \in DOMAIN queue : \A p \in Paths : \A l \in 1 .. Len(Code(p)) :
            IsOp(p, l) /\ queue[i].id = OpId(p, l) => queue[i].kind = Code(p)[l].kind)'
      BY <1>5, <2>2 DEF IsOp, OpId
    <3> QED
      BY <3>1, <3>2 DEF Recorded, OpsFit
<1>7. Acceptable'
  <2>1. ASSUME NEW j \in 1 .. n
        PROVE  AcceptableAt(j)'
    <3>1. queue'[j] = queue[j] /\ j \in DOMAIN queue /\ \A i \in 1 .. j - 1 : queue'[i] = queue[i]
      BY <1>3
    <3>2. (First(j)' <=> First(j)) /\ \A i \in 1 .. j - 1 : Follows(i, j)' <=> Follows(i, j)
      BY <3>1 DEF First, Follows
    <3>3. /\ queue[j].action \in DOMAIN Accepted[queue[j].kind]
          /\ \A i \in 1 .. j - 1 : queue[i].id = queue[j].id => Follows(i, j)
      BY <1>0, <3>1 DEF Acceptable, AcceptableAt
    <3>4. First(j) /\ queue[j].id \in DOMAIN ops
            => ops[queue[j].id].status \in Accepted[queue[j].kind][queue[j].action]
      BY <1>0, <3>1 DEF Acceptable, AcceptableAt
    <3>5. queue[j].parent # Root =>
            \/ queue[j].parent \in DOMAIN ops /\ ops[queue[j].parent].kind = "child"
            \/ \E i \in 1 .. j - 1 : queue[i].id = queue[j].parent /\ queue[i].kind = "child"
      BY <1>0, <3>1 DEF Acceptable, AcceptableAt
    <3> QED
      BY <3>1, <3>2, <3>3, <3>4, <3>5 DEF AcceptableAt
  <2>2. AcceptableAt(n + 1)'
    <3>1. (n + 1) - 1 = n
      OBVIOUS
    <3>2. \A i \in 1 .. n : queue'[i].id = u.id => Follows(i, n + 1)'
      BY <1>3 DEF Follows
    <3>3. First(n + 1)' /\ u.id \in DOMAIN ops => ops[u.id].status \in Accepted[u.kind][u.action]
      BY <1>3, <3>1 DEF First
    <3>4. u.parent # Root =>
            \/ u.parent \in DOMAIN ops /\ ops[u.parent].kind = "child"
            \/ \E i \in 1 .. n : queue'[i].id = u.parent /\ queue'[i].kind = "child"
      <4>1. u.parent # Root =>
              \/ u.parent \in DOMAIN ops /\ ops[u.parent].kind = "child"
              \/ \E i \in DOMAIN queue : queue[i].id = u.parent /\ queue[i].kind = "child"
        BY ParentIsKnown
      <4> QED
        BY <1>3, <4>1
    <3> QED
      BY <1>3, <3>1, <3>2, <3>3, <3>4 DEF AcceptableAt
  <2> QED
    BY <1>4, <2>1, <2>2 DEF Acceptable
<1>8. ChildrenRan'
  <2>1. ASSUME NEW i \in DOMAIN queue', queue'[i].kind = "child", queue'[i].action = "SUCCEED"
        PROVE  RanToEnd(queue'[i].id)
    <3>1. CASE i = n + 1
      BY <1>3, <2>1, <3>1
    <3>2. CASE i \in 1 .. n
      <4>1. i \in DOMAIN queue /\ queue'[i] = queue[i]
        BY <1>3, <3>2
      <4> QED
        BY <1>0, <2>1, <4>1 DEF ChildrenRan
    <3> QED
      BY <1>4, <3>1, <3>2
  <2> QED
    BY <1>0, <1>5, <2>1 DEF ChildrenRan
<1>9. (/\ \A i \in DOMAIN queue : queue[i].kind # "child" => ~queue[i].replay
       /\ \A i \in DOMAIN queue : queue[i].action # "SUCCEED" => ~queue[i].replay)'
  <2>1. ASSUME NEW i \in DOMAIN queue', queue'[i].replay
        PROVE  queue'[i].kind = "child" /\ queue'[i].action = "SUCCEED"
    <3>1. CASE i = n + 1
      BY <1>3, <2>1, <3>1
    <3>2. CASE i \in 1 .. n
      <4>1. i \in DOMAIN queue /\ queue'[i] = queue[i]
        BY <1>3, <3>2
      <4> QED
        BY <1>0, <2>1, <4>1 DEF Open
    <3> QED
      BY <1>4, <3>1, <3>2
  <2> QED
    BY <2>1
<1>10. QueueSound'
  BY <1>3, <1>6, <1>7, <1>8, <1>9 DEF QueueSound
<1> QED
  BY <1>3, <1>4, <1>10

\* A step that queues nothing.
LEMMA NothingPut ==
  ASSUME Inv, program' = program, given \subseteq given', ops' = ops, queue' = queue
  PROVE  QueueSound' /\ QueueGrows
<1>1. /\ \A q : Code(q)' = Code(q) /\ Paths' = Paths
      /\ \A q : RanToEnd(q) => RanToEnd(q)'
  BY RanGrows DEF GivenGrows
<1>2. queue \in Seq(Update) /\ OpsFit /\ Acceptable /\ ChildrenRan /\ Open
  BY DEF Inv, TypeOK
<1>3. OpsFit'
  BY <1>1, <1>2 DEF OpsFit, IsOp, OpId
<1>4. Acceptable'
  BY <1>2 DEF Acceptable, AcceptableAt, First, Follows
<1>5. ChildrenRan'
  BY <1>1, <1>2 DEF ChildrenRan
<1> QED
  BY <1>2, <1>3, <1>4, <1>5 DEF QueueSound, QueueGrows, Open

-----------------------------------------------------------------------------
\* The operation at which the code is.

\* What the invariant says of the operation at which the code is.
LEMMA TopOp ==
  ASSUME Inv, pc \in InOperation
  PROVE  /\ Live /\ Len(stack) \in 1 .. Len(stack) /\ Len(stack) \in Nat /\ stack # <<>>
         /\ Top = stack[Len(stack)] /\ Top \in Frame /\ AtOp(Top)
         /\ IsOp(Top.path, Top.line) /\ Id(Top) = OpId(Top.path, Top.line)
         /\ Instr = Code(Top.path)[Top.line] /\ Instr.kind = KindOf(Top) /\ Instr \in Instructions
         /\ Exists(Id(Top)) <=> Id(Top) \in DOMAIN ops
         /\ Exists(Id(Top)) =>
              /\ view[Id(Top)] \in Operation /\ view[Id(Top)].kind = KindOf(Top)
              /\ ops[Id(Top)].kind = KindOf(Top)
              /\ \/ view[Id(Top)].status \in {"READY"} \cup Terminal
                 \/ view[Id(Top)].status = "STARTED" /\ KindOf(Top) \in {"condition", "child"}
                 => ops[Id(Top)] = view[Id(Top)]
         /\ pc = "check" => \A i \in DOMAIN queue : queue[i].id # Id(Top)
         /\ Top.line >= 1 /\ Top.line \in 1 .. Len(Code(Top.path)) /\ Top.path \in Paths
         /\ Ran(Top.path, Top.line - 1)
<1>0. TypeOK /\ Shape /\ Seen /\ OpsFit /\ Origin /\ FramesRan
  BY DEF Inv
<1>1. Live
  BY DEF Live, InOperation, Resting
<1>2. /\ Len(stack) \in 1 .. Len(stack) /\ Len(stack) \in Nat /\ Top = stack[Len(stack)]
      /\ stack # <<>>
  BY <1>0, <1>1, TopIs DEF Shape
<1>3. AtOp(Top)
  BY <1>0 DEF Shape
<1>4. /\ Top \in Frame /\ IsOp(Top.path, Top.line) /\ Id(Top) = OpId(Top.path, Top.line)
      /\ Top.line \in Nat /\ Top.path \in Paths
  BY <1>0, <1>2, <1>3, FrameFacts
<1>5. PICK p, l : p = Top.path /\ l = Top.line
  OBVIOUS
<1>6. p \in Paths /\ l \in 1 .. Len(Code(p)) /\ Code(p)[l] \in Instructions /\ l >= 1
  BY <1>0, <1>4, <1>5, CodeFacts DEF IsOp
<1>7. Instr = Code(p)[l] /\ KindOf(Top) = Code(p)[l].kind
  BY <1>5 DEF Instr, Body, Code, KindOf
<1>8. Exists(Id(Top)) <=> Id(Top) \in DOMAIN ops
  BY <1>0, <1>1 DEF Seen, Exists
<1>9. ASSUME Exists(Id(Top))
      PROVE  /\ view[Id(Top)] \in Operation /\ view[Id(Top)].kind = KindOf(Top)
             /\ ops[Id(Top)].kind = KindOf(Top)
             /\ \/ view[Id(Top)].status \in {"READY"} \cup Terminal
                \/ view[Id(Top)].status = "STARTED" /\ KindOf(Top) \in {"condition", "child"}
                => ops[Id(Top)] = view[Id(Top)]
  <2>1. PICK id : id = Id(Top)
    OBVIOUS
  <2>2. id \in DOMAIN ops /\ id \in DOMAIN view /\ view[id] \in Operation
    BY <1>0, <1>8, <1>9, <2>1 DEF Exists, TypeOK
  <2>3. ops[id].kind = Code(p)[l].kind
    BY <1>0, <1>4, <1>5, <1>6, <2>1, <2>2 DEF OpsFit
  <2>4. view[id].kind = ops[id].kind
    BY <1>0, <1>1, <2>2 DEF Seen
  <2>5. \/ view[id] = ops[id]
        \/ /\ view[id].kind \in {"wait", "invoke", "callback"} /\ view[id].status = "STARTED"
        \/ view[id].kind = "condition" /\ view[id].status = "PENDING"
    BY <1>0, <1>1, <2>2 DEF Seen
  <2> QED
    BY <1>7, <2>1, <2>2, <2>3, <2>4, <2>5 DEF Terminal, Failed
<1>10. ASSUME pc = "check", NEW i \in DOMAIN queue PROVE queue[i].id # Id(Top)
  <2>1. PICK k \in 1 .. Len(stack) - 1 : queue[i].id = Id(stack[k])
    BY <1>0, <1>10 DEF Origin, Verdict
  <2>2. k \in 1 .. Len(stack) /\ k # Len(stack)
    BY <1>2
  <2> QED
    BY <1>0, <1>2, <2>1, <2>2, FramesDiffer
<1>11. Ran(Top.path, Top.line - 1)
  <2>1. Done(Len(stack)) = Top.line - 1 /\ pc \notin {"raising", "failing"}
    BY <1>2 DEF Done, InOperation
  <2> QED
    BY <1>0, <1>2, <2>1 DEF FramesRan
<1> QED
  BY <1>1, <1>2, <1>3, <1>4, <1>5, <1>6, <1>7, <1>8, <1>9, <1>10, <1>11

-----------------------------------------------------------------------------
\* The code goes on within an operation.

\* The update that was queued is one of an operation that runs.
LEMMA OriginGrows ==
  ASSUME Inv, stack' = stack, pc \notin {"closing", "failing"},
         pc \in {"starting", "checking"} \cup Verdict => pc' \in Verdict,
         NEW n, NEW u, DOMAIN queue' = DOMAIN queue \cup {n}, queue'[n] = u, QueueGrows,
         \/ \E k \in 1 .. Len(stack) - 1 :
              /\ u.id = Id(stack[k])
              /\ u.action = "START" \/ (k = Len(stack) - 1 /\ pc' \in {"closing", "failing"})
         \/ /\ pc' \in {"starting", "checking"} \cup Verdict /\ u.id = Id(Top)
            /\ pc' \in {"starting", "checking"} => u.action = "START"
  PROVE  Origin'
<1>1. /\ \A k : Id(stack[k])' = Id(stack[k])
      /\ Id(Top)' = Id(Top) /\ Len(stack') = Len(stack)
  BY DEF Id, Top
<1>2. ASSUME NEW i \in DOMAIN queue'
      PROVE  (\/ \E k \in 1 .. Len(stack) - 1 :
                   /\ queue[i].id = Id(stack[k])
                   /\ \/ queue[i].action = "START"
                      \/ k = Len(stack) - 1 /\ pc \in {"closing", "failing"}
              \/ /\ pc \in {"starting", "checking"} \cup Verdict /\ queue[i].id = Id(Top)
                 /\ pc \in {"starting", "checking"} => queue[i].action = "START")'
  <2>1. CASE i = n
    BY <1>1, <2>1
  <2>2. CASE i \in DOMAIN queue
    <3>1. queue'[i] = queue[i]
      BY <2>2 DEF QueueGrows
    <3>2. CASE \E k \in 1 .. Len(stack) - 1 :
                 queue[i].id = Id(stack[k]) /\ queue[i].action = "START"
      BY <1>1, <3>1, <3>2
    <3>3. CASE pc \in {"starting", "checking"} \cup Verdict /\ queue[i].id = Id(Top)
      BY <1>1, <3>1, <3>3 DEF Verdict
    <3> QED
      BY <2>2, <3>2, <3>3 DEF Inv, Origin
  <2> QED
    BY <2>1, <2>2
<1> QED
  BY <1>2 DEF Origin

\* A step within an operation: all the contexts stay where they are.
LEMMA InPlace ==
  ASSUME Inv, program' = program, given' = given, ops' = ops, view' = view,
         stack' = stack, taken' \in [attempt : Nat, payload : Payloads], Live,
         pc' \in InOperation \cup {"run", "raising", "closing", "failing"},
         pc \notin {"closing", "failing"}, pc \in InOperation <=> pc' \in InOperation,
         pc = "raising" <=> pc' \in {"raising", "failing"},
         QueueGrows, QueueSound', Origin',
         pc' \in {"checking", "met", "unmet", "broken"} => KindOf(Top) = "condition",
         pc' \in {"closing", "failing"} => Len(stack) > 1 /\ ~Top.virtual /\ ~Top.again,
         pc' = "closing" => Top.line = Len(Code(Top.path)),
         NEW top, NEW creator, top = Id(Top), creator = Id(Creator),
         pc' = "checking" => IsStarted(top, "condition")',
         pc' = "met" => Told(top, "SUCCEED", taken.payload)',
         pc' = "broken" => Told(top, "FAIL", <<"boom">>)',
         pc' = "closing" => Told(creator, "SUCCEED", Top.log)',
         pc' = "failing" => Told(creator, "FAIL", Top.log)'
  PROVE  Inv'
<1>0. /\ TypeOK /\ Shape /\ Parents /\ OpsFit /\ Seen /\ Open /\ ChildrenRan /\ GivenInOrder
      /\ Agree /\ SomeLogs /\ FramesRan
  BY DEF Inv
<1>1. OpsGrow /\ Recorded'
  BY SameRecord
<1>2. GivenInOrder' /\ Agree' /\ \A L \in LogFunctions : GivenFits(L) => GivenFits(L)'
  BY <1>0, <1>1, NothingGiven
<1>3. /\ \A q : Code(q)' = Code(q) /\ Paths' = Paths /\ (RanToEnd(q)' <=> RanToEnd(q))
      /\ \A q, n : (Ran(q, n)' <=> Ran(q, n)) /\ (Raises(q, n)' <=> Raises(q, n))
  BY DEF Code, Paths, RanToEnd, Ran, Raises, Catches
<1>4. /\ Top' = Top /\ Creator' = Creator /\ (\A k : Id(stack[k])' = Id(stack[k]))
      /\ Id(Top)' = Id(Top) /\ Id(Creator)' = Id(Creator) /\ Len(stack') = Len(stack)
  BY DEF Top, Creator, Id
<1>5. Live'
  BY DEF Live, Resting, InOperation
<1>6. TypeOK'
  BY <1>0, <1>1 DEF TypeOK, Recorded, QueueSound
<1>7. Shape' /\ Parents'
  <2>1. /\ pc' \in InOperation => AtOp(Top)'
        /\ pc' \in {"checking", "met", "unmet", "broken"} => (KindOf(Top) = "condition")'
        /\ pc' = "closing" => (Top.line = Len(Code(Top.path)))'
    BY <1>0, <1>3, <1>4 DEF Shape, AtOp, KindOf
  <2>2. Parents'
    BY <1>0 DEF Parents, Id
  <2>3. /\ (\A k \in 1 .. Len(stack) : FrameIsIn(stack[k]) /\ Len(stack[k].path) = k - 1)'
        /\ (\A k \in 1 .. Len(stack) - 1 : IsChildOf(stack[k + 1], stack[k]))'
    BY <1>0, <1>3 DEF Shape, FrameIsIn, IsChildOf, AtOp, KindOf, Id
  <2> QED
    BY <1>0, <1>4, <1>5, <2>1, <2>2, <2>3 DEF Shape
<1>8. Seen'
  BY <1>0 DEF Seen
<1>9. Open'
  <2>1. \A x : Queued(x) => Queued(x)'
    BY DEF Queued, QueueGrows
  <2>2. \A x : IsStarted(x, "child") => IsStarted(x, "child")'
    BY <2>1 DEF IsStarted
  <2>3. ASSUME NEW k \in 1 .. Len(stack) - 1, ~stack[k + 1].virtual
        PROVE  /\ ChildIsOpen(k)'
               /\ Id(stack[k]) \in DOMAIN ops => ops[Id(stack[k])].kind = "child"
               /\ Id(stack[k]) \in DOMAIN ops \/ Queued(Id(stack[k]))'
    <3>1. PICK c, f : c = Id(stack[k]) /\ f = stack[k + 1]
      OBVIOUS
    <3>2. c = Id(stack[k])' /\ f = stack'[k + 1]
      BY <1>4, <3>1
    <3>3. /\ ChildIsOpen(k)
          /\ c \in DOMAIN ops => ops[c].kind = "child"
          /\ c \in DOMAIN ops \/ Queued(c)
      BY <1>0, <2>3, <3>1 DEF Open
    <3>4. ChildIsOpen(k)'
      <4>1. CASE f.again
        BY <3>1, <3>2, <3>3, <4>1 DEF ChildIsOpen
      <4>2. CASE ~f.again
        <5>1. IsStarted(c, "child")
          BY <3>1, <3>3, <4>2 DEF ChildIsOpen
        <5>2. IsStarted(c, "child")'
          BY <2>2, <5>1
        <5> QED
          BY <3>2, <4>2, <5>2 DEF ChildIsOpen
      <4> QED
        BY <4>1, <4>2
    <3>5. c \in DOMAIN ops \/ Queued(c)'
      BY <2>1, <3>3
    <3>6. Id(stack[k]) \in DOMAIN ops \/ Queued(Id(stack[k]))'
      BY <3>1, <3>2, <3>5
    <3> QED
      BY <3>1, <3>3, <3>4, <3>6
  <2>4. (\A k \in 1 .. Len(stack) - 1 : ~stack[k + 1].virtual =>
          /\ ChildIsOpen(k)
          /\ Id(stack[k]) \in DOMAIN ops => ops[Id(stack[k])].kind = "child"
          /\ Id(stack[k]) \in DOMAIN ops \/ Queued(Id(stack[k])))'
    BY <1>4, <2>3
  <2>5. (/\ pc = "checking" => IsStarted(Id(Top), "condition")
         /\ pc = "met" => Told(Id(Top), "SUCCEED", taken.payload)
         /\ pc = "broken" => Told(Id(Top), "FAIL", <<"boom">>)
         /\ pc = "closing" => Told(Id(Creator), "SUCCEED", Top.log)
         /\ pc = "failing" => Told(Id(Creator), "FAIL", Top.log))'
    <3>1. top = Id(Top)' /\ creator = Id(Creator)'
      BY <1>4
    <3> QED
      BY <3>1
  <2> QED
    BY <1>1, <2>4, <2>5 DEF Open, Recorded, QueueSound
<1>10. FramesRan'
  BY <1>0, <1>3 DEF FramesRan, Done
<1>11. SomeLogs'
  <2>1. PICK L \in LogFunctions : GivenFits(L) /\ FramesFit(L)
    BY <1>0 DEF SomeLogs
  <2>2. FramesFit(L)'
    BY <2>1 DEF FramesFit, Done
  <2> QED
    BY <1>2, <2>1, <2>2 DEF SomeLogs
<1> QED
  BY <1>2, <1>6, <1>7, <1>8, <1>9, <1>10, <1>11 DEF Inv, QueueSound

\* A synchronous START has returned.
LEMMA StartedKeeps ==
  ASSUME Inv, Started
  PROVE  Inv'
<1>1. /\ program' = program /\ given' = given /\ ops' = ops /\ view' = view /\ stack' = stack
      /\ taken' = taken /\ pc = "starting" /\ pc' = "check" /\ queue = <<>> /\ queue' = <<>>
  BY DEF Started, pipe, history
<1>2. QueueSound' /\ QueueGrows
  BY <1>1, NothingPut
<1>3. Origin'
  BY <1>1 DEF Origin
<1>4. /\ Live /\ pc \in InOperation /\ pc' \in InOperation
      /\ taken' \in [attempt : Nat, payload : Payloads]
  BY <1>1 DEF Live, Resting, InOperation, Inv, TypeOK
<1>5. PICK top, creator : top = Id(Top) /\ creator = Id(Creator)
  OBVIOUS
<1> QED
  BY <1>1, <1>2, <1>3, <1>4, <1>5, InPlace

\* An operation without a checkpoint is STARTed.
LEMMA StartAndCheckKeeps ==
  ASSUME Inv, NEW kind \in {"wait", "invoke", "callback"}, At(kind), Absent,
         StartAndCheck(kind)
  PROVE  Inv'
<1>0. TypeOK /\ Shape
  BY DEF Inv
<1>1. /\ program' = program /\ given' = given /\ ops' = ops /\ view' = view /\ stack' = stack
      /\ taken' = taken /\ pc = "check" /\ pc' = "starting" /\ Instr.kind = kind
  BY DEF StartAndCheck, At, history
<1>2. pc \in InOperation /\ pc' \in InOperation
  BY <1>1 DEF InOperation
<1>3. /\ Live /\ Len(stack) \in 1 .. Len(stack) /\ Top = stack[Len(stack)] /\ Top \in Frame
      /\ AtOp(Top) /\ KindOf(Top) = kind /\ Id(Top) \notin DOMAIN ops
      /\ \A i \in DOMAIN queue : queue[i].id # Id(Top)
  BY <1>1, <1>2, TopOp DEF Absent
<1>4. PICK u : u = [id |-> Top.path \o <<Top.at>>, kind |-> kind, parent |-> Top.parent,
                    action |-> "START", payload |-> None, replay |-> FALSE]
  OBVIOUS
<1>5. /\ u.id = Id(Top) /\ u.kind = kind /\ u.parent = Top.parent /\ u.action = "START"
      /\ u.replay = FALSE /\ queue' = Append(queue, u)
  BY <1>4 DEF StartAndCheck, Put, Id
<1>6. u \in Update
  <2>1. Id(Top) \in Seq(Nat)
    BY <1>0, <1>3, FrameFacts
  <2>2. Top.path \o <<Top.at>> \in Seq(Nat)
    BY <2>1 DEF Id
  <2>3. Top.parent \in Seq(Nat)
    BY <1>3 DEF Frame
  <2> QED
    BY <1>4, <2>2, <2>3, PayloadsClosed DEF Update, OpKinds
<1>7. "START" \in DOMAIN Accepted[kind]
  BY DEF Accepted
<1>8. /\ QueueSound' /\ QueueGrows /\ DOMAIN queue' = DOMAIN queue \cup {Len(queue')}
      /\ queue'[Len(queue')] = u
  BY <1>1, <1>3, <1>5, <1>6, <1>7, PutFits
<1>9. Origin'
  BY <1>1, <1>5, <1>8, OriginGrows DEF Verdict
<1>10. taken' \in [attempt : Nat, payload : Payloads]
  BY <1>0, <1>1 DEF TypeOK
<1>11. PICK top, creator : top = Id(Top) /\ creator = Id(Creator)
  OBVIOUS
<1> QED
  BY <1>1, <1>2, <1>3, <1>8, <1>9, <1>10, <1>11, InPlace

\* wait_for_condition takes its state from the checkpoint.
LEMMA BeginCheckKeeps ==
  ASSUME Inv, BeginCheck
  PROVE  Inv'
<1>0. TypeOK /\ Shape /\ Seen /\ Origin
  BY DEF Inv
<1>1. /\ program' = program /\ given' = given /\ ops' = ops /\ view' = view /\ stack' = stack
      /\ pc = "check" /\ pc' = "checking" /\ Instr.kind = "condition"
      /\ Status \in {"absent", "READY", "STARTED"}
  BY DEF BeginCheck, At, history
<1>2. pc \in InOperation /\ pc' \in InOperation
  BY <1>1 DEF InOperation
<1>3. /\ Live /\ Len(stack) \in 1 .. Len(stack) /\ Top = stack[Len(stack)] /\ Top \in Frame
      /\ AtOp(Top) /\ KindOf(Top) = "condition" /\ (Absent <=> Id(Top) \notin DOMAIN ops)
      /\ \A i \in DOMAIN queue : queue[i].id # Id(Top)
  BY <1>1, <1>2, TopOp DEF Absent
<1>4. ~Absent => /\ view[Id(Top)] \in Operation /\ ops[Id(Top)].kind = "condition"
                 /\ Status = view[Id(Top)].status /\ ops[Id(Top)].status = Status
  <2> SUFFICES ASSUME ~Absent
      PROVE  /\ view[Id(Top)] \in Operation /\ ops[Id(Top)].kind = "condition"
             /\ Status = view[Id(Top)].status /\ ops[Id(Top)].status = Status
    OBVIOUS
  <2>1. Exists(Id(Top)) /\ Status = view[Id(Top)].status
    BY DEF Absent, Status
  <2>2. /\ view[Id(Top)] \in Operation /\ ops[Id(Top)].kind = "condition"
        /\ \/ view[Id(Top)].status \in {"READY"} \cup Terminal
           \/ view[Id(Top)].status = "STARTED" /\ KindOf(Top) \in {"condition", "child"}
           => ops[Id(Top)] = view[Id(Top)]
    BY <1>2, <1>3, <2>1, TopOp
  <2>3. Status \in Statuses
    BY <2>1, <2>2 DEF Operation
  <2>4. Status \in {"READY", "STARTED"}
    BY <1>1, <2>3 DEF Statuses, Terminal, Failed
  <2> QED
    BY <1>3, <2>1, <2>2, <2>4
<1>5. taken' \in [attempt : Nat, payload : Payloads]
  <2>1. CASE Absent
    BY <2>1, PayloadsClosed DEF BeginCheck
  <2>2. CASE ~Absent
    <3>1. PICK o : o = view[Id(Top)]
      OBVIOUS
    <3>2. o.attempt \in Nat /\ o.payload \in Payloads
      BY <1>4, <2>2, <3>1 DEF Operation
    <3> QED
      BY <2>2, <3>1, <3>2 DEF BeginCheck, Payload
  <2> QED
    BY <2>1, <2>2
<1>6. PICK top, creator : top = Id(Top) /\ creator = Id(Creator)
  OBVIOUS
<1>7. CASE Status = "STARTED"
  <2>1. queue' = queue
    BY <1>7 DEF BeginCheck
  <2>2. QueueSound' /\ QueueGrows
    BY <1>1, <2>1, NothingPut
  <2>3. Origin'
    <3>1. Id(Top)' = Id(Top) /\ (\A k : Id(stack[k])' = Id(stack[k])) /\ Len(stack') = Len(stack)
      BY <1>1 DEF Id, Top
    <3>2. \A i \in DOMAIN queue : \E k \in 1 .. Len(stack) - 1 :
            queue[i].id = Id(stack[k]) /\ queue[i].action = "START"
      BY <1>0, <1>1, <1>3 DEF Origin
    <3> QED
      BY <2>1, <3>1, <3>2 DEF Origin
  <2>4. ~Absent
    BY <1>7 DEF Status
  <2>5. IsStarted(top, "condition")'
    BY <1>1, <1>3, <1>4, <1>6, <1>7, <2>4 DEF IsStarted
  <2> QED
    BY <1>1, <1>2, <1>3, <1>5, <1>6, <2>2, <2>3, <2>5, InPlace
<1>8. CASE Status # "STARTED"
  <2>1. PICK u : u = [id |-> Top.path \o <<Top.at>>, kind |-> "condition",
                      parent |-> Top.parent, action |-> "START", payload |-> None,
                      replay |-> FALSE]
    OBVIOUS
  <2>2. /\ u.id = Id(Top) /\ u.kind = "condition" /\ u.parent = Top.parent /\ u.action = "START"
        /\ u.replay = FALSE /\ queue' = Append(queue, u)
    BY <1>8, <2>1 DEF BeginCheck, Put, Id
  <2>3. u \in Update
    <3>1. Id(Top) \in Seq(Nat)
      BY <1>0, <1>3, FrameFacts
    <3>2. Top.path \o <<Top.at>> \in Seq(Nat)
      BY <3>1 DEF Id
    <3>3. Top.parent \in Seq(Nat)
      BY <1>3 DEF Frame
    <3> QED
      BY <2>1, <3>2, <3>3, PayloadsClosed DEF Update, OpKinds
  <2>4. "START" \in DOMAIN Accepted["condition"] /\ "READY" \in Accepted["condition"]["START"]
    BY DEF Accepted
  <2>5. Id(Top) \in DOMAIN ops => ops[Id(Top)].status \in Accepted["condition"]["START"]
    <3>1. ~Absent => Status \in Statuses
      BY <1>4 DEF Operation
    <3>2. ~Absent => Status = "READY"
      BY <1>1, <1>8, <3>1 DEF Statuses, Terminal, Failed
    <3> QED
      BY <1>3, <1>4, <2>4, <3>2
  <2>6. /\ QueueSound' /\ QueueGrows /\ DOMAIN queue' = DOMAIN queue \cup {Len(queue')}
        /\ queue'[Len(queue')] = u
    BY <1>1, <1>3, <2>2, <2>3, <2>4, <2>5, PutFits
  <2>7. Origin'
    BY <1>1, <2>2, <2>6, OriginGrows DEF Verdict
  <2>8. IsStarted(top, "condition")'
    BY <1>6, <2>2, <2>6 DEF IsStarted, Queued
  <2> QED
    BY <1>1, <1>2, <1>3, <1>5, <1>6, <2>6, <2>7, <2>8, InPlace
<1> QED
  BY <1>7, <1>8

\* wait_for_condition calls the check and queues what it decides.
LEMMA CheckKeeps ==
  ASSUME Inv, Check
  PROVE  Inv'
<1>0. TypeOK /\ Shape /\ Origin /\ Open
  BY DEF Inv
<1>1. /\ program' = program /\ given' = given /\ ops' = ops /\ view' = view /\ stack' = stack
      /\ pc = "checking" /\ taken' = [taken EXCEPT !.payload = Append(Polled, "s")]
  BY DEF Check
<1>2. pc \in InOperation
  BY <1>1 DEF InOperation
<1>3. /\ Live /\ Len(stack) \in 1 .. Len(stack) /\ Len(stack) \in Nat
      /\ Top = stack[Len(stack)] /\ Top \in Frame
      /\ AtOp(Top) /\ KindOf(Top) = "condition"
  BY <1>0, <1>1, <1>2, TopOp DEF Shape
<1>4. PICK state : state = Append(Polled, "s")
  OBVIOUS
<1>5. state \in Payloads /\ taken' \in [attempt : Nat, payload : Payloads] /\ taken'.payload = state
  <2>1. Polled \in Payloads
    BY <1>0, PayloadsClosed DEF Polled, TypeOK
  <2>2. state \in Payloads
    BY <1>4, <2>1, PayloadsClosed
  <2> QED
    BY <1>0, <1>1, <1>4, <2>2 DEF TypeOK
<1>6. PICK action \in {"SUCCEED", "RETRY", "FAIL"}, payload \in Payloads :
        /\ Put(action, Top, "condition", payload, FALSE)
        /\ \/ action = "SUCCEED" /\ payload = state /\ pc' = "met"
           \/ action = "RETRY" /\ pc' = "unmet"
           \/ action = "FAIL" /\ payload = <<"boom">> /\ pc' = "broken"
  BY <1>4, <1>5, PayloadsClosed DEF Check
<1>7. PICK u : u = [id |-> Top.path \o <<Top.at>>, kind |-> "condition", parent |-> Top.parent,
                    action |-> action, payload |-> payload, replay |-> FALSE]
  OBVIOUS
<1>8. /\ u.id = Id(Top) /\ u.kind = "condition" /\ u.parent = Top.parent /\ u.action = action
      /\ u.payload = payload /\ u.replay = FALSE /\ queue' = Append(queue, u)
  BY <1>6, <1>7 DEF Put, Id
<1>9. u \in Update
  <2>1. Id(Top) \in Seq(Nat)
    BY <1>0, <1>3, FrameFacts
  <2>2. Top.path \o <<Top.at>> \in Seq(Nat)
    BY <2>1 DEF Id
  <2>3. Top.parent \in Seq(Nat)
    BY <1>3 DEF Frame
  <2> QED
    BY <1>7, <2>2, <2>3 DEF Update, OpKinds
<1>10. action \in DOMAIN Accepted["condition"] /\ "STARTED" \in Accepted["condition"][action]
       /\ action # "START"
  BY DEF Accepted
<1>11. ASSUME NEW i \in DOMAIN queue, queue[i].id = Id(Top) PROVE queue[i].action = "START"
  <2>1. \A k \in 1 .. Len(stack) - 1 : queue[i].id # Id(stack[k])
    <3> TAKE k \in 1 .. Len(stack) - 1
    <3>1. k \in 1 .. Len(stack) /\ k # Len(stack)
      BY <1>3
    <3> QED
      BY <1>0, <1>3, <1>11, <3>1, FramesDiffer
  <2> QED
    BY <1>0, <1>1, <2>1 DEF Origin
<1>12. (\A i \in DOMAIN queue : queue[i].id # Id(Top)) /\ Id(Top) \in DOMAIN ops
         => ops[Id(Top)].status = "STARTED"
  <2>1. IsStarted(Id(Top), "condition")
    BY <1>0, <1>1 DEF Open
  <2> QED
    BY <2>1 DEF IsStarted, Queued
<1>13. /\ QueueSound' /\ QueueGrows /\ DOMAIN queue' = DOMAIN queue \cup {Len(queue')}
       /\ queue'[Len(queue')] = u /\ queue' # <<>>
  BY <1>1, <1>3, <1>8, <1>9, <1>10, <1>11, <1>12, PutFits
<1>14. pc' \in {"met", "unmet", "broken"} /\ pc' \in Verdict /\ pc' \in InOperation
  BY <1>6 DEF Verdict, InOperation
<1>15. Origin'
  BY <1>1, <1>8, <1>13, <1>14, OriginGrows
<1>16. PICK top, creator : top = Id(Top) /\ creator = Id(Creator)
  OBVIOUS
<1>17. /\ pc' = "met" => Told(top, "SUCCEED", taken.payload)'
       /\ pc' = "broken" => Told(top, "FAIL", <<"boom">>)'
  BY <1>5, <1>6, <1>8, <1>13, <1>16 DEF Told
<1> QED
  BY <1>1, <1>2, <1>3, <1>5, <1>13, <1>14, <1>15, <1>16, <1>17, InPlace

\* A child context whose code runs, and that is to report its outcome.
LEMMA RunningChild ==
  ASSUME Inv, Len(stack) > 1, pc \in {"run", "raising"}
  PROVE  /\ Live /\ Len(stack) \in 1 .. Len(stack) /\ Top = stack[Len(stack)] /\ Top \in Frame
         /\ Len(stack) - 1 \in 1 .. Len(stack) - 1 /\ Len(stack) - 1 \in 1 .. Len(stack)
         /\ Creator = stack[Len(stack) - 1] /\ Creator \in Frame
         /\ Creator.line \in 1 .. Len(Code(Creator.path)) /\ Creator.path \in Paths
         /\ AtOp(Creator) /\ KindOf(Creator) \in ChildKinds /\ Id(Creator) = Top.path
         /\ Top.virtual <=> KindOf(Creator) = "virtual"
         /\ \A i \in DOMAIN queue : queue[i].id = Id(Creator) => queue[i].action = "START"
         /\ ~Top.virtual /\ ~Top.again => IsStarted(Id(Creator), "child")
<1>0. TypeOK /\ Shape /\ Origin /\ Open
  BY DEF Inv
<1>1. Live
  BY DEF Live, Resting
<1>2. /\ Len(stack) \in 1 .. Len(stack) /\ Len(stack) \in Nat /\ Top = stack[Len(stack)]
      /\ Len(stack) - 1 \in 1 .. Len(stack) /\ Creator = stack[Len(stack) - 1]
  BY <1>0, <1>1, TopIs
<1>3. PICK k : k = Len(stack) - 1
  OBVIOUS
<1>4. k \in 1 .. Len(stack) - 1 /\ k + 1 = Len(stack) /\ k \in 1 .. Len(stack)
  BY <1>2, <1>3
<1>5. /\ IsChildOf(Top, Creator) /\ Creator.line \in 1 .. Len(Code(Creator.path))
      /\ Creator \in Frame /\ Top \in Frame /\ Creator.path \in Paths
  BY <1>0, <1>2, <1>3, <1>4, CreatorFacts, FrameFacts
<1>6. /\ AtOp(Creator) /\ KindOf(Creator) \in ChildKinds /\ Id(Creator) = Top.path
      /\ Top.virtual <=> KindOf(Creator) = "virtual"
  BY <1>5 DEF IsChildOf
<1>7. \A i \in DOMAIN queue : queue[i].id = Id(Creator) => queue[i].action = "START"
  BY <1>0 DEF Origin, Verdict
<1>8. ~Top.virtual /\ ~Top.again => IsStarted(Id(Creator), "child")
  <2> SUFFICES ASSUME ~Top.virtual, ~Top.again PROVE IsStarted(Id(Creator), "child")
    OBVIOUS
  <2>1. ChildIsOpen(k)
    BY <1>0, <1>2, <1>4 DEF Open
  <2> QED
    BY <1>2, <1>3, <1>4, <2>1 DEF ChildIsOpen
<1> QED
  BY <1>1, <1>2, <1>3, <1>4, <1>5, <1>6, <1>7, <1>8

\* Its update.
LEMMA ChildReports ==
  ASSUME Inv, Len(stack) > 1, pc \in {"run", "raising"},
         ~Top.virtual, ~Top.again, program' = program, given' = given, ops' = ops, view' = view,
         stack' = stack, taken' = taken,
         NEW action \in {"SUCCEED", "FAIL"}, NEW payload \in Payloads, NEW replay \in BOOLEAN,
         Put(action, Creator, "child", payload, replay),
         \/ /\ action = "SUCCEED" /\ pc = "run" /\ pc' = "closing"
            /\ Top.line = Len(Code(Top.path)) /\ (replay \/ payload = Top.log)
         \/ action = "FAIL" /\ pc = "raising" /\ pc' = "failing" /\ payload = Top.log /\ ~replay
  PROVE  Inv'
<1>0. TypeOK /\ Shape /\ FramesRan
  BY DEF Inv
<1>1. /\ Live /\ Len(stack) \in 1 .. Len(stack) /\ Top = stack[Len(stack)] /\ Top \in Frame
      /\ Len(stack) - 1 \in 1 .. Len(stack) - 1 /\ Len(stack) - 1 \in 1 .. Len(stack)
      /\ Creator = stack[Len(stack) - 1] /\ Creator \in Frame
      /\ AtOp(Creator) /\ KindOf(Creator) = "child" /\ Id(Creator) = Top.path
      /\ \A i \in DOMAIN queue : queue[i].id = Id(Creator) => queue[i].action = "START"
      /\ IsStarted(Id(Creator), "child")
  BY RunningChild DEF ChildKinds
<1>2. PICK u : u = [id |-> Creator.path \o <<Creator.at>>, kind |-> "child",
                    parent |-> Creator.parent, action |-> action, payload |-> payload,
                    replay |-> replay]
  OBVIOUS
<1>3. /\ u.id = Id(Creator) /\ u.kind = "child" /\ u.parent = Creator.parent
      /\ u.action = action /\ u.payload = payload /\ u.replay = replay
      /\ queue' = Append(queue, u)
  BY <1>2 DEF Put, Id
<1>4. u \in Update
  <2>1. Id(Creator) \in Seq(Nat)
    BY <1>0, <1>1, FrameFacts
  <2>2. Creator.path \o <<Creator.at>> \in Seq(Nat)
    BY <2>1 DEF Id
  <2>3. Creator.parent \in Seq(Nat)
    BY <1>1 DEF Frame
  <2> QED
    BY <1>2, <2>2, <2>3 DEF Update, OpKinds
<1>5. action \in DOMAIN Accepted["child"] /\ "STARTED" \in Accepted["child"][action]
      /\ action # "START"
  BY DEF Accepted
<1>6. (\A i \in DOMAIN queue : queue[i].id # Id(Creator)) /\ Id(Creator) \in DOMAIN ops
        => ops[Id(Creator)].status = "STARTED"
  BY <1>1 DEF IsStarted, Queued
<1>7. action = "SUCCEED" => RanToEnd(Id(Creator))
  <2> SUFFICES ASSUME action = "SUCCEED" PROVE RanToEnd(Id(Creator))
    OBVIOUS
  <2>1. Done(Len(stack)) = Top.line
    BY <1>1 DEF Done, InOperation
  <2>2. Ran(Top.path, Top.line)
    BY <1>0, <1>1, <2>1 DEF FramesRan
  <2>3. Top.path \in Paths
    BY <1>0, <1>1, FrameFacts
  <2> QED
    BY <1>1, <2>2, <2>3 DEF RanToEnd
<1>8. /\ QueueSound' /\ QueueGrows /\ DOMAIN queue' = DOMAIN queue \cup {Len(queue')}
      /\ queue'[Len(queue')] = u /\ queue' # <<>>
  BY <1>1, <1>3, <1>4, <1>5, <1>6, <1>7, PutFits
<1>9. Origin'
  <2>1. pc \notin {"starting", "checking"} \cup Verdict
    BY DEF Verdict
  <2>2. \E k \in 1 .. Len(stack) - 1 :
          /\ u.id = Id(stack[k])
          /\ u.action = "START" \/ (k = Len(stack) - 1 /\ pc' \in {"closing", "failing"})
    BY <1>1, <1>3
  <2>3. PICK n : n = Len(queue')
    OBVIOUS
  <2>4. DOMAIN queue' = DOMAIN queue \cup {n} /\ queue'[n] = u /\ QueueGrows
    BY <1>8, <2>3
  <2> QED
    BY <2>1, <2>2, <2>4, OriginGrows
<1>10. pc \notin InOperation /\ pc' \notin InOperation
  BY DEF InOperation
<1>11. PICK top, creator : top = Id(Top) /\ creator = Id(Creator)
  OBVIOUS
<1>12. Top' = Top
  BY DEF Top
<1>13. /\ pc' = "closing" => Told(creator, "SUCCEED", Top.log)'
       /\ pc' = "failing" => Told(creator, "FAIL", Top.log)'
  BY <1>3, <1>8, <1>11, <1>12 DEF Told
<1>14. taken' \in [attempt : Nat, payload : Payloads]
  BY <1>0 DEF TypeOK
<1> QED
  BY <1>1, <1>8, <1>9, <1>10, <1>11, <1>13, <1>14, InPlace

\* The code of a child context has returned, and its SUCCEED is queued.
LEMMA CloseChildKeeps ==
  ASSUME Inv, CloseChild
  PROVE  Inv'
<1>1. /\ program' = program /\ given' = given /\ ops' = ops /\ view' = view /\ stack' = stack
      /\ taken' = taken /\ pc = "run" /\ pc' = "closing" /\ Len(stack) > 1
      /\ ~Top.virtual /\ ~Top.again /\ Top.line = Len(Code(Top.path))
  BY DEF CloseChild, AtEnd, Reported, Body, Code
<1>2. PICK replay : replay = Code(Creator.path)[Creator.line].large
  OBVIOUS
<1>3. PICK payload : payload = IF replay THEN <<"summary">> ELSE Top.log
  OBVIOUS
<1>4. /\ Creator.line \in 1 .. Len(Code(Creator.path)) /\ Creator.path \in Paths /\ Top \in Frame
  BY <1>1, RunningChild
<1>5. replay \in BOOLEAN
  <2>1. Code(Creator.path)[Creator.line] \in Instructions
    BY <1>4, CodeFacts DEF Inv
  <2> QED
    BY <1>2, <2>1 DEF Instructions
<1>6. payload \in Payloads /\ (replay \/ payload = Top.log)
  BY <1>3, <1>4, <1>5, PayloadsClosed DEF Frame
<1>7. Put("SUCCEED", Creator, "child", payload, replay)
  BY <1>2, <1>3 DEF CloseChild, Body, Code
<1> QED
  BY <1>1, <1>5, <1>6, <1>7, ChildReports

\* The code of a child context has raised, and its FAIL is queued.
LEMMA FailChildKeeps ==
  ASSUME Inv, FailChild
  PROVE  Inv'
<1>0. TypeOK /\ Shape /\ FramesRan /\ ChildrenRan /\ Agree /\ Open
  BY DEF Inv
<1>1. /\ program' = program /\ given' = given /\ ops' = ops /\ view' = view /\ stack' = stack
      /\ taken' = taken /\ pc = "raising" /\ pc' = "failing" /\ Len(stack) > 1 /\ ~Top.virtual
      /\ Put("FAIL", Creator, "child", Top.log, FALSE)
  BY DEF FailChild, history
<1>2. /\ Live /\ Len(stack) \in 1 .. Len(stack) /\ Top = stack[Len(stack)] /\ Top \in Frame
      /\ Len(stack) - 1 \in 1 .. Len(stack) - 1
      /\ Creator = stack[Len(stack) - 1] /\ Id(Creator) = Top.path
  BY <1>1, RunningChild
\* The code of a child that is run again ended without an error.
<1>3. ~Top.again
  <2> SUFFICES ASSUME Top.again PROVE FALSE
    OBVIOUS
  <2>1. PICK k : k = Len(stack) - 1
    OBVIOUS
  <2>2. k \in 1 .. Len(stack) - 1 /\ k + 1 = Len(stack)
    BY <1>0, <1>2, <2>1 DEF TypeOK
  <2>3. ChildIsOpen(k)
    BY <1>0, <1>1, <1>2, <2>2 DEF Open
  <2>4. PICK c : c = Top.path
    OBVIOUS
  <2>5. c \in DOMAIN ops /\ ops[c].kind = "child" /\ ops[c].status = "SUCCEEDED"
    BY <1>2, <2>1, <2>2, <2>3, <2>4 DEF ChildIsOpen
  <2>6. RanToEnd(c)
    BY <1>0, <2>5 DEF ChildrenRan
  <2>7. Raises(c, Top.line) /\ Top.line > 0
    BY <1>0, <1>1, <1>2, <2>4 DEF FramesRan
  <2>8. PICK l, n : l = Top.line /\ n = Len(Code(c))
    OBVIOUS
  <2>9. Ran(c, n) /\ n \in Nat /\ l \in 1 .. n
    BY <1>0, <1>2, <2>4, <2>6, <2>7, <2>8, FrameFacts DEF RanToEnd, FrameIsIn
  <2> QED
    BY <1>0, <2>7, <2>8, <2>9, NoErrorBefore
<1>4. Top.log \in Payloads
  BY <1>2 DEF Frame
<1> QED
  BY <1>1, <1>3, <1>4, ChildReports

-----------------------------------------------------------------------------
\* The code comes to an operation.

\* The context at its next operation.
LEMMA BeforeFrame ==
  ASSUME NEW g \in Frame, NEW f, f = Before(g)
  PROVE  /\ f \in Frame /\ f.path = g.path /\ f.parent = g.parent /\ f.line = g.line + 1
         /\ f.at = g.at + 1 /\ f.virtual = g.virtual /\ f.again = g.again /\ f.log = g.log
<1> DEFINE next == NextId(g)
           undone == Exists(next) /\ view[next].status \notin Terminal
           isStep == Exists(next) /\ view[next].kind = "condition"
<1>1. PICK new : new = (g.new \/ ~Exists(next) \/ (isStep /\ undone))
  OBVIOUS
<1>2. PICK flip : flip = (~g.new /\ undone /\ ~isStep)
  OBVIOUS
<1>3. new \in BOOLEAN /\ flip \in BOOLEAN
  BY <1>1, <1>2 DEF Frame, Exists
<1>4. f = [g EXCEPT !.line = g.line + 1, !.at = g.at + 1, !.new = new, !.flip = flip]
  BY <1>1, <1>2 DEF Before
<1> HIDE DEF next, undone, isStep
<1>5. g.line + 1 \in Nat /\ g.at + 1 \in Nat
  BY DEF Frame
<1> QED
  BY <1>3, <1>4, <1>5 DEF Frame

\* What the stack is after it.
LEMMA CallMoves ==
  ASSUME Inv, Call, NEW n, n = Len(stack), NEW f, f = Before(Top)
  PROVE  /\ n \in 1 .. Len(stack) /\ n \in Nat /\ Top = stack[n] /\ Top \in Frame
         /\ Top.line \in Nat /\ Top.path \in Paths /\ Len(Code(Top.path)) \in Nat
         /\ f \in Frame /\ f.path = Top.path /\ f.parent = Top.parent /\ f.line = Top.line + 1
         /\ f.at = Top.at + 1 /\ f.virtual = Top.virtual /\ f.again = Top.again /\ f.log = Top.log
         /\ stack' \in Seq(Frame) /\ Len(stack') = n /\ stack'[n] = f /\ stack' # <<>>
         /\ \A k \in 1 .. n - 1 : stack'[k] = stack[k]
         /\ Moves(n, f)
<1>0. TypeOK /\ Shape
  BY DEF Inv
<1>1. /\ pc = "run" /\ stack' = Append(Below, Before(Top))
      /\ Top.line < Len(Code(Top.path)) /\ Code(Top.path)[Top.line + 1].kind # "result"
  BY DEF Call, Body, Code
<1>2. Live
  BY <1>1 DEF Live, Resting
<1>4. /\ n \in 1 .. Len(stack) /\ n \in Nat /\ Top = stack[n] /\ Top \in Frame /\ FrameIsIn(Top)
      /\ Top.line \in Nat /\ Top.path \in Paths /\ Len(Code(Top.path)) \in Nat
      /\ Top.at = Position(Code(Top.path), Top.line) /\ stack # <<>>
  BY <1>0, <1>2, TopIs, FrameFacts DEF FrameIsIn, Shape
<1>6. /\ f \in Frame /\ f.path = Top.path /\ f.parent = Top.parent /\ f.line = Top.line + 1
      /\ f.at = Top.at + 1 /\ f.virtual = Top.virtual /\ f.again = Top.again /\ f.log = Top.log
  BY <1>4, BeforeFrame
<1>7. FrameIsIn(f)
  <2>1. PICK code, l : code = Code(Top.path) /\ l = Top.line
    OBVIOUS
  <2>2. Position(code, l + 1) = Position(code, l) + 1
    BY <1>1, <1>4, <2>1, PositionStep
  <2>3. f.line \in 0 .. Len(code)
    BY <1>1, <1>4, <1>6, <2>1
  <2> QED
    BY <1>4, <1>6, <2>1, <2>2, <2>3 DEF FrameIsIn
<1>8. stack \in Seq(Frame)
  BY <1>0 DEF TypeOK
<1>9. /\ stack' \in Seq(Frame) /\ Len(stack') = n /\ stack'[n] = f /\ stack' # <<>>
      /\ \A k \in 1 .. n - 1 : stack'[k] = stack[k]
  BY <1>1, <1>4, <1>6, <1>8, ReplaceTop DEF Below
<1>10. Moves(n, f)
  BY <1>4, <1>6, <1>7, <1>9 DEF Moves
<1> QED
  BY <1>4, <1>6, <1>9, <1>10

\* The code calls an operation.
LEMMA CallKeeps ==
  ASSUME Inv, Call
  PROVE  Inv'
<1>0. /\ TypeOK /\ Shape /\ Parents /\ OpsFit /\ Seen /\ Acceptable /\ Origin /\ Open
      /\ GivenInOrder /\ FramesRan /\ ChildrenRan /\ Agree /\ SomeLogs
  BY DEF Inv
<1>1. /\ program' = program /\ given' = given /\ ops' = ops /\ view' = view /\ queue' = queue
      /\ taken' = taken /\ pc = "run" /\ pc' = "check"
      /\ stack' = Append(Below, Before(Top))
      /\ Top.line < Len(Code(Top.path)) /\ Code(Top.path)[Top.line + 1].kind # "result"
  BY DEF Call, pipe, Body, Code
<1>2. Live /\ Live' /\ pc \notin InOperation /\ pc' \in InOperation
  BY <1>1 DEF Live, Resting, InOperation
<1>3. PICK n : n = Len(stack)
  OBVIOUS
<1>4. PICK f : f = Before(Top)
  OBVIOUS
<1>5. /\ n \in 1 .. Len(stack) /\ n \in Nat /\ Top = stack[n] /\ Top \in Frame
      /\ Top.line \in Nat /\ Top.path \in Paths /\ Len(Code(Top.path)) \in Nat
      /\ f \in Frame /\ f.path = Top.path /\ f.parent = Top.parent /\ f.line = Top.line + 1
      /\ f.at = Top.at + 1 /\ f.virtual = Top.virtual /\ f.again = Top.again /\ f.log = Top.log
      /\ stack' \in Seq(Frame) /\ Len(stack') = n /\ stack'[n] = f /\ stack' # <<>>
      /\ \A k \in 1 .. n - 1 : stack'[k] = stack[k]
      /\ Moves(n, f)
  BY <1>3, <1>4, CallMoves
<1>11. Chain' /\ Parents'
  BY <1>0, <1>1, <1>2, <1>5, MovesKeep
<1>12. OpsGrow /\ Recorded' /\ QueueSound'
  BY <1>1, SameRecord, NothingPut
<1>13. GivenInOrder' /\ Agree' /\ \A L \in LogFunctions : GivenFits(L) => GivenFits(L)'
  BY <1>0, <1>1, <1>12, NothingGiven
<1>14. TypeOK'
  BY <1>0, <1>1, <1>5, <1>12 DEF TypeOK, QueueSound, Recorded, InOperation
<1>15. Top' = f
  BY <1>5 DEF Top
<1>16. Shape'
  <2>1. AtOp(Top)'
    <3>1. PICK p, l : p = Top.path /\ l = Top.line
      OBVIOUS
    <3>2. Code(p)[l + 1].kind # "result" /\ l + 1 > 0 /\ f.path = p /\ f.line = l + 1
      BY <1>1, <1>5, <3>1
    <3>3. AtOp(f)'
      BY <1>1, <3>2 DEF AtOp, Code
    <3> QED
      BY <1>15, <3>3 DEF AtOp
  <2> QED
    BY <1>1, <1>2, <1>11, <2>1 DEF Shape, Chain
<1>17. Seen'
  BY <1>0, <1>1, <1>2 DEF Seen
<1>18. \A k \in 1 .. n - 1 : Id(stack[k])' = Id(stack[k])
  BY <1>5 DEF Id
<1>19. Origin'
  <2>1. \A i \in DOMAIN queue : \E k \in 1 .. n - 1 :
          queue[i].id = Id(stack[k]) /\ queue[i].action = "START"
    BY <1>0, <1>1, <1>3 DEF Origin, Verdict
  <2> QED
    BY <1>1, <1>5, <1>18, <2>1 DEF Origin
<1>20. Open'
  <2>1. ASSUME NEW k \in 1 .. n - 1, ~stack'[k + 1].virtual
        PROVE  /\ ChildIsOpen(k)'
               /\ Id(stack[k]) \in DOMAIN ops => ops[Id(stack[k])].kind = "child"
               /\ Id(stack[k]) \in DOMAIN ops \/ Queued(Id(stack[k]))
    <3>1. PICK c, g : c = Id(stack[k]) /\ g = stack[k + 1]
      OBVIOUS
    <3>2. c = Id(stack[k])' /\ stack'[k + 1].virtual = g.virtual /\ stack'[k + 1].again = g.again
      <4>1. CASE k + 1 = n
        BY <1>5, <1>18, <3>1, <4>1
      <4>2. CASE k + 1 # n
        <5>1. k + 1 \in 1 .. n - 1
          BY <1>5, <4>2
        <5> QED
          BY <1>5, <1>18, <3>1, <5>1
      <4> QED
        BY <4>1, <4>2
    <3>3. /\ ChildIsOpen(k)
          /\ c \in DOMAIN ops => ops[c].kind = "child"
          /\ c \in DOMAIN ops \/ Queued(c)
      BY <1>0, <1>3, <2>1, <3>1, <3>2 DEF Open
    <3>4. ChildIsOpen(k)'
      <4>1. \A x : IsStarted(x, "child")' <=> IsStarted(x, "child")
        BY <1>1 DEF IsStarted, Queued
      <4> QED
        BY <1>1, <3>1, <3>2, <3>3, <4>1 DEF ChildIsOpen
    <3> QED
      BY <3>1, <3>3, <3>4
  <2>2. \A x : Queued(x)' <=> Queued(x)
    BY <1>1 DEF Queued
  <2>3. (\A k \in 1 .. Len(stack) - 1 : ~stack[k + 1].virtual =>
          /\ ChildIsOpen(k)
          /\ Id(stack[k]) \in DOMAIN ops => ops[Id(stack[k])].kind = "child"
          /\ Id(stack[k]) \in DOMAIN ops \/ Queued(Id(stack[k])))'
    <3> SUFFICES ASSUME NEW k \in 1 .. n - 1, ~stack'[k + 1].virtual
        PROVE  (/\ ChildIsOpen(k)
                /\ Id(stack[k]) \in DOMAIN ops => ops[Id(stack[k])].kind = "child"
                /\ Id(stack[k]) \in DOMAIN ops \/ Queued(Id(stack[k])))'
      BY <1>5
    <3>1. PICK c : c = Id(stack[k])
      OBVIOUS
    <3>2. c = Id(stack[k])'
      BY <1>18, <3>1
    <3>3. /\ ChildIsOpen(k)'
          /\ c \in DOMAIN ops => ops[c].kind = "child"
          /\ c \in DOMAIN ops \/ Queued(c)
      BY <2>1, <3>1
    <3> QED
      BY <1>1, <2>2, <3>2, <3>3
  <2> QED
    BY <1>1, <1>12, <2>3 DEF Open, Recorded, QueueSound
<1>21. \A k \in 1 .. n : stack'[k].path = stack[k].path /\ stack'[k].log = stack[k].log
                         /\ Done(k)' = Done(k)
  <2> TAKE k \in 1 .. n
  <2>1. CASE k = n
    <3>1. Done(k)' = f.line - 1
      BY <1>2, <1>5, <2>1 DEF Done
    <3>2. Done(k) = Top.line
      BY <1>2, <1>3, <1>5, <2>1 DEF Done
    <3>3. f.line - 1 = Top.line
      BY <1>5
    <3> QED
      BY <1>5, <2>1, <3>1, <3>2, <3>3
  <2>2. CASE k # n
    <3>1. k \in 1 .. n - 1 /\ k < n
      BY <1>5, <2>2
    <3> QED
      BY <1>3, <1>5, <3>1 DEF Done
  <2> QED
    BY <2>1, <2>2
<1>22. FramesRan'
  <2>1. \A q, m : Ran(q, m)' <=> Ran(q, m)
    BY <1>1 DEF Ran, Catches, Code
  <2>2. \A k \in 1 .. n : Ran(stack[k].path, Done(k))
    BY <1>0, <1>1, <1>3 DEF FramesRan
  <2> QED
    BY <1>1, <1>5, <1>21, <2>1, <2>2 DEF FramesRan
<1>23. SomeLogs'
  <2>1. PICK L \in LogFunctions : GivenFits(L) /\ FramesFit(L)
    BY <1>0 DEF SomeLogs
  <2>2. FramesFit(L)'
    BY <1>3, <1>5, <1>21, <2>1 DEF FramesFit
  <2> QED
    BY <1>13, <2>1, <2>2 DEF SomeLogs
<1> QED
  BY <1>11, <1>12, <1>13, <1>14, <1>16, <1>17, <1>19, <1>20, <1>22, <1>23 DEF Inv, QueueSound

-----------------------------------------------------------------------------
\* The code enters a child context.

\* The code of a child context begins: for the first time, or to be replayed.
LEMMA EnterChildKeeps ==
  ASSUME Inv, EnterChild
  PROVE  Inv'
<1>0. /\ TypeOK /\ Shape /\ Parents /\ OpsFit /\ Seen /\ Acceptable /\ Origin /\ Open
      /\ GivenInOrder /\ FramesRan /\ ChildrenRan /\ Agree /\ SomeLogs
  BY DEF Inv
<1>1. /\ program' = program /\ given' = given /\ ops' = ops /\ view' = view
      /\ taken' = taken /\ pc = "check" /\ pc' = "run" /\ Instr.kind \in ChildKinds
      /\ stack' = Enter(Top)
      /\ Status \in {"absent", "STARTED"} \/ (Status = "SUCCEEDED" /\ view[Id(Top)].replay)
  BY DEF EnterChild, history
<1>2. Live /\ Live' /\ pc \in InOperation /\ pc' \notin InOperation
  BY <1>1 DEF Live, Resting, InOperation
<1>3. PICK n : n = Len(stack)
  OBVIOUS
<1>4. /\ n \in 1 .. Len(stack) /\ n \in Nat /\ Top = stack[n] /\ Top \in Frame /\ AtOp(Top)
      /\ KindOf(Top) = Instr.kind /\ Id(Top) = OpId(Top.path, Top.line)
      /\ Top.line \in 1 .. Len(Code(Top.path)) /\ Top.path \in Paths
      /\ Instr = Code(Top.path)[Top.line]
      /\ \A i \in DOMAIN queue : queue[i].id # Id(Top)
  BY <1>1, <1>2, <1>3, TopOp
<1>5. PICK id, virtual, again :
        id = Id(Top) /\ virtual = (KindOf(Top) = "virtual") /\ again = (Status = "SUCCEEDED")
  OBVIOUS
\* What is recorded of its operation.
<1>6. /\ Absent <=> id \notin DOMAIN ops
      /\ ~Absent => /\ ~virtual /\ ops[id] \in Operation /\ ops[id].kind = "child"
                    /\ Status = ops[id].status /\ ops[id] = view[id]
  <2>1. Absent <=> id \notin DOMAIN ops
    BY <1>2, <1>5, TopOp DEF Absent
  <2>2. ASSUME ~Absent
        PROVE  /\ ~virtual /\ ops[id] \in Operation /\ ops[id].kind = "child"
               /\ Status = ops[id].status /\ ops[id] = view[id]
    <3>1. Exists(id) /\ Status = view[id].status
      BY <1>5, <2>2 DEF Absent, Status
    <3>2. /\ view[id] \in Operation /\ view[id].kind = KindOf(Top)
          /\ \/ view[id].status \in {"READY"} \cup Terminal
             \/ view[id].status = "STARTED" /\ KindOf(Top) \in {"condition", "child"}
             => ops[id] = view[id]
      BY <1>2, <1>5, <3>1, TopOp
    <3>3. KindOf(Top) = "child" /\ ~virtual
      BY <1>1, <1>4, <1>5, <3>2 DEF Operation, OpKinds, ChildKinds
    <3>4. Status \in {"STARTED", "SUCCEEDED"}
      BY <1>1, <3>1, <3>2 DEF Operation, Statuses, Terminal, Failed
    <3>5. ops[id] = view[id]
      BY <3>1, <3>2, <3>3, <3>4 DEF Terminal
    <3> QED
      BY <3>1, <3>2, <3>3, <3>5
  <2> QED
    BY <2>1, <2>2
<1>7. PICK f : f = Context(id, IF virtual THEN Top.parent ELSE id, Top.new, virtual, again)
  OBVIOUS
<1>8. /\ id \in Seq(Nat) /\ Top.parent \in Seq(Nat) /\ Top.new \in BOOLEAN
      /\ virtual \in BOOLEAN /\ again \in BOOLEAN /\ id \in Paths /\ Len(id) = n
  <2>1. PICK p, l : p = Top.path /\ l = Top.line
    OBVIOUS
  <2>2. OpId(p, l) \in Paths
    BY <1>0, <1>1, <1>4, <2>1, CodeFacts
  <2>3. id \in Seq(Nat) /\ Len(id) = n
    BY <1>0, <1>4, <1>5, FrameFacts
  <2> QED
    BY <1>4, <1>5, <2>1, <2>2, <2>3 DEF Frame
<1>9. /\ f \in Frame /\ f.path = id /\ f.parent = (IF virtual THEN Top.parent ELSE id)
      /\ f.line = 0 /\ f.at = 0 /\ f.virtual = virtual /\ f.again = again /\ f.log = <<>>
  BY <1>7, <1>8, PayloadsClosed DEF Context, Frame
<1>10. stack \in Seq(Frame) /\ stack' = Append(stack, f)
  BY <1>0, <1>1, <1>4, <1>5, <1>7 DEF TypeOK, Enter
<1>11. /\ stack' \in Seq(Frame) /\ Len(stack') = n + 1 /\ stack'[n + 1] = f /\ stack' # <<>>
       /\ \A k \in 1 .. n : stack'[k] = stack[k]
  BY <1>3, <1>4, <1>9, <1>10, OneMore
<1>12. Top' = f
  BY <1>11 DEF Top
\* The queue, with the START of a context that is new.
<1>13. /\ QueueSound' /\ QueueGrows
       /\ \/ queue' = queue /\ (virtual \/ ~Absent)
          \/ /\ ~virtual /\ Absent /\ DOMAIN queue' = DOMAIN queue \cup {Len(queue')}
             /\ queue'[Len(queue')].id = id /\ queue'[Len(queue')].action = "START"
  <2>1. CASE virtual \/ ~Absent
    <3>1. queue' = queue
      BY <1>4, <1>5, <2>1 DEF EnterChild
    <3> QED
      BY <1>1, <2>1, <3>1, NothingPut
  <2>2. CASE ~virtual /\ Absent
    <3>1. KindOf(Top) = "child"
      BY <1>1, <1>4, <1>5, <2>2 DEF ChildKinds
    <3>2. PICK u : u = [id |-> Top.path \o <<Top.at>>, kind |-> "child", parent |-> Top.parent,
                        action |-> "START", payload |-> None, replay |-> FALSE]
      OBVIOUS
    <3>3. /\ u.id = id /\ u.kind = "child" /\ u.parent = Top.parent /\ u.action = "START"
          /\ u.replay = FALSE /\ queue' = Append(queue, u)
      BY <1>4, <1>5, <2>2, <3>1, <3>2 DEF EnterChild, Put, Id
    <3>4. u \in Update
      <4>1. Top.path \o <<Top.at>> \in Seq(Nat)
        BY <1>5, <1>8 DEF Id
      <4> QED
        BY <1>8, <3>2, <4>1, PayloadsClosed DEF Update, OpKinds
    <3>5. "START" \in DOMAIN Accepted["child"]
      BY DEF Accepted
    <3>6. /\ QueueSound' /\ QueueGrows /\ DOMAIN queue' = DOMAIN queue \cup {Len(queue')}
          /\ queue'[Len(queue')] = u
      BY <1>1, <1>4, <1>5, <1>6, <2>2, <3>1, <3>3, <3>4, <3>5, PutFits
    <3> QED
      BY <2>2, <3>3, <3>6
  <2> QED
    BY <2>1, <2>2
<1>14. OpsGrow /\ Recorded'
  BY <1>1, SameRecord
<1>15. GivenInOrder' /\ Agree' /\ \A L \in LogFunctions : GivenFits(L) => GivenFits(L)'
  BY <1>0, <1>1, <1>14, NothingGiven
<1>16. TypeOK'
  BY <1>0, <1>1, <1>11, <1>13, <1>14 DEF TypeOK, QueueSound, Recorded
<1>17. /\ \A q : Code(q)' = Code(q) /\ Paths' = Paths
       /\ \A q, m : Ran(q, m)' <=> Ran(q, m)
       /\ \A g : FrameIsIn(g)' <=> FrameIsIn(g)
       /\ \A g : (AtOp(g)' <=> AtOp(g)) /\ KindOf(g)' = KindOf(g)
  BY <1>1 DEF Code, Paths, Ran, Catches, FrameIsIn, AtOp, KindOf
<1>18. \A k \in 1 .. n : Id(stack[k])' = Id(stack[k])
  BY <1>11 DEF Id
<1>19. Shape' /\ Parents'
  <2>1. ASSUME NEW k \in 1 .. n + 1
        PROVE  FrameIsIn(stack[k])' /\ Len(stack'[k].path) = k - 1
    <3>1. CASE k = n + 1
      <4>1. Len(Code(id)) \in Nat /\ Position(Code(id), 0) = 0
        BY <1>0, <1>8, CodeFacts, PositionStep
      <4>2. FrameIsIn(f)'
        BY <1>8, <1>9, <1>17, <4>1 DEF FrameIsIn
      <4> QED
        BY <1>8, <1>9, <1>11, <3>1, <4>2 DEF FrameIsIn
    <3>2. CASE k # n + 1
      <4>1. k \in 1 .. n /\ stack'[k] = stack[k]
        BY <1>4, <1>11, <3>2
      <4>2. FrameIsIn(stack[k]) /\ Len(stack[k].path) = k - 1
        BY <1>0, <1>3, <4>1 DEF Shape
      <4> QED
        BY <1>17, <4>1, <4>2 DEF FrameIsIn
    <3> QED
      BY <3>1, <3>2
  <2>2. ASSUME NEW k \in 1 .. n
        PROVE  IsChildOf(stack[k + 1], stack[k])'
    <3>1. CASE k = n
      <4>1. PICK g : g = Top
        OBVIOUS
      <4>2. IsChildOf(f, g)'
        BY <1>1, <1>4, <1>5, <1>9, <1>17, <4>1 DEF IsChildOf, Id
      <4> QED
        BY <1>4, <1>11, <3>1, <4>1, <4>2
    <3>2. CASE k # n
      <4>1. k \in 1 .. Len(stack) - 1 /\ k + 1 \in 1 .. n
        BY <1>3, <1>4, <3>2
      <4>2. PICK g, h : g = stack[k] /\ h = stack[k + 1]
        OBVIOUS
      <4>3. IsChildOf(h, g)
        BY <1>0, <4>1, <4>2 DEF Shape
      <4>4. IsChildOf(h, g)'
        BY <1>17, <4>3 DEF IsChildOf, Id
      <4> QED
        BY <1>11, <4>1, <4>2, <4>4
    <3> QED
      BY <3>1, <3>2
  <2>3. /\ stack'[1].path = Root /\ stack'[1].parent = Root
        /\ ~stack'[1].virtual /\ ~stack'[1].again
    <3>1. 1 \in 1 .. n /\ stack'[1] = stack[1]
      BY <1>4, <1>11
    <3> QED
      BY <1>0, <1>2, <3>1 DEF Shape
  <2>4. Shape'
    <3>1. Len(stack') - 1 = n
      BY <1>4, <1>11
    <3>2. (\A k \in 1 .. Len(stack) : FrameIsIn(stack[k]) /\ Len(stack[k].path) = k - 1)'
      BY <1>11, <2>1
    <3>3. (\A k \in 1 .. Len(stack) - 1 : IsChildOf(stack[k + 1], stack[k]))'
      BY <2>2, <3>1
    <3> QED
      BY <1>1, <1>2, <1>11, <2>3, <3>2, <3>3 DEF Shape
  <2>5. Parents'
    <3>1. ASSUME NEW k \in 1 .. n, stack[k].parent # Root
          PROVE  \E j \in 1 .. k - 1 : ~stack'[j + 1].virtual /\ stack[k].parent = Id(stack[j])'
      <4>1. PICK j \in 1 .. k - 1 : ~stack[j + 1].virtual /\ stack[k].parent = Id(stack[j])
        BY <1>0, <1>3, <3>1 DEF Parents
      <4>2. j \in 1 .. n /\ j + 1 \in 1 .. n
        BY <1>4
      <4> QED
        BY <1>11, <1>18, <4>1, <4>2
    <3>2. ASSUME f.parent # Root
          PROVE  \E j \in 1 .. n : ~stack'[j + 1].virtual /\ f.parent = Id(stack[j])'
      <4>1. CASE virtual
        <5>1. Top.parent = f.parent
          BY <1>9, <4>1
        <5>2. PICK j \in 1 .. n - 1 : ~stack'[j + 1].virtual /\ stack[n].parent = Id(stack[j])'
          BY <1>3, <1>4, <3>1, <3>2, <5>1
        <5>3. j \in 1 .. n
          BY <1>4
        <5> QED
          BY <1>4, <5>1, <5>2, <5>3
      <4>2. CASE ~virtual
        <5>1. n \in 1 .. n /\ ~stack'[n + 1].virtual /\ f.parent = Id(stack[n])'
          BY <1>3, <1>4, <1>5, <1>9, <1>11, <1>18, <4>2
        <5> QED
          BY <5>1
      <4> QED
        BY <4>1, <4>2
    <3>3. ASSUME NEW k \in 1 .. n + 1
          PROVE  stack'[k].parent = Root
                 \/ \E j \in 1 .. k - 1 : /\ ~stack'[j + 1].virtual
                                          /\ stack'[k].parent = Id(stack[j])'
      <4>1. CASE k = n + 1
        <5>1. k - 1 = n
          BY <1>4, <4>1
        <5> QED
          BY <1>11, <3>2, <4>1, <5>1
      <4>2. CASE k # n + 1
        <5>1. k \in 1 .. n
          BY <1>4, <4>2
        <5> QED
          BY <1>11, <3>1, <5>1
      <4> QED
        BY <4>1, <4>2
    <3> QED
      BY <1>11, <3>3 DEF Parents
  <2> QED
    BY <2>4, <2>5
<1>20. Seen'
  BY <1>0, <1>1, <1>2 DEF Seen
<1>21. Origin'
  <2>1. ASSUME NEW i \in DOMAIN queue'
        PROVE  \E k \in 1 .. n : queue'[i].id = Id(stack[k])' /\ queue'[i].action = "START"
    <3>1. CASE i \in DOMAIN queue
      <4>1. queue'[i] = queue[i]
        BY <1>13, <3>1 DEF QueueGrows
      <4>2. PICK k \in 1 .. n - 1 : queue[i].id = Id(stack[k]) /\ queue[i].action = "START"
        BY <1>0, <1>1, <1>3, <3>1 DEF Origin, Verdict
      <4>3. k \in 1 .. n
        BY <1>4
      <4> QED
        BY <1>18, <4>1, <4>2, <4>3
    <3>2. CASE i \notin DOMAIN queue
      <4>1. queue'[i].id = id /\ queue'[i].action = "START"
        BY <1>13, <3>2
      <4> QED
        BY <1>3, <1>4, <1>5, <1>18, <4>1
    <3> QED
      BY <3>1, <3>2
  <2>2. Len(stack') - 1 = n
    BY <1>4, <1>11
  <2> QED
    BY <2>1, <2>2 DEF Origin
<1>22. Open'
  <2>1. (\A x : Queued(x) => Queued(x)') /\ (~virtual /\ Absent => Queued(id)')
    BY <1>13 DEF Queued, QueueGrows
  <2>2. \A x : IsStarted(x, "child") => IsStarted(x, "child")'
    BY <1>1, <2>1 DEF IsStarted
  <2>3. ASSUME NEW k \in 1 .. n, ~stack'[k + 1].virtual, NEW c, c = Id(stack[k])'
        PROVE  /\ ChildIsOpen(k)'
               /\ c \in DOMAIN ops => ops[c].kind = "child"
               /\ c \in DOMAIN ops \/ Queued(c)'
    <3>1. CASE k = n
      <4>1. c = id /\ stack'[k + 1] = f /\ ~virtual
        BY <1>3, <1>4, <1>5, <1>9, <1>11, <1>18, <2>3, <3>1
      <4>2. IF again THEN c \in DOMAIN ops /\ ops[c].kind = "child"
                          /\ ops[c].status = "SUCCEEDED" /\ ops[c].replay
            ELSE IsStarted(c, "child")'
        <5>1. CASE again
          <6>1. ~Absent
            BY <1>5, <5>1 DEF Status
          <6> QED
            BY <1>1, <1>5, <1>6, <4>1, <5>1, <6>1
        <5>2. CASE ~again
          <6>1. CASE Absent
            BY <2>1, <4>1, <5>2, <6>1 DEF IsStarted
          <6>2. CASE ~Absent
            <7>1. Status = "STARTED"
              BY <1>1, <1>5, <1>6, <5>2, <6>2 DEF Operation, Statuses, Terminal, Failed
            <7> QED
              BY <1>1, <1>6, <4>1, <5>2, <6>2, <7>1 DEF IsStarted
          <6> QED
            BY <6>1, <6>2
        <5> QED
          BY <5>1, <5>2
      <4>3. ChildIsOpen(k)'
        BY <1>1, <1>9, <2>3, <4>1, <4>2 DEF ChildIsOpen
      <4> QED
        BY <1>6, <2>1, <4>1, <4>3
    <3>2. CASE k # n
      <4>1. k \in 1 .. n - 1 /\ k \in 1 .. n /\ k + 1 \in 1 .. n
        BY <1>4, <3>2
      <4>2. PICK g : g = stack[k + 1]
        OBVIOUS
      <4>3. c = Id(stack[k]) /\ stack'[k + 1] = g /\ ~g.virtual
        BY <1>11, <1>18, <2>3, <4>1, <4>2
      <4>4. /\ ChildIsOpen(k)
            /\ c \in DOMAIN ops => ops[c].kind = "child"
            /\ c \in DOMAIN ops \/ Queued(c)
        BY <1>0, <1>3, <4>1, <4>2, <4>3 DEF Open
      <4>5. ChildIsOpen(k)'
        BY <1>1, <2>2, <2>3, <4>2, <4>3, <4>4 DEF ChildIsOpen
      <4> QED
        BY <2>1, <4>4, <4>5
    <3> QED
      BY <3>1, <3>2
  <2>4. (\A k \in 1 .. Len(stack) - 1 : ~stack[k + 1].virtual =>
          /\ ChildIsOpen(k)
          /\ Id(stack[k]) \in DOMAIN ops => ops[Id(stack[k])].kind = "child"
          /\ Id(stack[k]) \in DOMAIN ops \/ Queued(Id(stack[k])))'
    <3> SUFFICES ASSUME NEW k \in 1 .. n, ~stack'[k + 1].virtual
        PROVE  (/\ ChildIsOpen(k)
                /\ Id(stack[k]) \in DOMAIN ops => ops[Id(stack[k])].kind = "child"
                /\ Id(stack[k]) \in DOMAIN ops \/ Queued(Id(stack[k])))'
      <4>1. Len(stack') - 1 = n
        BY <1>4, <1>11
      <4> QED
        BY <4>1
    <3>1. PICK c : c = Id(stack[k])'
      OBVIOUS
    <3>2. /\ ChildIsOpen(k)'
          /\ c \in DOMAIN ops => ops[c].kind = "child"
          /\ c \in DOMAIN ops \/ Queued(c)'
      BY <2>3, <3>1
    <3> QED
      BY <1>1, <3>1, <3>2
  <2> QED
    BY <1>1, <1>13, <1>14, <2>4 DEF Open, Recorded, QueueSound
<1>23. \A k \in 1 .. n : stack'[k] = stack[k] /\ Done(k)' = Done(k)
  <2> TAKE k \in 1 .. n
  <2>1. stack'[k] = stack[k] /\ k < n + 1
    BY <1>4, <1>11
  <2>2. Done(k)' = stack[k].line - 1
    BY <1>11, <2>1 DEF Done
  <2>3. Done(k) = stack[k].line - 1
    BY <1>2 DEF Done
  <2> QED
    BY <2>1, <2>2, <2>3
<1>24. Done(n + 1)' = 0
  BY <1>2, <1>9, <1>11 DEF Done
<1>25. \A k \in 1 .. n + 1 : k \in 1 .. n \/ k = n + 1
  BY <1>4
<1>26. FramesRan'
  <2>1. \A k \in 1 .. n : Ran(stack[k].path, Done(k))
    BY <1>0, <1>1, <1>3 DEF FramesRan
  <2>2. \A q : Ran(q, 0)
    BY DEF Ran
  <2>3. \A k \in 1 .. n + 1 : Ran(stack'[k].path, Done(k)')
    BY <1>11, <1>23, <1>24, <1>25, <2>1, <2>2
  <2> QED
    BY <1>1, <1>11, <1>17, <2>3 DEF FramesRan
<1>27. SomeLogs'
  <2>1. PICK L \in LogFunctions : GivenFits(L) /\ FramesFit(L)
    BY <1>0 DEF SomeLogs
  <2>2. L[id][0] = <<>>
    BY <1>8, <2>1 DEF GivenFits
  <2>3. FramesFit(L)'
    BY <1>3, <1>9, <1>11, <1>23, <1>24, <1>25, <2>1, <2>2 DEF FramesFit
  <2> QED
    BY <1>15, <2>1, <2>3 DEF SomeLogs
<1> QED
  BY <1>13, <1>15, <1>16, <1>19, <1>20, <1>21, <1>22, <1>26, <1>27 DEF Inv, QueueSound

-----------------------------------------------------------------------------
\* The code is given an outcome.

\* Where the code goes on with an error: only of a check's own the program must be ErrorsAlike.
LEMMA CaughtOrNot ==
  ASSUME NEW p, NEW l, NEW how \in Hows(Code(p)[l].kind), how # "CheckError" \/ ErrorsAlike
  PROVE  how \in {"returns"} \cup program.catches <=> how = "returns" \/ Catches(p, l)
<1>1. PICK kind : kind = Code(p)[l].kind
  OBVIOUS
<1>2. CASE kind = "result"
  <2>1. how \in {"returns", "CallbackError"}
    BY <1>1, <1>2 DEF Hows
  <2>2. Catches(p, l) <=> "CallbackError" \in program.catches
    BY <1>1, <1>2 DEF Catches
  <2> QED
    BY <2>1, <2>2
<1>3. CASE kind # "result"
  <2>1. how \in {"returns", "CallableRuntimeError", "CheckError"}
    BY <1>1, <1>3 DEF Hows
  <2>2. Catches(p, l) <=> "CallableRuntimeError" \in program.catches
    BY <1>1, <1>3 DEF Catches
  <2>3. how = "CheckError" => ("CheckError" \in program.catches <=> Catches(p, l))
    BY <2>2 DEF ErrorsAlike
  <2> QED
    BY <2>1, <2>2, <2>3
<1> QED
  BY <1>2, <1>3

\* The context with index n is given an outcome, and the contexts above it are left.
LEMMA GiveKeeps ==
  ASSUME Inv, program' = program, ops' = ops, view' = view, queue' = queue,
         taken' = taken, Live, NEW n, NEW f, Moves(n, f),
         NEW how \in Hows(Code(f.path)[f.line].kind), NEW what \in Payloads,
         f.line \in 1 .. Len(Code(f.path)), Ran(f.path, f.line - 1),
         given' = given \cup {<<f.path, f.line, how, what>>},
         pc' = IF how = "returns" \/ Catches(f.path, f.line) THEN "run" ELSE "raising",
         NEW L \in LogFunctions, GivenFits(L), FramesFit(L),
         Backed(L, f.path, f.line, how, what), f.log = L[f.path][f.line - 1] \o what,
         \A i \in DOMAIN queue : \E k \in 1 .. n - 1 :
           queue[i].id = Id(stack[k]) /\ queue[i].action = "START",
         \A k \in 1 .. n - 1 : ~(k = Len(stack) - 1 /\ pc \in {"closing", "failing"})
  PROVE  Inv'
<1>0. /\ TypeOK /\ Shape /\ Parents /\ OpsFit /\ Seen /\ Acceptable /\ Origin /\ Open
      /\ GivenInOrder /\ FramesRan /\ ChildrenRan /\ Agree
  BY DEF Inv
<1>1. PICK p, l : p = f.path /\ l = f.line
  OBVIOUS
<1>2. /\ n \in 1 .. Len(stack) /\ Len(stack) \in Nat /\ n \in Nat /\ n >= 1
      /\ stack' \in Seq(Frame) /\ Len(stack') = n /\ stack'[n] = f
      /\ \A k \in 1 .. n - 1 : stack'[k] = stack[k]
      /\ p = stack[n].path /\ p \in Paths /\ f.virtual = stack[n].virtual
      /\ f.again = stack[n].again /\ f \in Frame
  BY <1>0, <1>1 DEF Moves, TypeOK, FrameIsIn
<1>3. /\ l \in 1 .. Len(Code(p)) /\ l \in Nat /\ l - 1 \in Nat /\ l >= 1 /\ p \in Seq(Nat)
      /\ Len(Code(p)) \in Nat
  BY <1>0, <1>1, <1>2, CodeFacts
<1>4. OpsGrow /\ Recorded' /\ QueueSound' /\ GivenGrows
  BY SameRecord, NothingPut DEF GivenGrows
<1>5. /\ \A q, m : Ran(q, m) => Ran(q, m)'
      /\ \A q, m : Raises(q, m) => Raises(q, m)'
      /\ \A q : Code(q)' = Code(q) /\ Paths' = Paths
  BY <1>4, RanGrows
<1>6. /\ given' = given \cup {<<p, l, how, what>>} /\ Ran(p, l - 1)
      /\ Backed(L, p, l, how, what) /\ how \in Hows(Code(p)[l].kind)
  BY <1>1
<1>7. /\ GivenInOrder' /\ Agree'
      /\ \E M \in LogFunctions : GivenFits(M)' /\ GivesOn(p, l, what, L, M)
  BY <1>0, <1>2, <1>3, <1>4, <1>6, OneGiven
<1>8. /\ Live' /\ pc' \notin InOperation /\ pc' \in {"run", "raising"}
      /\ pc' \notin {"closing", "failing", "starting", "checking", "met", "unmet", "broken"}
      /\ stack' # <<>> /\ stack # <<>>
  BY <1>0, <1>2 DEF Live, Resting, InOperation, Shape
<1>9. Chain' /\ Parents'
  BY <1>0, MovesKeep
<1>10. TypeOK'
  <2>1. how \in {"returns"} \cup Errors
    BY DEF Hows, Errors
  <2>2. given' \subseteq Seq(Nat) \X Nat \X ({"returns"} \cup Errors) \X Payloads
    BY <1>0, <1>3, <1>6, <2>1 DEF TypeOK
  <2> QED
    BY <1>0, <1>2, <1>4, <1>8, <2>2 DEF TypeOK, QueueSound, Recorded
<1>11. Shape'
  BY <1>8, <1>9 DEF Shape, Chain
<1>12. Seen'
  BY <1>0, <1>8 DEF Seen
<1>13. \A k \in 1 .. n - 1 : Id(stack[k])' = Id(stack[k])
  BY <1>2 DEF Id
<1>14. Origin'
  BY <1>2, <1>13 DEF Origin
<1>15. Open'
  <2>1. \A x : (Queued(x)' <=> Queued(x)) /\ (IsStarted(x, "child")' <=> IsStarted(x, "child"))
    BY DEF Queued, IsStarted
  <2>2. ASSUME NEW k \in 1 .. n - 1, ~stack'[k + 1].virtual, NEW c, c = Id(stack[k])'
        PROVE  /\ ChildIsOpen(k)'
               /\ c \in DOMAIN ops => ops[c].kind = "child"
               /\ c \in DOMAIN ops \/ Queued(c)
    <3>1. k \in 1 .. Len(stack) - 1 /\ c = Id(stack[k])
      BY <1>2, <1>13, <2>2
    <3>2. PICK g : g = stack[k + 1]
      OBVIOUS
    <3>3. stack'[k + 1].virtual = g.virtual /\ stack'[k + 1].again = g.again
      <4>1. CASE k + 1 = n
        BY <1>2, <3>2, <4>1
      <4>2. CASE k + 1 # n
        <5>1. k + 1 \in 1 .. n - 1
          BY <1>2, <4>2
        <5> QED
          BY <1>2, <3>2, <5>1
      <4> QED
        BY <4>1, <4>2
    <3>4. /\ ChildIsOpen(k)
          /\ c \in DOMAIN ops => ops[c].kind = "child"
          /\ c \in DOMAIN ops \/ Queued(c)
      BY <1>0, <2>2, <3>1, <3>2, <3>3 DEF Open
    <3>5. ~(k = Len(stack) - 1 /\ pc \in {"closing", "failing"})
      OBVIOUS
    <3>6. ChildIsOpen(k)'
      <4>1. CASE g.again
        BY <2>2, <3>1, <3>2, <3>3, <3>4, <4>1 DEF ChildIsOpen
      <4>2. CASE ~g.again
        <5>1. IsStarted(c, "child")
          BY <3>1, <3>2, <3>4, <3>5, <4>2 DEF ChildIsOpen
        <5>2. IsStarted(c, "child")'
          BY <2>1, <5>1
        <5> QED
          BY <2>2, <3>3, <4>2, <5>2 DEF ChildIsOpen
      <4> QED
        BY <4>1, <4>2
    <3> QED
      BY <3>4, <3>6
  <2>3. (\A k \in 1 .. Len(stack) - 1 : ~stack[k + 1].virtual =>
          /\ ChildIsOpen(k)
          /\ Id(stack[k]) \in DOMAIN ops => ops[Id(stack[k])].kind = "child"
          /\ Id(stack[k]) \in DOMAIN ops \/ Queued(Id(stack[k])))'
    <3> SUFFICES ASSUME NEW k \in 1 .. n - 1, ~stack'[k + 1].virtual
        PROVE  (/\ ChildIsOpen(k)
                /\ Id(stack[k]) \in DOMAIN ops => ops[Id(stack[k])].kind = "child"
                /\ Id(stack[k]) \in DOMAIN ops \/ Queued(Id(stack[k])))'
      BY <1>2
    <3>1. PICK c : c = Id(stack[k])'
      OBVIOUS
    <3>2. /\ ChildIsOpen(k)'
          /\ c \in DOMAIN ops => ops[c].kind = "child"
          /\ c \in DOMAIN ops \/ Queued(c)
      BY <2>2, <3>1
    <3> QED
      BY <2>1, <3>1, <3>2
  <2> QED
    BY <1>4, <1>8, <2>3 DEF Open, Recorded, QueueSound
<1>16. \A k \in 1 .. n - 1 : /\ k \in 1 .. Len(stack) - 1 /\ k < Len(stack) /\ k \in Nat
                             /\ Done(k)' = stack[k].line - 1 /\ Done(k) = stack[k].line - 1
  BY <1>2 DEF Done
<1>17. Done(n)' = l
  BY <1>1, <1>2, <1>8 DEF Done
<1>18. \A k \in 1 .. n : k \in 1 .. n - 1 \/ k = n
  BY <1>2
<1>19. FramesRan'
  <2>1. ASSUME NEW k \in 1 .. n - 1 PROVE Ran(stack[k].path, Done(k))'
    <3>1. PICK q, m : q = stack[k].path /\ m = Done(k)
      OBVIOUS
    <3>2. Ran(q, m)
      BY <1>0, <1>2, <1>16, <3>1 DEF FramesRan
    <3>3. q = stack'[k].path /\ m = Done(k)'
      BY <1>2, <1>16, <3>1
    <3> QED
      BY <1>5, <3>2, <3>3
  <2>2. Ran(p, l - 1)'
    BY <1>5, <1>6
  <2>3. <<p, l, how, what>> \in given'
    BY <1>6
  <2>4. CASE how = "returns" \/ Catches(p, l)
    <3>1. pc' = "run" /\ \A m : Catches(p, m)' <=> Catches(p, m)
      BY <1>1, <2>4 DEF Catches, Code
    <3>2. Ran(p, l)'
      <4>1. ASSUME NEW m \in 1 .. l
            PROVE  \E g \in given' : g[1] = p /\ g[2] = m /\ (g[3] = "returns" \/ Catches(p, m)')
        <5>1. CASE m = l
          BY <2>3, <2>4, <3>1, <5>1
        <5>2. CASE m # l
          <6>1. m \in 1 .. l - 1
            BY <1>3, <5>2
          <6> QED
            BY <2>2, <6>1 DEF Ran
        <5> QED
          BY <5>1, <5>2
      <4> QED
        BY <4>1 DEF Ran
    <3> QED
      BY <1>1, <1>2, <1>16, <1>17, <1>18, <2>1, <3>1, <3>2 DEF FramesRan
  <2>5. CASE ~(how = "returns" \/ Catches(p, l))
    <3>1. pc' = "raising" /\ how # "returns" /\ ~Catches(p, l)'
      BY <1>1, <2>5 DEF Catches, Code
    <3>2. Raises(p, l)'
      BY <2>3, <3>1 DEF Raises
    <3> QED
      <4>1. p = stack'[n].path /\ l = stack'[n].line
        BY <1>1, <1>2
      <4>2. /\ (stack[n].line > 0)' /\ Ran(stack[n].path, stack[n].line - 1)'
            /\ Raises(stack[n].path, stack[n].line)'
        BY <1>3, <2>2, <3>2, <4>1
      <4>3. \A k \in 1 .. n - 1 : Ran(stack[k].path, Done(k))' /\ k # n
        BY <1>2, <2>1
      <4>4. Len(stack') = n
        BY <1>2
      <4> QED
        BY <1>18, <3>1, <4>2, <4>3, <4>4 DEF FramesRan
  <2> QED
    BY <2>4, <2>5
<1>20. SomeLogs'
  <2>1. PICK M \in LogFunctions : GivenFits(M)' /\ GivesOn(p, l, what, L, M)
    BY <1>7
  <2>2. ASSUME NEW k \in 1 .. n - 1 PROVE stack'[k].log = M[stack'[k].path][Done(k)']
    <3>1. k \in 1 .. Len(stack) /\ k # n
      BY <1>2
    <3>2. stack[k].path # p /\ stack[k].path \in Seq(Nat)
      BY <1>0, <1>2, <3>1, FramesDiffer, FrameFacts
    <3>3. Done(k) \in Nat
      <4>1. stack[k].line >= 1
        BY <1>0, <1>16, CreatorFacts
      <4>2. stack[k].line \in Nat
        BY <1>0, <3>1, FrameFacts
      <4>3. Done(k) = stack[k].line - 1
        BY <1>16
      <4>4. PICK m : m = stack[k].line
        OBVIOUS
      <4>5. m \in Nat /\ m >= 1 /\ m - 1 \in Nat
        BY <4>1, <4>2, <4>4
      <4> QED
        BY <4>3, <4>4, <4>5
    <3>4. stack[k].log = L[stack[k].path][Done(k)]
      BY <3>1 DEF FramesFit
    <3>5. M[stack[k].path][Done(k)] = L[stack[k].path][Done(k)]
      BY <2>1, <3>2, <3>3 DEF GivesOn
    <3> QED
      BY <1>2, <1>16, <3>4, <3>5
  <2>3. f.log = M[p][l]
    BY <1>1, <2>1 DEF GivesOn
  <2>4. FramesFit(M)'
    BY <1>1, <1>2, <1>17, <1>18, <2>2, <2>3 DEF FramesFit
  <2> QED
    BY <2>1, <2>4 DEF SomeLogs
<1> QED
  BY <1>4, <1>7, <1>9, <1>10, <1>11, <1>12, <1>14, <1>15, <1>19, <1>20 DEF Inv, QueueSound

\* An operation ends for the code: with a checkpoint that was there, or that it has made.
GivenTo(g, what) == [After(g) EXCEPT !.log = @ \o what]

\* The context after its operation.
LEMMA AfterFrame ==
  ASSUME NEW g \in Frame, NEW what \in Payloads, NEW f, f = GivenTo(g, what)
  PROVE  /\ f \in Frame /\ f.path = g.path /\ f.parent = g.parent /\ f.line = g.line
         /\ f.at = g.at /\ f.virtual = g.virtual /\ f.again = g.again /\ f.log = g.log \o what
<1>1. PICK new : new = (g.new \/ g.flip \/ ~Exists(NextId(g)))
  OBVIOUS
<1>2. new \in BOOLEAN
  BY <1>1 DEF Frame, Exists
<1>3. PICK h : h = After(g)
  OBVIOUS
<1>4. h = [g EXCEPT !.new = new, !.flip = FALSE]
  BY <1>1, <1>3 DEF After
<1>5. /\ h \in Frame /\ h.path = g.path /\ h.parent = g.parent /\ h.line = g.line
      /\ h.at = g.at /\ h.virtual = g.virtual /\ h.again = g.again /\ h.log = g.log
  BY <1>2, <1>4 DEF Frame
<1>6. PICK log : log = g.log \o what
  OBVIOUS
<1>7. log \in Payloads
  BY <1>6, PayloadsClosed DEF Frame
<1>8. f = [h EXCEPT !.log = log]
  BY <1>3, <1>5, <1>6 DEF GivenTo
<1>9. /\ f \in Frame /\ f.path = h.path /\ f.parent = h.parent /\ f.line = h.line
      /\ f.at = h.at /\ f.virtual = h.virtual /\ f.again = h.again /\ f.log = log
  BY <1>5, <1>7, <1>8 DEF Frame
<1> QED
  BY <1>5, <1>6, <1>9

\* What the stack is after the operation.
LEMMA OutcomeMoves ==
  ASSUME Inv, pc \in InOperation, NEW how, NEW what \in Payloads, Outcome(how, what)
  PROVE  \E n, f :
           /\ n = Len(stack) /\ f = [After(Top) EXCEPT !.log = @ \o what]
           /\ f \in Frame /\ f.path = Top.path /\ f.parent = Top.parent /\ f.line = Top.line
           /\ f.at = Top.at /\ f.virtual = Top.virtual /\ f.again = Top.again
           /\ f.log = Top.log \o what
           /\ stack' = Append(Below, f) /\ Moves(n, f)
<1>0. TypeOK /\ Shape
  BY DEF Inv
<1>1. PICK n, f : n = Len(stack) /\ f = [After(Top) EXCEPT !.log = @ \o what]
  OBVIOUS
<1>2. stack' = Append(Below, f)
  BY <1>1 DEF Outcome
<1>3. /\ n \in 1 .. Len(stack) /\ n \in Nat /\ stack # <<>> /\ Top = stack[n] /\ Top \in Frame
  BY <1>1, TopOp
<1>4. /\ f \in Frame /\ f.path = Top.path /\ f.parent = Top.parent /\ f.line = Top.line
      /\ f.at = Top.at /\ f.virtual = Top.virtual /\ f.again = Top.again
      /\ f.log = Top.log \o what
  <2>1. PICK g : g = Top
    OBVIOUS
  <2>2. g \in Frame /\ f = GivenTo(g, what)
    BY <1>1, <1>3, <2>1 DEF GivenTo
  <2>3. /\ f \in Frame /\ f.path = g.path /\ f.parent = g.parent /\ f.line = g.line
        /\ f.at = g.at /\ f.virtual = g.virtual /\ f.again = g.again /\ f.log = g.log \o what
    BY <2>2, AfterFrame
  <2> QED
    BY <2>1, <2>3
<1>5. FrameIsIn(Top)
  BY <1>0, <1>3 DEF Shape
<1>6. FrameIsIn(f)
  BY <1>4, <1>5 DEF FrameIsIn
<1>7. stack \in Seq(Frame)
  BY <1>0 DEF TypeOK
<1>8. /\ stack' \in Seq(Frame) /\ Len(stack') = n /\ stack'[n] = f
      /\ \A k \in 1 .. n - 1 : stack'[k] = stack[k]
  BY <1>1, <1>2, <1>3, <1>4, <1>7, ReplaceTop DEF Below
<1>9. Moves(n, f)
  BY <1>3, <1>4, <1>6, <1>8 DEF Moves
<1> QED
  BY <1>1, <1>2, <1>4, <1>9

\* The operation at which the code is gives it an outcome.
LEMMA OutcomeKeeps ==
  ASSUME Inv, pc \in InOperation, NEW how \in Hows(KindOf(Top)),
         how # "CheckError" \/ ErrorsAlike,
         NEW what \in Payloads, Outcome(how, what),
         pc = "check" \/ queue = <<>>,
         \A L \in LogFunctions : Backed(L, Top.path, Top.line, how, what)
  PROVE  Inv'
<1>0. TypeOK /\ Shape /\ Origin /\ FramesRan /\ SomeLogs
  BY DEF Inv
<1>1. PICK n, f :
        /\ n = Len(stack) /\ f = [After(Top) EXCEPT !.log = @ \o what]
        /\ f \in Frame /\ f.path = Top.path /\ f.parent = Top.parent /\ f.line = Top.line
        /\ f.at = Top.at /\ f.virtual = Top.virtual /\ f.again = Top.again
        /\ f.log = Top.log \o what
        /\ stack' = Append(Below, f) /\ Moves(n, f)
  BY OutcomeMoves
<1>2. /\ program' = program /\ ops' = ops /\ view' = view /\ queue' = queue /\ taken' = taken
      /\ given' = given \cup {<<Top.path, Top.line, how, what>>}
      /\ pc' = IF how \in {"returns"} \cup program.catches THEN "run" ELSE "raising"
      /\ stack' = Append(Below, f)
  BY <1>1 DEF Outcome, Give, pipe
<1>3. /\ Live /\ n \in 1 .. Len(stack) /\ n \in Nat /\ stack # <<>> /\ Top = stack[n]
      /\ Top \in Frame /\ Top.line \in 1 .. Len(Code(Top.path)) /\ Top.path \in Paths
      /\ Ran(Top.path, Top.line - 1)
  BY <1>1, TopOp
<1>4. /\ f.path = Top.path /\ f.line = Top.line /\ f.log = Top.log \o what
      /\ Moves(n, f)
  BY <1>1
<1>5. how \in Hows(Code(f.path)[f.line].kind)
  BY <1>4 DEF KindOf
<1>6. pc' = IF how = "returns" \/ Catches(f.path, f.line) THEN "run" ELSE "raising"
  <2>1. PICK p, l : p = f.path /\ l = f.line
    OBVIOUS
  <2>2. how \in {"returns"} \cup program.catches <=> how = "returns" \/ Catches(p, l)
    BY <1>5, <2>1, CaughtOrNot
  <2> QED
    BY <1>2, <2>1, <2>2
<1>9. Moves(n, f)
  BY <1>4
<1>10. PICK L \in LogFunctions : GivenFits(L) /\ FramesFit(L)
  BY <1>0 DEF SomeLogs
<1>11. f.log = L[f.path][f.line - 1] \o what
  <2>1. Done(n) = Top.line - 1
    BY <1>3 DEF Done
  <2>2. Top.log = L[Top.path][Top.line - 1]
    BY <1>3, <1>10, <2>1 DEF FramesFit
  <2> QED
    BY <1>4, <2>2
<1>12. \A i \in DOMAIN queue : \E k \in 1 .. n - 1 :
         queue[i].id = Id(stack[k]) /\ queue[i].action = "START"
  <2>1. CASE pc = "check"
    BY <1>0, <1>1, <2>1 DEF Origin, Verdict
  <2>2. CASE queue = <<>>
    BY <2>2
  <2> QED
    BY <2>1, <2>2
<1>13. pc \notin {"closing", "failing"}
  BY DEF InOperation
<1>14. f.line \in 1 .. Len(Code(f.path)) /\ Ran(f.path, f.line - 1)
       /\ given' = given \cup {<<f.path, f.line, how, what>>}
       /\ Backed(L, f.path, f.line, how, what)
  BY <1>2, <1>3, <1>4
<1> QED
  BY <1>2, <1>3, <1>5, <1>6, <1>9, <1>10, <1>11, <1>12, <1>13, <1>14, GiveKeeps

\* The checkpoint of an operation that has ended, as it was read.
LEMMA CheckpointAnswers ==
  ASSUME Inv, pc \in InOperation, NEW how,
         \/ Status = "SUCCEEDED" /\ how = "returns"
         \/ Status \in Failed /\ how # "returns"
  PROVE  /\ Answers(OpId(Top.path, Top.line), how, Payload) /\ Payload \in Payloads
         /\ ~Absent /\ KindOf(Top) \in OpKinds
         /\ ops[OpId(Top.path, Top.line)].status = Status
         /\ ops[OpId(Top.path, Top.line)].replay = view[Id(Top)].replay
<1>1. ~Absent
  BY DEF Status, Failed
<1>2. PICK id : id = Id(Top)
  OBVIOUS
<1>3. Exists(id) /\ Status = view[id].status /\ Payload = view[id].payload
  BY <1>1, <1>2 DEF Absent, Status, Payload
<1>4. /\ id \in DOMAIN ops /\ view[id] \in Operation /\ view[id].kind = KindOf(Top)
      /\ id = OpId(Top.path, Top.line)
      /\ \/ view[id].status \in {"READY"} \cup Terminal
         \/ view[id].status = "STARTED" /\ KindOf(Top) \in {"condition", "child"}
         => ops[id] = view[id]
  BY <1>2, <1>3, TopOp
<1>5. ops[id] = view[id]
  BY <1>3, <1>4 DEF Terminal
<1>6. Payload \in Payloads /\ KindOf(Top) \in OpKinds
  BY <1>3, <1>4 DEF Operation
<1> QED
  BY <1>1, <1>2, <1>3, <1>4, <1>5, <1>6 DEF Answers

\* A wait is over, is STARTed or suspends.
LEMMA WaitKeeps ==
  ASSUME Inv, Wait
  PROVE  Inv'
<1>1. pc = "check" /\ Instr.kind = "wait" /\ pc \in InOperation
  BY DEF Wait, At, InOperation
<1>2. CASE Status = "SUCCEEDED" /\ Outcome("returns", <<>>)
  <2>1. KindOf(Top) = "wait" /\ "returns" \in Hows(KindOf(Top))
    BY <1>1, TopOp DEF Hows
  <2>2. \A L \in LogFunctions : Backed(L, Top.path, Top.line, "returns", <<>>)
    BY <2>1 DEF Backed, KindOf
  <2> QED
    BY <1>1, <1>2, <2>1, <2>2, PayloadsClosed, OutcomeKeeps
<1>3. CASE Absent /\ StartAndCheck("wait")
  BY <1>1, <1>3, StartAndCheckKeeps DEF At
<1>4. CASE Suspend
  BY <1>4, SuspendKeeps
<1> QED
  BY <1>2, <1>3, <1>4 DEF Wait

\* The invoked function has answered, is STARTed or is waited for.
LEMMA ChainedInvokeKeeps ==
  ASSUME Inv, ChainedInvoke
  PROVE  Inv'
<1>1. pc = "check" /\ Instr.kind = "invoke" /\ pc \in InOperation
  BY DEF ChainedInvoke, At, InOperation
<1>2. KindOf(Top) = "invoke"
  BY <1>1, TopOp
<1>3. ASSUME NEW how \in {"returns", "CallableRuntimeError"}, Outcome(how, Payload),
             \/ Status = "SUCCEEDED" /\ how = "returns"
             \/ Status \in Failed /\ how = "CallableRuntimeError"
      PROVE  Inv'
  <2>1. PICK what : what = Payload
    OBVIOUS
  <2>2. Answers(OpId(Top.path, Top.line), how, what) /\ what \in Payloads
    BY <1>1, <1>3, <2>1, CheckpointAnswers
  <2>3. \A L \in LogFunctions : Backed(L, Top.path, Top.line, how, what)
    BY <1>2, <2>2 DEF Backed, KindOf
  <2>4. how \in Hows(KindOf(Top)) /\ how # "CheckError"
    BY <1>2, <1>3 DEF Hows
  <2> QED
    BY <1>1, <1>3, <2>1, <2>2, <2>3, <2>4, OutcomeKeeps
<1>4. CASE Absent /\ StartAndCheck("invoke")
  BY <1>1, <1>4, StartAndCheckKeeps DEF At
<1>5. CASE Suspend
  BY <1>5, SuspendKeeps
<1> QED
  BY <1>3, <1>4, <1>5 DEF ChainedInvoke

\* create_callback gives the callback, which is STARTed or was before.
LEMMA CreateCallbackKeeps ==
  ASSUME Inv, CreateCallback
  PROVE  Inv'
<1>1. pc = "check" /\ Instr.kind = "callback" /\ pc \in InOperation
  BY DEF CreateCallback, At, InOperation
<1>2. CASE ~Absent /\ Outcome("returns", <<>>)
  <2>1. /\ KindOf(Top) = "callback" /\ Id(Top) = OpId(Top.path, Top.line)
        /\ Id(Top) \in DOMAIN ops /\ "returns" \in Hows(KindOf(Top))
    BY <1>1, <1>2, TopOp DEF Absent, Hows
  <2>2. \A L \in LogFunctions : Backed(L, Top.path, Top.line, "returns", <<>>)
    BY <2>1 DEF Backed, KindOf
  <2> QED
    BY <1>1, <1>2, <2>1, <2>2, PayloadsClosed, OutcomeKeeps
<1>3. CASE Absent /\ StartAndCheck("callback")
  BY <1>1, <1>3, StartAndCheckKeeps DEF At
<1> QED
  BY <1>2, <1>3 DEF CreateCallback

\* wait_for_condition has ended, or its retry is not due.
LEMMA ConditionIsDoneKeeps ==
  ASSUME Inv, ConditionIsDone
  PROVE  Inv'
<1>1. pc = "check" /\ Instr.kind = "condition" /\ pc \in InOperation
  BY DEF ConditionIsDone, At, InOperation
<1>2. KindOf(Top) = "condition"
  BY <1>1, TopOp
<1>3. ASSUME NEW how \in {"returns", "CallableRuntimeError"}, Outcome(how, Payload),
             \/ Status = "SUCCEEDED" /\ how = "returns"
             \/ Status \in Failed /\ how = "CallableRuntimeError"
      PROVE  Inv'
  <2>1. PICK what : what = Payload
    OBVIOUS
  <2>2. Answers(OpId(Top.path, Top.line), how, what) /\ what \in Payloads
    BY <1>1, <1>3, <2>1, CheckpointAnswers
  <2>3. \A L \in LogFunctions : Backed(L, Top.path, Top.line, how, what)
    BY <1>2, <2>2 DEF Backed, KindOf
  <2>4. how \in Hows(KindOf(Top)) /\ how # "CheckError"
    BY <1>2, <1>3 DEF Hows
  <2> QED
    BY <1>1, <1>3, <2>1, <2>2, <2>3, <2>4, OutcomeKeeps
<1>4. CASE Suspend
  BY <1>4, SuspendKeeps
<1> QED
  BY <1>3, <1>4 DEF ConditionIsDone, Failed

\* The checkpoint of a check has been applied.
LEMMA CheckedKeeps ==
  ASSUME Inv, ErrorsAlike, Checked
  PROVE  Inv'
<1>0. TypeOK /\ Shape /\ Open
  BY DEF Inv
<1>1. queue = <<>>
  BY DEF Checked
<1>2. ASSUME NEW action \in {"SUCCEED", "FAIL"}, NEW how \in {"returns", "CheckError"},
             NEW what \in Payloads, pc \in {"met", "broken"}, Told(Id(Top), action, what),
             Outcome(how, what), action = "SUCCEED" <=> how = "returns"
      PROVE  Inv'
  <2>1. pc \in InOperation
    BY <1>2 DEF InOperation
  <2>2. KindOf(Top) = "condition" /\ Id(Top) = OpId(Top.path, Top.line)
    BY <1>0, <1>2, <2>1, TopOp DEF Shape
  <2>3. PICK id : id = Id(Top)
    OBVIOUS
  <2>4. /\ id \in DOMAIN ops /\ ops[id].status = StatusAfter[action]
        /\ ops[id].replay \/ what = ops[id].payload
    BY <1>1, <1>2, <2>3 DEF Told
  <2>5. ops[id].kind = "condition"
    BY <2>1, <2>2, <2>3, <2>4, TopOp
  <2>6. ~ops[id].replay
    BY <1>0, <2>4, <2>5 DEF Open
  <2>7. Answers(id, how, what)
    BY <1>2, <2>4, <2>6 DEF Answers, StatusAfter, Failed
  <2>8. \A L \in LogFunctions : Backed(L, Top.path, Top.line, how, what)
    BY <2>2, <2>3, <2>7 DEF Backed, KindOf
  <2>9. how \in Hows(KindOf(Top))
    BY <1>2, <2>2 DEF Hows
  <2> QED
    BY <1>1, <1>2, <2>1, <2>8, <2>9, OutcomeKeeps
<1>3. CASE pc = "met" /\ Outcome("returns", taken.payload)
  <2>1. PICK what : what = taken.payload
    OBVIOUS
  <2>2. what \in Payloads /\ Told(Id(Top), "SUCCEED", what)
    BY <1>0, <1>3, <2>1 DEF TypeOK, Open
  <2> QED
    BY <1>2, <1>3, <2>1, <2>2
<1>4. CASE pc = "broken" /\ Outcome("CheckError", <<"boom">>)
  <2>1. <<"boom">> \in Payloads /\ Told(Id(Top), "FAIL", <<"boom">>)
    BY <1>0, <1>4, PayloadsClosed DEF Open
  <2> QED
    BY <1>2, <1>4, <2>1
<1>5. CASE Suspend
  BY <1>5, SuspendKeeps
<1> QED
  BY <1>3, <1>4, <1>5 DEF Checked

\* The outcome of a child context is read from its checkpoint.
LEMMA ChildIsDoneKeeps ==
  ASSUME Inv, ChildIsDone
  PROVE  Inv'
<1>1. pc = "check" /\ Instr.kind \in ChildKinds /\ pc \in InOperation
  BY DEF ChildIsDone, InOperation
<1>2. ASSUME NEW how \in {"returns", "CallableRuntimeError"}, Outcome(how, Payload),
             \/ Status = "SUCCEEDED" /\ ~view[Id(Top)].replay /\ how = "returns"
             \/ Status \in Failed /\ how = "CallableRuntimeError"
      PROVE  Inv'
  <2>1. PICK what, id : what = Payload /\ id = OpId(Top.path, Top.line)
    OBVIOUS
  <2>2. /\ Answers(id, how, what) /\ what \in Payloads /\ KindOf(Top) \in OpKinds
        /\ ops[id].status = Status /\ ops[id].replay = view[Id(Top)].replay
    BY <1>1, <1>2, <2>1, CheckpointAnswers
  <2>3. KindOf(Top) = "child"
    BY <1>1, <2>2, TopOp DEF ChildKinds, OpKinds
  <2>4. ~(ops[id].status = "SUCCEEDED" /\ ops[id].replay)
    BY <1>2, <2>2 DEF Failed
  <2>5. \A L \in LogFunctions : Backed(L, Top.path, Top.line, how, what)
    BY <2>1, <2>2, <2>3, <2>4 DEF Backed, KindOf
  <2>6. how \in Hows(KindOf(Top)) /\ how # "CheckError"
    BY <1>2, <2>3 DEF Hows
  <2> QED
    BY <1>1, <1>2, <2>1, <2>2, <2>5, <2>6, OutcomeKeeps
<1> QED
  BY <1>2 DEF ChildIsDone, Failed

-----------------------------------------------------------------------------
\* The code reads the result of a callback, or leaves a child context.

\* The code reads the result of a callback.
LEMMA ReadResultKeeps ==
  ASSUME Inv, ReadResult
  PROVE  Inv'
<1>0. TypeOK /\ Shape /\ Seen /\ Origin /\ OpsFit /\ FramesRan /\ SomeLogs
  BY DEF Inv
<1>1. pc = "run" /\ Live /\ pc \notin InOperation
  BY DEF ReadResult, Live, Resting, InOperation
<1>2. PICK n, p, m : n = Len(stack) /\ p = Top.path /\ m = Top.line
  OBVIOUS
<1>3. PICK l, f : l = m + 1 /\ f = [Top EXCEPT !.line = @ + 1]
  OBVIOUS
<1>4. PICK id : id = p \o <<Code(p)[l].of>>
  OBVIOUS
<1>5. PICK cb : cb = view[id]
  OBVIOUS
<1>6. Body(Top) = Code(p)
  BY <1>2 DEF Body, Code
<1>7. m < Len(Code(p)) /\ Code(p)[l].kind = "result"
  BY <1>2, <1>3, <1>6 DEF ReadResult
<1>8. /\ n \in 1 .. Len(stack) /\ n \in Nat /\ stack # <<>> /\ Top = stack[n]
      /\ Top \in Frame /\ FrameIsIn(Top) /\ p \in Paths /\ p \in Seq(Nat) /\ m \in Nat
      /\ Len(Code(p)) \in Nat
  BY <1>0, <1>1, <1>2, TopIs, FrameFacts DEF Shape
<1>9. l \in 1 .. Len(Code(p)) /\ l - 1 = m
  BY <1>3, <1>7, <1>8
<1>10. Done(n) = m
  BY <1>1, <1>2, <1>8 DEF Done
<1>11. Ran(p, m)
  BY <1>0, <1>1, <1>2, <1>8, <1>10 DEF FramesRan
<1>12. /\ f \in Frame /\ f.path = p /\ f.line = l /\ f.parent = Top.parent /\ f.at = Top.at
       /\ f.virtual = Top.virtual /\ f.again = Top.again /\ f.log = Top.log
  <2>1. PICK g : g = Top
    OBVIOUS
  <2>2. g \in Frame /\ l \in Nat /\ f = [g EXCEPT !.line = l]
    BY <1>2, <1>3, <1>8, <2>1
  <2> QED
    BY <1>2, <2>1, <2>2 DEF Frame
<1>13. FrameIsIn(f)
  <2>1. Position(Code(p), l) = Position(Code(p), m)
    BY <1>3, <1>7, <1>8, PositionStep
  <2> QED
    BY <1>2, <1>8, <1>9, <1>12, <2>1 DEF FrameIsIn
<1>14. PICK L \in LogFunctions : GivenFits(L) /\ FramesFit(L)
  BY <1>0 DEF SomeLogs
<1>15. Top.log = L[p][m]
  BY <1>2, <1>8, <1>10, <1>14 DEF FramesFit
\* The callback was created, so that there is its operation.
<1>16. id \in DOMAIN ops
  <2>1. PICK k \in 1 .. l - 1 : Code(p)[k].kind = "callback" /\ Position(Code(p), k) = Code(p)[l].of
    BY <1>0, <1>7, <1>8, <1>9, CodeFacts
  <2>2. k \in 1 .. m /\ id = OpId(p, k)
    BY <1>4, <1>9, <2>1 DEF OpId
  <2>3. PICK g \in given : g[1] = p /\ g[2] = k
    BY <1>11, <2>2 DEF Ran
  <2>4. Backed(L, p, k, g[3], g[4])
    BY <1>14, <2>3 DEF GivenFits
  <2> QED
    BY <2>1, <2>2, <2>4 DEF Backed
<1>17. cb \in Operation
  BY <1>0, <1>1, <1>5, <1>16 DEF Seen, TypeOK
<1>18. CASE Suspend
  BY <1>18, SuspendKeeps
<1>19. ASSUME NEW how \in {"returns", "CallbackError"}, Give(f, how, cb.payload),
              stack' = Append(Below, [f EXCEPT !.log = @ \o cb.payload]),
              UNCHANGED <<program, ops, pipe, taken, crashes, polls>>,
              \/ cb.status = "SUCCEEDED" /\ how = "returns"
              \/ cb.status \in Failed /\ how = "CallbackError"
       PROVE  Inv'
  <2>1. PICK what : what = cb.payload
    OBVIOUS
  <2>2. what \in Payloads
    BY <1>17, <2>1 DEF Operation
  <2>3. /\ program' = program /\ ops' = ops /\ view' = view /\ queue' = queue /\ taken' = taken
        /\ given' = given \cup {<<p, l, how, what>>}
        /\ how \in Hows(Code(p)[l].kind)
        /\ pc' = IF how = "returns" \/ Catches(p, l) THEN "run" ELSE "raising"
    <3>1. how \in Hows(Code(p)[l].kind) /\ how # "CheckError"
      BY <1>7, <1>19 DEF Hows
    <3>2. how \in {"returns"} \cup program.catches <=> how = "returns" \/ Catches(p, l)
      BY <3>1, CaughtOrNot
    <3> QED
      BY <1>12, <1>19, <2>1, <3>1, <3>2 DEF Give, pipe
  <2>4. PICK log : log = Top.log \o what
    OBVIOUS
  <2>5. PICK h : h = [f EXCEPT !.log = log]
    OBVIOUS
  <2>6. log \in Payloads
    <3>1. Top.log \in Payloads
      BY <1>8 DEF Frame
    <3> QED
      BY <2>2, <2>4, <3>1, PayloadsClosed
  <2>7. /\ h \in Frame /\ h.path = p /\ h.line = l /\ h.parent = Top.parent /\ h.at = f.at
        /\ h.virtual = Top.virtual /\ h.again = Top.again /\ h.log = log
    BY <1>12, <2>5, <2>6 DEF Frame
  <2>8. stack' = Append(SubSeq(stack, 1, Len(stack) - 1), h)
    BY <1>12, <1>19, <2>1, <2>4, <2>5 DEF Below
  <2>9. stack \in Seq(Frame)
    BY <1>0 DEF TypeOK
  <2>10. /\ stack' \in Seq(Frame) /\ Len(stack') = n /\ stack'[n] = h
         /\ \A k \in 1 .. n - 1 : stack'[k] = stack[k]
    BY <1>2, <1>8, <2>7, <2>8, <2>9, ReplaceTop
  <2>11. FrameIsIn(h)
    BY <1>12, <1>13, <2>7 DEF FrameIsIn
  <2>12. Moves(n, h)
    BY <1>2, <1>8, <2>7, <2>10, <2>11 DEF Moves
  <2>13. Backed(L, p, l, how, what)
    <3>1. ops[id] = cb
      BY <1>0, <1>1, <1>5, <1>16, <1>19 DEF Seen, Failed
    <3>2. Answers(id, how, what)
      BY <1>16, <1>19, <2>1, <3>1 DEF Answers
    <3> QED
      BY <1>4, <1>7, <3>2 DEF Backed
  <2>14. \A i \in DOMAIN queue : \E k \in 1 .. n - 1 :
           queue[i].id = Id(stack[k]) /\ queue[i].action = "START"
    BY <1>0, <1>1, <1>2 DEF Origin, Verdict
  <2>15. /\ h.line \in 1 .. Len(Code(h.path)) /\ Ran(h.path, h.line - 1)
         /\ given' = given \cup {<<h.path, h.line, how, what>>}
         /\ Backed(L, h.path, h.line, how, what)
         /\ how \in Hows(Code(h.path)[h.line].kind)
         /\ pc' = IF how = "returns" \/ Catches(h.path, h.line) THEN "run" ELSE "raising"
    BY <1>9, <1>11, <2>3, <2>7, <2>13
  <2>16. h.log = L[h.path][h.line - 1] \o what
    <3>1. h.log = L[p][m] \o what /\ h.path = p /\ h.line - 1 = m
      BY <1>9, <1>15, <2>4, <2>7
    <3> QED
      BY <3>1
  <2> QED
    BY <1>1, <1>14, <2>2, <2>3, <2>12, <2>14, <2>15, <2>16, GiveKeeps
<1>20. \/ Suspend
       \/ \E how \in {"returns", "CallbackError"} :
            /\ Give(f, how, cb.payload)
            /\ stack' = Append(Below, [f EXCEPT !.log = @ \o cb.payload])
            /\ UNCHANGED <<program, ops, pipe, taken, crashes, polls>>
            /\ \/ cb.status = "SUCCEEDED" /\ how = "returns"
               \/ cb.status \in Failed /\ how = "CallbackError"
  <2>1. Body(Top)[Top.line + 1] = Code(p)[l]
    BY <1>2, <1>3, <1>6
  <2>2. view[Top.path \o <<Body(Top)[Top.line + 1].of>>] = cb
    BY <1>2, <1>4, <1>5, <2>1
  <2> QED
    BY <1>3, <2>2 DEF ReadResult
<1> QED
  BY <1>18, <1>19, <1>20

\* The code of a child context ends, for the code that created it.
\* What the stack is after it.
LEMMA LeaveMoves ==
  ASSUME Inv, Live, Len(stack) > 1, NEW how, Leave(how, Top.log)
  PROVE  \E n, f, g, what :
           /\ n = Len(stack) - 1 /\ g = Creator /\ what = Top.log
           /\ f = [After(Creator) EXCEPT !.log = @ \o what]
           /\ n \in 1 .. Len(stack) - 1 /\ n \in 1 .. Len(stack) /\ n \in Nat /\ n < Len(stack)
           /\ Len(stack) \in Nat /\ g = stack[n] /\ Len(stack) \in 1 .. Len(stack)
           /\ Top = stack[Len(stack)] /\ n - 1 = Len(stack) - 2
           /\ g \in Frame /\ what \in Payloads
           /\ g.line \in 1 .. Len(Code(g.path)) /\ g.path \in Paths
           /\ f \in Frame /\ f.path = g.path /\ f.parent = g.parent /\ f.line = g.line
           /\ f.at = g.at /\ f.virtual = g.virtual /\ f.again = g.again /\ f.log = g.log \o what
           /\ Moves(n, f)
<1>0. TypeOK /\ Shape
  BY DEF Inv
<1>1. PICK n, f, g, what :
        /\ n = Len(stack) - 1 /\ g = Creator /\ what = Top.log
        /\ f = [After(Creator) EXCEPT !.log = @ \o what]
  OBVIOUS
<1>2. stack' = Append(SubSeq(stack, 1, Len(stack) - 2), f)
  BY <1>1 DEF Leave
<1>3. /\ n \in 1 .. Len(stack) - 1 /\ n \in 1 .. Len(stack) /\ n \in Nat /\ n < Len(stack)
      /\ Len(stack) \in Nat /\ g = stack[n] /\ Len(stack) \in 1 .. Len(stack)
      /\ Top = stack[Len(stack)]
  <2>1. /\ Len(stack) \in 1 .. Len(stack) /\ Len(stack) \in Nat /\ Top = stack[Len(stack)]
        /\ g = stack[n]
    BY <1>0, <1>1, TopIs
  <2> QED
    BY <1>1, <2>1
<1>4. /\ g \in Frame /\ FrameIsIn(g) /\ what \in Payloads
      /\ g.line \in 1 .. Len(Code(g.path)) /\ g.path \in Paths
  BY <1>0, <1>1, <1>3, FrameFacts, CreatorFacts DEF FrameIsIn
<1>5. /\ f \in Frame /\ f.path = g.path /\ f.parent = g.parent /\ f.line = g.line
      /\ f.at = g.at /\ f.virtual = g.virtual /\ f.again = g.again /\ f.log = g.log \o what
  <2>1. f = GivenTo(g, what)
    BY <1>1 DEF GivenTo
  <2> QED
    BY <1>4, <2>1, AfterFrame
<1>6. FrameIsIn(f)
  BY <1>4, <1>5 DEF FrameIsIn
<1>7. stack \in Seq(Frame)
  BY <1>0 DEF TypeOK
<1>8. /\ stack' \in Seq(Frame) /\ Len(stack') = n /\ stack'[n] = f
      /\ \A k \in 1 .. Len(stack) - 2 : stack'[k] = stack[k]
  <2>1. n = Len(stack) - 1 /\ stack' = Append(SubSeq(stack, 1, Len(stack) - 2), f)
    BY <1>1, <1>2
  <2> QED
    BY <1>5, <1>7, <2>1, MergeTop
<1>9. n - 1 = Len(stack) - 2
  BY <1>1, <1>3
<1>10. Moves(n, f)
  BY <1>3, <1>5, <1>6, <1>8, <1>9 DEF Moves
<1> QED
  BY <1>1, <1>3, <1>4, <1>5, <1>9, <1>10

\* The code of a child context is left with an outcome for the code that created it.
LEMMA LeaveKeeps ==
  ASSUME Inv, Live, Len(stack) > 1, NEW how \in {"returns", "CallableRuntimeError"},
         Leave(how, Top.log),
         \A i \in DOMAIN queue : \E k \in 1 .. Len(stack) - 2 :
           queue[i].id = Id(stack[k]) /\ queue[i].action = "START",
         NEW L \in LogFunctions, GivenFits(L), FramesFit(L),
         Backed(L, Creator.path, Creator.line, how, Top.log)
  PROVE  Inv'
<1>0. TypeOK /\ Shape /\ FramesRan /\ Live
  BY DEF Inv
<1>1. PICK n, f, g, what :
        /\ n = Len(stack) - 1 /\ g = Creator /\ what = Top.log
        /\ f = [After(Creator) EXCEPT !.log = @ \o what]
        /\ n \in 1 .. Len(stack) - 1 /\ n \in 1 .. Len(stack) /\ n \in Nat /\ n < Len(stack)
        /\ Len(stack) \in Nat /\ g = stack[n] /\ Len(stack) \in 1 .. Len(stack)
        /\ Top = stack[Len(stack)] /\ n - 1 = Len(stack) - 2
        /\ g \in Frame /\ what \in Payloads
        /\ g.line \in 1 .. Len(Code(g.path)) /\ g.path \in Paths
        /\ f \in Frame /\ f.path = g.path /\ f.parent = g.parent /\ f.line = g.line
        /\ f.at = g.at /\ f.virtual = g.virtual /\ f.again = g.again /\ f.log = g.log \o what
        /\ Moves(n, f)
  BY LeaveMoves
<1>2. /\ program' = program /\ ops' = ops /\ view' = view /\ queue' = queue /\ taken' = taken
      /\ given' = given \cup {<<g.path, g.line, how, what>>}
      /\ pc' = IF how \in {"returns"} \cup program.catches THEN "run" ELSE "raising"
      /\ stack' = Append(SubSeq(stack, 1, Len(stack) - 2), f)
  BY <1>1 DEF Leave, Give, pipe
<1>3. /\ n \in 1 .. Len(stack) - 1 /\ n \in 1 .. Len(stack) /\ n \in Nat
      /\ g = stack[n] /\ Len(stack) \in Nat /\ n = Len(stack) - 1 /\ n - 1 = Len(stack) - 2
      /\ g.line \in 1 .. Len(Code(g.path)) /\ g = Creator /\ what = Top.log /\ what \in Payloads
  BY <1>1
<1>4. f.path = g.path /\ f.line = g.line /\ f.log = g.log \o what /\ Moves(n, f)
  BY <1>1
<1>5. what \in Payloads /\ n \in 1 .. Len(stack)
  BY <1>3
\* A child context ends with the errors of any operation but the check of a condition.
<1>6. how \in Hows(Code(f.path)[f.line].kind) /\ how # "CheckError"
  <2>1. KindOf(g) \in ChildKinds
    BY <1>0, <1>3, CreatorFacts DEF IsChildOf
  <2>2. Code(f.path)[f.line].kind # "result"
    BY <1>4, <2>1 DEF KindOf, ChildKinds
  <2> QED
    BY <2>2 DEF Hows
<1>7. pc' = IF how = "returns" \/ Catches(f.path, f.line) THEN "run" ELSE "raising"
  <2>1. PICK p, l : p = f.path /\ l = f.line
    OBVIOUS
  <2>2. how \in {"returns"} \cup program.catches <=> how = "returns" \/ Catches(p, l)
    BY <1>6, <2>1, CaughtOrNot
  <2> QED
    BY <1>2, <2>1, <2>2
<1>10. Moves(n, f)
  BY <1>4
<1>11. Done(n) = g.line - 1
  BY <1>3 DEF Done
<1>12. Ran(g.path, g.line - 1)
  BY <1>0, <1>3, <1>11 DEF FramesRan
<1>13. g.log = L[g.path][g.line - 1]
  BY <1>3, <1>11 DEF FramesFit
<1>14. /\ f.line \in 1 .. Len(Code(f.path)) /\ Ran(f.path, f.line - 1)
       /\ given' = given \cup {<<f.path, f.line, how, what>>}
       /\ Backed(L, f.path, f.line, how, what)
       /\ f.log = L[f.path][f.line - 1] \o what
  BY <1>2, <1>3, <1>4, <1>12, <1>13
<1>15. \A k \in 1 .. n - 1 : ~(k = Len(stack) - 1 /\ pc \in {"closing", "failing"})
  BY <1>3
<1>16. \A i \in DOMAIN queue : \E k \in 1 .. n - 1 :
         queue[i].id = Id(stack[k]) /\ queue[i].action = "START"
  BY <1>3
<1> QED
  BY <1>2, <1>5, <1>6, <1>7, <1>10, <1>14, <1>15, <1>16, GiveKeeps

\* A context that reports nothing, or is run again, has no update in the queue.
LEMMA NoneOfReported ==
  ASSUME Inv, Len(stack) > 1, pc \in {"run", "raising"}, Reported
  PROVE  \A i \in DOMAIN queue : \E k \in 1 .. Len(stack) - 2 :
           queue[i].id = Id(stack[k]) /\ queue[i].action = "START"
<1>0. TypeOK /\ Shape /\ Origin /\ Open /\ Acceptable
  BY DEF Inv
<1>1. PICK n : n = Len(stack) - 1
  OBVIOUS
<1>2. /\ n \in 1 .. Len(stack) - 1 /\ n \in 1 .. Len(stack) /\ n \in Nat /\ Len(stack) \in Nat
      /\ Creator = stack[n] /\ Top = stack[n + 1] /\ KindOf(Creator) \in ChildKinds
      /\ Top.virtual <=> KindOf(Creator) = "virtual"
  <2>1. Len(stack) \in Nat
    BY <1>0 DEF TypeOK
  <2> QED
    BY <1>1, <2>1, RunningChild
<1>3. SUFFICES ASSUME NEW i \in DOMAIN queue
               PROVE  \E k \in 1 .. Len(stack) - 2 :
                        queue[i].id = Id(stack[k]) /\ queue[i].action = "START"
  OBVIOUS
<1>4. PICK k \in 1 .. Len(stack) - 1 : queue[i].id = Id(stack[k]) /\ queue[i].action = "START"
  BY <1>0 DEF Origin, Verdict
<1>5. ASSUME k = n PROVE FALSE
  <2>1. PICK c : c = Id(stack[n])
    OBVIOUS
  <2>2. queue[i].id = c /\ queue[i].kind = KindOf(Creator) /\ queue[i] \in Update
    <3>1. PICK j \in 1 .. Len(stack) :
            queue[i].id = Id(stack[j]) /\ queue[i].kind = KindOf(stack[j])
      BY UpdateIsOf
    <3>2. j = n
      BY <1>0, <1>2, <1>4, <1>5, <3>1, FramesDiffer
    <3> QED
      BY <1>2, <1>4, <1>5, <2>1, <3>1, <3>2, UpdateIsOf
  <2>3. KindOf(Creator) = "child" /\ ~Top.virtual
    BY <1>2, <2>2 DEF Update, OpKinds, ChildKinds
  <2>4. Top.again
    BY <2>3 DEF Reported
  <2>5. c \in DOMAIN ops /\ ops[c].status = "SUCCEEDED"
    <3>1. ChildIsOpen(n)
      BY <1>0, <1>2, <2>3 DEF Open
    <3> QED
      BY <1>2, <2>1, <2>4, <3>1 DEF ChildIsOpen
  <2>6. First(i)
    <3>1. ASSUME NEW j \in 1 .. i - 1, queue[j].id = queue[i].id PROVE FALSE
      <4>1. Follows(j, i)
        BY <1>0, <3>1 DEF Acceptable, AcceptableAt
      <4> QED
        BY <1>4, <4>1 DEF Follows
    <3> QED
      BY <3>1 DEF First
  <2>7. ops[c].status \in Accepted[queue[i].kind][queue[i].action]
    BY <1>0, <2>2, <2>5, <2>6 DEF Acceptable, AcceptableAt
  <2> QED
    BY <1>4, <2>2, <2>3, <2>7 DEF Accepted
<1>6. k \in 1 .. Len(stack) - 2
  BY <1>1, <1>2, <1>5
<1> QED
  BY <1>4, <1>6

\* The code of a virtual context, or of one that is run again, returns.
LEMMA LeaveChildKeeps ==
  ASSUME Inv, LeaveChild
  PROVE  Inv'
<1>0. TypeOK /\ Shape /\ Open /\ FramesRan /\ SomeLogs
  BY DEF Inv
<1>1. /\ Len(stack) > 1 /\ pc = "run" /\ Reported /\ Leave("returns", Top.log)
      /\ Top.line = Len(Body(Top)) /\ pc \in {"run", "raising"} /\ pc \notin InOperation
  BY DEF LeaveChild, AtEnd, InOperation
<1>2. /\ Live /\ Len(stack) \in 1 .. Len(stack) /\ Top = stack[Len(stack)]
      /\ KindOf(Creator) \in ChildKinds /\ Id(Creator) = Top.path
      /\ Len(stack) - 1 \in 1 .. Len(stack) - 1 /\ Creator = stack[Len(stack) - 1]
      /\ Top.virtual <=> KindOf(Creator) = "virtual"
  BY <1>1, RunningChild
<1>3. PICK p, l, id, line : p = Creator.path /\ l = Creator.line /\ id = Top.path /\ line = Top.line
  OBVIOUS
<1>4. OpId(p, l) = id /\ KindOf(Creator) = Code(p)[l].kind
  <2>1. Id(Creator) = OpId(Creator.path, Creator.line)
    BY <1>0, <1>1, <1>2, RunningChild, FrameFacts
  <2> QED
    BY <1>2, <1>3, <2>1 DEF KindOf
<1>5. Done(Len(stack)) = line /\ line = Len(Code(id))
  BY <1>1, <1>2, <1>3 DEF Done, Body, Code
<1>6. RanToEnd(id)
  <2>1. Ran(id, line)
    BY <1>0, <1>1, <1>2, <1>3, <1>5 DEF FramesRan
  <2>2. id \in Paths
    BY <1>0, <1>2, <1>3, FrameFacts
  <2> QED
    BY <1>5, <2>1, <2>2 DEF RanToEnd
<1>7. PICK L \in LogFunctions : GivenFits(L) /\ FramesFit(L)
  BY <1>0 DEF SomeLogs
<1>8. Top.log = L[id][Len(Code(id))]
  BY <1>2, <1>3, <1>5, <1>7 DEF FramesFit
<1>9. Backed(L, p, l, "returns", Top.log)
  <2>1. CASE KindOf(Creator) = "virtual"
    BY <1>4, <1>6, <1>8, <2>1 DEF Backed
  <2>2. CASE KindOf(Creator) # "virtual"
    <3>1. KindOf(Creator) = "child" /\ ~Top.virtual /\ Top.again
      BY <1>1, <1>2, <2>2 DEF ChildKinds, Reported
    <3>2. PICK n : n = Len(stack) - 1
      OBVIOUS
    <3>3. n \in 1 .. Len(stack) - 1 /\ Top = stack[n + 1] /\ Id(stack[n]) = id
      <4>1. Len(stack) \in Nat
        BY <1>0 DEF TypeOK
      <4> QED
        BY <1>2, <1>3, <3>2, <4>1
    <3>4. ChildIsOpen(n)
      BY <1>0, <3>1, <3>3 DEF Open
    <3>5. id \in DOMAIN ops /\ ops[id].status = "SUCCEEDED" /\ ops[id].replay
      BY <3>1, <3>3, <3>4 DEF ChildIsOpen
    <3> QED
      BY <1>4, <1>8, <3>1, <3>5 DEF Backed
  <2> QED
    BY <2>1, <2>2
<1>10. \A i \in DOMAIN queue : \E k \in 1 .. Len(stack) - 2 :
         queue[i].id = Id(stack[k]) /\ queue[i].action = "START"
  BY <1>1, NoneOfReported
<1> QED
  BY <1>1, <1>2, <1>3, <1>7, <1>9, <1>10, LeaveKeeps

\* The error of a child context: a virtual one passes it on, of another there is the FAIL.
LEMMA FailedChildKeeps ==
  ASSUME Inv, FailedChild
  PROVE  Inv'
<1>0. TypeOK /\ Shape /\ Open /\ FramesRan /\ SomeLogs
  BY DEF Inv
<1>1. Leave("CallableRuntimeError", Top.log) /\ Live /\ Len(stack) > 1 /\ pc \in {"raising", "failing"}
      /\ pc \notin InOperation
  BY <1>0 DEF FailedChild, Live, Resting, Shape, InOperation
<1>2. PICK n : n = Len(stack) - 1
  OBVIOUS
<1>3. /\ Len(stack) \in 1 .. Len(stack) /\ Len(stack) \in Nat /\ Top = stack[Len(stack)]
      /\ n \in 1 .. Len(stack) - 1 /\ n \in 1 .. Len(stack) /\ Creator = stack[n]
      /\ Top = stack[n + 1]
  <2>1. Len(stack) \in Nat
    BY <1>0 DEF TypeOK
  <2>2. Len(stack) \in 1 .. Len(stack) /\ Top = stack[Len(stack)] /\ Creator = stack[n]
    BY <1>0, <1>1, <1>2, TopIs
  <2> QED
    BY <1>1, <1>2, <2>1, <2>2
<1>4. /\ IsChildOf(Top, Creator) /\ Id(Creator) = OpId(Creator.path, Creator.line)
      /\ Top.path = OpId(Creator.path, Creator.line)
  BY <1>0, <1>3, CreatorFacts, FrameFacts
<1>5. PICK p, l, id, line : p = Creator.path /\ l = Creator.line /\ id = Top.path /\ line = Top.line
  OBVIOUS
<1>6. /\ OpId(p, l) = id /\ Id(Creator) = id /\ KindOf(Creator) = Code(p)[l].kind
      /\ KindOf(Creator) \in ChildKinds
      /\ Top.virtual <=> KindOf(Creator) = "virtual"
  <2>1. OpId(p, l) = id /\ Id(Creator) = id /\ KindOf(Creator) = Code(p)[l].kind
    BY <1>4, <1>5 DEF KindOf
  <2>2. KindOf(Creator) \in ChildKinds /\ Top.virtual = (KindOf(Creator) = "virtual")
    BY <1>4 DEF IsChildOf
  <2> QED
    BY <2>1, <2>2
<1>7. PICK L \in LogFunctions : GivenFits(L) /\ FramesFit(L)
  BY <1>0 DEF SomeLogs
<1>8. CASE pc = "raising" /\ Top.virtual
  <2>1. Raises(id, line) /\ line > 0
    BY <1>0, <1>3, <1>5, <1>8 DEF FramesRan
  <2>2. line \in 1 .. Len(Code(id))
    <3>1. FrameIsIn(Top) /\ line \in Nat
      BY <1>0, <1>3, <1>5, FrameFacts
    <3> QED
      BY <1>5, <2>1, <3>1 DEF FrameIsIn
  <2>3. Done(Len(stack)) = line
    BY <1>1, <1>3, <1>5 DEF Done
  <2>4. Top.log = L[id][line]
    BY <1>3, <1>5, <1>7, <2>3 DEF FramesFit
  <2>5. Backed(L, p, l, "CallableRuntimeError", Top.log)
    <3>1. \E k \in 1 .. Len(Code(id)) : Raises(id, k) /\ Top.log = L[id][k]
      BY <2>1, <2>2, <2>4
    <3>2. Code(p)[l].kind = "virtual" /\ OpId(p, l) = id
      BY <1>6, <1>8
    <3> QED
      BY <3>1, <3>2 DEF Backed
  <2>6. \A i \in DOMAIN queue : \E k \in 1 .. Len(stack) - 2 :
          queue[i].id = Id(stack[k]) /\ queue[i].action = "START"
    BY <1>1, <1>8, NoneOfReported DEF Reported
  <2> QED
    BY <1>1, <1>5, <1>7, <2>5, <2>6, LeaveKeeps
<1>9. CASE pc = "failing" /\ queue = <<>>
  <2>1. KindOf(Creator) = "child"
    <3>1. ~Top.virtual
      BY <1>0, <1>9 DEF Shape
    <3> QED
      BY <1>6, <3>1 DEF ChildKinds
  <2>2. /\ id \in DOMAIN ops /\ ops[id].status = "FAILED"
        /\ ops[id].replay \/ Top.log = ops[id].payload
    BY <1>0, <1>6, <1>9 DEF Open, Told, StatusAfter
  <2>3. ~ops[id].replay
    BY <1>0, <2>2 DEF Open, Failed
  <2>4. Answers(id, "CallableRuntimeError", Top.log)
    BY <2>2, <2>3 DEF Answers, Failed
  <2>5. Backed(L, p, l, "CallableRuntimeError", Top.log)
    BY <1>6, <2>1, <2>2, <2>4 DEF Backed
  <2> QED
    BY <1>1, <1>5, <1>7, <1>9, <2>5, LeaveKeeps
<1> QED
  BY <1>8, <1>9 DEF FailedChild

\* The SUCCEED of a child context has been applied.
LEMMA ClosedChildKeeps ==
  ASSUME Inv, ClosedChild
  PROVE  Inv'
<1>0. TypeOK /\ Shape /\ Open /\ FramesRan /\ SomeLogs
  BY DEF Inv
<1>1. /\ Leave("returns", Top.log) /\ pc = "closing" /\ queue = <<>> /\ Live
      /\ Len(stack) > 1 /\ ~Top.virtual /\ Top.line = Len(Code(Top.path)) /\ pc \notin InOperation
  BY <1>0 DEF ClosedChild, Live, Resting, Shape, InOperation
<1>2. PICK n : n = Len(stack) - 1
  OBVIOUS
<1>3. /\ Len(stack) \in 1 .. Len(stack) /\ Len(stack) \in Nat /\ Top = stack[Len(stack)]
      /\ n \in 1 .. Len(stack) - 1 /\ n \in 1 .. Len(stack) /\ Creator = stack[n]
      /\ Top = stack[n + 1]
  <2>1. Len(stack) \in Nat
    BY <1>0 DEF TypeOK
  <2>2. Len(stack) \in 1 .. Len(stack) /\ Top = stack[Len(stack)] /\ Creator = stack[n]
    BY <1>0, <1>1, <1>2, TopIs
  <2> QED
    BY <1>1, <1>2, <2>1, <2>2
<1>4. /\ IsChildOf(Top, Creator) /\ Id(Creator) = OpId(Creator.path, Creator.line)
      /\ Top.path = OpId(Creator.path, Creator.line)
  BY <1>0, <1>3, CreatorFacts, FrameFacts
<1>5. PICK p, l, id : p = Creator.path /\ l = Creator.line /\ id = Top.path
  OBVIOUS
<1>6. /\ OpId(p, l) = id /\ Id(Creator) = id /\ KindOf(Creator) = Code(p)[l].kind
      /\ KindOf(Creator) = "child"
  <2>1. KindOf(Creator) \in ChildKinds /\ Top.virtual = (KindOf(Creator) = "virtual")
    BY <1>4 DEF IsChildOf
  <2> QED
    BY <1>1, <1>4, <1>5, <2>1 DEF KindOf, ChildKinds
<1>7. PICK L \in LogFunctions : GivenFits(L) /\ FramesFit(L)
  BY <1>0 DEF SomeLogs
<1>8. Top.log = L[id][Len(Code(id))]
  <2>1. Done(Len(stack)) = Top.line
    BY <1>1, <1>3 DEF Done
  <2> QED
    BY <1>1, <1>3, <1>5, <1>7, <2>1 DEF FramesFit
<1>9. /\ id \in DOMAIN ops /\ ops[id].status = "SUCCEEDED"
      /\ ops[id].replay \/ Top.log = ops[id].payload
  BY <1>0, <1>1, <1>6 DEF Open, Told, StatusAfter
<1>10. Backed(L, p, l, "returns", Top.log)
  <2>1. CASE ops[id].replay
    BY <1>6, <1>8, <1>9, <2>1 DEF Backed
  <2>2. CASE ~ops[id].replay
    <3>1. Answers(id, "returns", Top.log)
      BY <1>9, <2>2 DEF Answers
    <3> QED
      BY <1>6, <2>2, <3>1 DEF Backed
  <2> QED
    BY <2>1, <2>2
<1> QED
  BY <1>1, <1>5, <1>7, <1>10, LeaveKeeps

-----------------------------------------------------------------------------
\* The theorems.

\* Nothing has been recorded, and no invocation runs.
LEMMA InitInv ==
  ASSUME Init
  PROVE  Inv
<1>1. /\ program \in Programs /\ ops = <<>> /\ view = <<>> /\ queue = <<>> /\ stack = <<>>
      /\ pc = "down" /\ taken = [attempt |-> 0, payload |-> None] /\ given = {}
  BY DEF Init
<1>2. /\ DOMAIN ops = {} /\ DOMAIN view = {} /\ DOMAIN queue = {} /\ Len(stack) = 0
      /\ 1 .. Len(stack) = {} /\ ~Live
  BY <1>1 DEF Live, Resting
<1>3. TypeOK
  <2>1. taken \in [attempt : Nat, payload : Payloads]
    BY <1>1, PayloadsClosed
  <2>2. ops \in [DOMAIN ops -> Operation] /\ view \in [DOMAIN view -> Operation]
    BY <1>1, <1>2
  <2>3. queue \in Seq(Update) /\ stack \in Seq(Frame)
    BY <1>1
  <2> QED
    BY <1>1, <1>2, <2>1, <2>2, <2>3 DEF TypeOK, Resting
<1>4. Shape
  <2>1. 1 .. Len(stack) - 1 = {}
    BY <1>2
  <2> QED
    BY <1>1, <1>2, <2>1 DEF Shape, InOperation
<1>5. Parents /\ OpsFit /\ Seen /\ Acceptable /\ Origin
  BY <1>1, <1>2 DEF Parents, OpsFit, Seen, Acceptable, AcceptableAt, Origin
<1>6. Open
  <2>1. 1 .. Len(stack) - 1 = {}
    BY <1>2
  <2> QED
    BY <1>1, <1>2, <2>1 DEF Open
<1>7. GivenInOrder /\ FramesRan /\ ChildrenRan /\ Agree
  BY <1>1, <1>2 DEF GivenInOrder, FramesRan, ChildrenRan, Agree
<1>8. SomeLogs
  <2>1. PICK L : L = [p \in Seq(Nat) |-> [n \in Nat |-> <<>>]]
    OBVIOUS
  <2>2. L \in LogFunctions
    BY <2>1, PayloadsClosed DEF LogFunctions
  <2>3. \A p \in Paths : L[p][0] = <<>>
    BY <1>3, <2>1, CodeFacts
  <2>4. GivenFits(L) /\ FramesFit(L)
    BY <1>1, <1>2, <2>3 DEF GivenFits, FramesFit
  <2> QED
    BY <2>2, <2>4 DEF SomeLogs
<1> QED
  BY <1>3, <1>4, <1>5, <1>6, <1>7, <1>8 DEF Inv

\* Nothing happens.
LEMMA StutterKeeps ==
  ASSUME Inv, UNCHANGED vars
  PROVE  Inv'
<1>1. /\ program' = program /\ ops' = ops /\ view' = view /\ queue' = queue /\ stack' = stack
      /\ pc' = pc /\ taken' = taken /\ given' = given
  BY DEF vars, pipe, thread, history
<1>2. OpsGrow /\ Recorded'
  BY <1>1, SameRecord
<1>3. /\ Shape' /\ Parents' /\ OpsFit' /\ Origin' /\ GivenInOrder' /\ Agree'
      /\ FramesRan' /\ ChildrenRan' /\ SomeLogs'
  BY <1>1, <1>2, ThreadStays
<1>4. TypeOK'
  BY <1>1 DEF Inv, TypeOK
<1>5. Seen'
  BY <1>1 DEF Inv, Seen, Live
<1>6. Acceptable'
  BY <1>1 DEF Inv, Acceptable, AcceptableAt, Follows, First
<1>7. Open'
  <2>1. Open
    BY DEF Inv
  <2>2. /\ \A k : Id(stack[k])' = Id(stack[k])
        /\ Top' = Top /\ Id(Top)' = Id(Top) /\ Id(Creator)' = Id(Creator)
    BY <1>1 DEF Id, Top, Creator
  <2>3. \A x : (Queued(x)' <=> Queued(x)) /\ \A kind : IsStarted(x, kind)' <=> IsStarted(x, kind)
    BY <1>1 DEF Queued, IsStarted
  <2>4. \A k : ChildIsOpen(k)' <=> ChildIsOpen(k)
    BY <1>1, <2>2, <2>3 DEF ChildIsOpen
  <2>5. \A x, action, payload : Told(x, action, payload)' <=> Told(x, action, payload)
    BY <1>1 DEF Told
  <2>6. PICK top, creator : top = Id(Top) /\ creator = Id(Creator)
    OBVIOUS
  <2>7. /\ pc = "checking" => IsStarted(top, "condition")'
        /\ pc = "met" => Told(top, "SUCCEED", taken.payload)'
        /\ pc = "broken" => Told(top, "FAIL", <<"boom">>)'
        /\ pc = "closing" => Told(creator, "SUCCEED", Top.log)'
        /\ pc = "failing" => Told(creator, "FAIL", Top.log)'
    BY <1>1, <2>1, <2>2, <2>3, <2>5, <2>6 DEF Open
  <2>8. (\A k \in 1 .. Len(stack) - 1 : ~stack[k + 1].virtual =>
          /\ ChildIsOpen(k)
          /\ Id(stack[k]) \in DOMAIN ops => ops[Id(stack[k])].kind = "child"
          /\ Id(stack[k]) \in DOMAIN ops \/ Queued(Id(stack[k])))'
    <3> SUFFICES ASSUME NEW k \in 1 .. Len(stack) - 1, ~stack[k + 1].virtual
        PROVE  (/\ ChildIsOpen(k)
                /\ Id(stack[k]) \in DOMAIN ops => ops[Id(stack[k])].kind = "child"
                /\ Id(stack[k]) \in DOMAIN ops \/ Queued(Id(stack[k])))'
      BY <1>1
    <3>1. PICK c : c = Id(stack[k])
      OBVIOUS
    <3>2. /\ ChildIsOpen(k)
          /\ c \in DOMAIN ops => ops[c].kind = "child"
          /\ c \in DOMAIN ops \/ Queued(c)
      BY <2>1, <3>1 DEF Open
    <3>3. c = Id(stack[k])'
      BY <2>2, <3>1
    <3> QED
      BY <1>1, <2>3, <2>4, <3>2, <3>3
  <2> QED
    BY <1>1, <2>1, <2>2, <2>6, <2>7, <2>8 DEF Open
<1> QED
  BY <1>3, <1>4, <1>5, <1>6, <1>7 DEF Inv

\* Every step keeps the invariant, of a program that does not tell a check's errors apart.
LEMMA NextKeeps ==
  ASSUME Inv, ErrorsAlike, [Next]_vars
  PROVE  Inv'
<1>1. CASE \E id \in DOMAIN ops : Complete(id)
  BY <1>1, CompleteKeeps
<1>2. CASE Send
  BY <1>2, SendKeeps
<1>3. CASE Invoke
  BY <1>3, InvokeKeeps
<1>4. CASE Crash
  BY <1>4, CrashKeeps
<1>5. CASE Step
  <2>1. CASE Call
    BY <2>1, CallKeeps
  <2>2. CASE Started
    BY <2>2, StartedKeeps
  <2>3. CASE Wait
    BY <2>3, WaitKeeps
  <2>4. CASE ChainedInvoke
    BY <2>4, ChainedInvokeKeeps
  <2>5. CASE CreateCallback
    BY <2>5, CreateCallbackKeeps
  <2>6. CASE ReadResult
    BY <2>6, ReadResultKeeps
  <2>7. CASE ConditionIsDone
    BY <2>7, ConditionIsDoneKeeps
  <2>8. CASE BeginCheck
    BY <2>8, BeginCheckKeeps
  <2>9. CASE Check
    BY <2>9, CheckKeeps
  <2>10. CASE Checked
    BY <2>10, CheckedKeeps
  <2>11. CASE ChildIsDone
    BY <2>11, ChildIsDoneKeeps
  <2>12. CASE EnterChild
    BY <2>12, EnterChildKeeps
  <2>13. CASE LeaveChild
    BY <2>13, LeaveChildKeeps
  <2>14. CASE CloseChild
    BY <2>14, CloseChildKeeps
  <2>15. CASE ClosedChild
    BY <2>15, ClosedChildKeeps
  <2>16. CASE FailChild
    BY <2>16, FailChildKeeps
  <2>17. CASE FailedChild
    BY <2>17, FailedChildKeeps
  <2>18. CASE EndHandler
    BY <2>18, EndHandlerKeeps
  <2> QED
    BY <1>5, <2>1, <2>2, <2>3, <2>4, <2>5, <2>6, <2>7, <2>8, <2>9, <2>10, <2>11, <2>12, <2>13,
       <2>14, <2>15, <2>16, <2>17, <2>18 DEF Step
<1>6. CASE UNCHANGED vars
  BY <1>6, StutterKeeps
<1> QED
  BY <1>1, <1>2, <1>3, <1>4, <1>5, <1>6 DEF Next

\* The handler of an execution is the same in all its invocations.
LEMMA ProgramStays ==
  ASSUME [Next]_vars
  PROVE  program' = program /\ (ErrorsAlike' <=> ErrorsAlike)
<1> SUFFICES program' = program
  BY DEF ErrorsAlike
<1>1. CASE \E id \in DOMAIN ops : Complete(id)
  BY <1>1 DEF Complete
<1>2. CASE Send
  BY <1>2 DEF Send
<1>3. CASE Invoke
  BY <1>3 DEF Invoke
<1>4. CASE Crash
  BY <1>4 DEF Crash, Dies
<1>5. CASE UNCHANGED vars
  BY <1>5 DEF vars
<1>6. CASE Step
  <2>1. \A how, what : Outcome(how, what) \/ Leave(how, what) => program' = program
    BY DEF Outcome, Leave
  <2>2. \A kind : StartAndCheck(kind) \/ Suspend => program' = program
    BY DEF StartAndCheck, Suspend
  <2>3. CASE Wait \/ ChainedInvoke \/ CreateCallback
    BY <2>1, <2>2, <2>3 DEF Wait, ChainedInvoke, CreateCallback
  <2>4. CASE ConditionIsDone \/ Checked \/ ChildIsDone
    BY <2>1, <2>2, <2>4 DEF ConditionIsDone, Checked, ChildIsDone
  <2>5. CASE LeaveChild \/ ClosedChild \/ FailedChild
    BY <2>1, <2>5 DEF LeaveChild, ClosedChild, FailedChild
  <2>6. CASE ReadResult
    BY <2>2, <2>6 DEF ReadResult
  <2>7. CASE Call \/ Started \/ EndHandler \/ FailChild
    BY <2>7 DEF Call, Started, EndHandler, FailChild
  <2>8. CASE BeginCheck \/ Check
    BY <2>8 DEF BeginCheck, Check
  <2>9. CASE EnterChild \/ CloseChild
    BY <2>9 DEF EnterChild, CloseChild
  <2> QED
    BY <1>6, <2>3, <2>4, <2>5, <2>6, <2>7, <2>8, <2>9 DEF Step
<1> QED
  BY <1>1, <1>2, <1>3, <1>4, <1>5, <1>6 DEF Next

\* The contexts of a handler that does not tell a check's errors apart, what is in the pipeline
\* and what the service has recorded fit together in every invocation: the invariant that the
\* theorems below rest on.
THEOREM ContextsAreSound == Spec => [](ErrorsAlike => Inv)
<1>1. Init => (ErrorsAlike => Inv)
  BY InitInv
<1>2. (ErrorsAlike => Inv) /\ [Next]_vars => (ErrorsAlike => Inv)'
  BY NextKeeps, ProgramStays
<1> QED
  BY <1>1, <1>2, PTL DEF Spec

\* Every invocation gives the code of such a handler the same at the same point, but for the
\* class of a check's error, whatever the service completes between them and wherever an
\* invocation dies (ExecutionState's replay).
THEOREM InvocationsAgree == Spec => []OutcomesAgree
<1>1. (ErrorsAlike => Inv) => OutcomesAgree
  <2> SUFFICES ASSUME Inv, NEW g \in given, NEW h \in given, g[1] = h[1], g[2] = h[2]
               PROVE  g[4] = h[4] /\ SameOrError(g[3], h[3], program.body[g[1]][g[2]])
    BY DEF OutcomesAgree
  <2>1. GivenInOrder /\ Agree
    BY DEF Inv
  <2>2. PICK i : i = program.body[g[1]][g[2]]
    OBVIOUS
  <2>3. g[3] \in Hows(i.kind) /\ h[3] \in Hows(i.kind)
    BY <2>1, <2>2 DEF GivenInOrder, Code
  <2>4. g[4] = h[4] /\ (g[3] = "returns" <=> h[3] = "returns")
    BY <2>1 DEF Agree
  <2>5. CASE i.kind = "condition"
    <3>1. /\ g[3] \in {"returns", "CallableRuntimeError", "CheckError"}
          /\ h[3] \in {"returns", "CallableRuntimeError", "CheckError"}
      BY <2>3, <2>5 DEF Hows
    <3> QED
      BY <2>2, <2>4, <2>5, <3>1 DEF SameOrError
  <2>6. CASE i.kind # "condition"
    <3>1. g[3] = h[3]
      BY <2>3, <2>4, <2>6 DEF Hows
    <3> QED
      BY <2>2, <2>4, <3>1 DEF SameOrError
  <2> QED
    BY <2>5, <2>6
<1> QED
  BY <1>1, ContextsAreSound, PTL

\* The service takes every update that the contexts of such a handler queue: neither the status
\* of the operation nor its parent is one the validators refuse.
THEOREM UpdatesAreTaken == Spec => []NothingRefused
<1>1. (ErrorsAlike => Inv) => NothingRefused
  <2> SUFFICES ASSUME Inv, queue # <<>> PROVE Accepts(Head(queue))
    BY DEF NothingRefused
  <2>1. TypeOK /\ Acceptable
    BY DEF Inv
  <2>2. Head(queue) = queue[1]
    BY <2>1, QueueFacts
  <2>3. /\ queue[1].id \in DOMAIN ops =>
             ops[queue[1].id].status \in Accepted[queue[1].kind][queue[1].action]
        /\ queue[1].parent # Root =>
             queue[1].parent \in DOMAIN ops /\ ops[queue[1].parent].kind = "child"
    BY <2>1, HeadAccepted
  <2> QED
    BY <2>2, <2>3 DEF Accepts
<1> QED
  BY <1>1, ContextsAreSound, PTL

-----------------------------------------------------------------------------
\* The points of the program that the code has passed.

Passed(p, n) == \A m \in 0 .. n - 1 : <<p, m>> \in reached

\* The code of a child has only just begun.
Fresh(id) == pc = "run" /\ Top.path = id /\ Top.line = 0

OpsWereCalled ==
  \A id \in DOMAIN ops : \E p \in Paths : \E l \in 1 .. Len(Code(p)) :
    IsOp(p, l) /\ id = OpId(p, l) /\ Passed(p, l)

FramesPassed == \A k \in 1 .. Len(stack) : Passed(stack[k].path, stack[k].line)

ChildrenBegan ==
  crashes = 0 => \A id \in DOMAIN ops : ops[id].kind = "child" => <<id, 0>> \in reached \/ Fresh(id)

\* A context that replays is at a point it has passed, and has an operation to replay.
ReplaysPassed ==
  crashes = 0 /\ pc = "run" /\ ~Top.new =>
    <<Top.path, Top.line>> \in reached /\ (Top.line = 0 \/ Exists(NextId(Top)))

\* An operation at which the context still replays was called before, a condition has ended.
ReplaysOp ==
  /\ pc = "check" /\ ~Top.new =>
       /\ Exists(Id(Top))
       /\ KindOf(Top) = "condition" => view[Id(Top)].status \in Terminal
  /\ pc \in {"starting", "checking"} => Top.new

ReachInv ==
  /\ crashes \in Nat
  /\ OpsWereCalled /\ FramesPassed /\ ChildrenBegan /\ ReplaysPassed /\ ReplaysOp
  /\ ops # <<>> => <<Root, 0>> \in reached
  /\ pc = "closing" => <<Top.path, Top.line>> \in reached
  /\ pc = "starting" => KindOf(Top) \in {"wait", "invoke", "callback"}
  /\ \A p \in polls : p.new

\* A point that was passed stays passed.
LEMMA PassedGrows ==
  ASSUME reached \subseteq reached', NEW p, NEW n, Passed(p, n)
  PROVE  Passed(p, n)'
  BY DEF Passed

\* What has no operation after it.
LEMMA PositionUpTo ==
  ASSUME NEW code, NEW l \in Nat, NEW m \in Nat, l <= m
  PROVE  Position(code, l) <= Position(code, m)
<1>1. \A i, j \in Nat : 1 .. j \in SUBSET (1 .. j) /\ (i <= j => 1 .. i \subseteq 1 .. j)
  OBVIOUS
<1>2. PICK S, T : /\ S = {k \in 1 .. l : code[k].kind # "result"}
                  /\ T = {k \in 1 .. m : code[k].kind # "result"}
  OBVIOUS
<1>3. S \in SUBSET T /\ T \in SUBSET (1 .. m)
  BY <1>2
<1>4. IsFiniteSet(1 .. m)
  BY FS_Interval
<1>5. IsFiniteSet(T)
  BY <1>3, <1>4, FS_Subset
<1>6. Cardinality(S) <= Cardinality(T)
  BY <1>3, <1>5, FS_Subset
<1> QED
  BY <1>2, <1>6 DEF Position

\* An id tells the context and the position of its operation.
LEMMA IdTells ==
  ASSUME TypeOK, NEW p \in Paths, NEW q \in Paths, NEW a \in Nat, NEW l \in Nat,
         p \o <<a>> = OpId(q, l)
  PROVE  p = q /\ a = Position(Code(q), l)
<1>1. p \in Seq(Nat) /\ q \in Seq(Nat) /\ Position(Code(q), l) \in Nat
  BY CodeFacts, PositionStep
<1> QED
  BY <1>1, PathsSplit DEF OpId

\* The operation that follows a line was called, if there is one.
LEMMA NextWasPassed ==
  ASSUME Inv, ReachInv, NEW p \in Paths, NEW n \in Nat, n <= Len(Code(p)),
         NEW a \in Nat, Position(Code(p), n) < a, p \o <<a>> \in DOMAIN ops
  PROVE  \E l \in 1 .. Len(Code(p)) : l > n /\ Code(p)[l].kind # "result" /\ Passed(p, l)
<1>0. TypeOK
  BY DEF Inv
<1>11. PICK q \in Paths :
         \E l \in 1 .. Len(Code(q)) : IsOp(q, l) /\ p \o <<a>> = OpId(q, l) /\ Passed(q, l)
  BY DEF ReachInv, OpsWereCalled
<1>1. PICK l \in 1 .. Len(Code(q)) : IsOp(q, l) /\ p \o <<a>> = OpId(q, l) /\ Passed(q, l)
  BY <1>11
<1>2. p \in Seq(Nat) /\ q \in Seq(Nat) /\ Position(Code(p), n) \in Nat /\ Len(Code(q)) \in Nat
  BY <1>0, CodeFacts, PositionStep
<1>3. l \in Nat /\ Position(Code(q), l) \in Nat
  <2>1. l \in Nat
    BY <1>1, <1>2
  <2> QED
    BY <2>1, PositionStep
<1>4. PICK b : b = Position(Code(q), l)
  OBVIOUS
<1>5. p = q /\ a = b
  <2>1. p \o <<a>> = OpId(q, l) /\ q \in Paths /\ l \in Nat
    BY <1>11, <1>1, <1>3
  <2>2. p = q /\ a = Position(Code(q), l)
    BY <1>0, <2>1, IdTells
  <2> QED
    BY <1>4, <2>2
<1>6. l > n
  <2>1. CASE l <= n
    <3>1. Position(Code(p), l) <= Position(Code(p), n)
      BY <1>3, <2>1, PositionUpTo
    <3> QED
      BY <1>2, <1>3, <1>4, <1>5, <3>1
  <2> QED
    BY <1>3, <2>1
<1> QED
  BY <1>1, <1>5, <1>6 DEF IsOp

\* Every context but the innermost is past its first line.
LEMMA LowerFrames ==
  ASSUME Inv, ReachInv, NEW k \in 1 .. Len(stack) - 1
  PROVE  k \in 1 .. Len(stack) /\ stack[k].line >= 1 /\ <<stack[k].path, 0>> \in reached
<1>0. TypeOK /\ Shape
  BY DEF Inv
<1>1. k \in 1 .. Len(stack) /\ stack[k].line >= 1 /\ stack[k].line \in Nat
  BY <1>0, CreatorFacts, FrameFacts
<1>2. Passed(stack[k].path, stack[k].line)
  BY <1>1 DEF ReachInv, FramesPassed
<1>3. \A n \in Nat : n >= 1 => 0 \in 0 .. n - 1
  OBVIOUS
<1>4. PICK n : n = stack[k].line
  OBVIOUS
<1> QED
  BY <1>1, <1>2, <1>3, <1>4 DEF Passed

\* What an applied update leaves of the passed points.
LEMMA AppliedWasCalled ==
  ASSUME Inv, ReachInv, program' = program, given' = given, queue # <<>>,
         ops' = Process(Head(queue)), reached' = reached
  PROVE  /\ OpsWereCalled' /\ <<Root, 0>> \in reached
         /\ \A id \in DOMAIN ops' : ops'[id].kind = "child" =>
              \/ id \in DOMAIN ops /\ ops[id].kind = "child"
              \/ <<id, 0>> \in reached \/ Fresh(id)
<1>0. TypeOK /\ Shape
  BY DEF Inv
<1>1. /\ DOMAIN ops' = DOMAIN ops \cup {queue[1].id}
      /\ \A id \in DOMAIN ops : ops'[id].kind = ops[id].kind
      /\ ops'[queue[1].id].kind = queue[1].kind
  BY Applied
<1>2. 1 \in DOMAIN queue
  BY <1>0, QueueFacts
<1>3. PICK k \in 1 .. Len(stack) : queue[1].id = Id(stack[k]) /\ AtOp(stack[k])
                                   /\ queue[1].kind = KindOf(stack[k])
  BY <1>2, UpdateIsOf
<1>4. PICK p, l, id : p = stack[k].path /\ l = stack[k].line /\ id = queue[1].id
  OBVIOUS
<1>5. /\ IsOp(p, l) /\ id = OpId(p, l) /\ Passed(p, l) /\ l \in Nat /\ p \in Paths
      /\ Len(stack) \in Nat /\ k \in Nat
  BY <1>0, <1>3, <1>4, FrameFacts DEF ReachInv, FramesPassed
<1>6. l \in 1 .. Len(Code(p))
  BY <1>5 DEF IsOp
<1>7. OpsWereCalled'
  <2>1. ASSUME NEW x \in DOMAIN ops \cup {id}
        PROVE  \E q \in Paths : \E m \in 1 .. Len(Code(q)) :
                 IsOp(q, m) /\ x = OpId(q, m) /\ Passed(q, m)
    BY <1>4, <1>5, <1>6, <2>1 DEF ReachInv, OpsWereCalled
  <2>2. \A q, m : /\ Code(q)' = Code(q) /\ Paths' = Paths /\ (IsOp(q, m)' <=> IsOp(q, m))
                  /\ OpId(q, m)' = OpId(q, m) /\ (Passed(q, m)' <=> Passed(q, m))
    BY DEF Code, Paths, IsOp, OpId, Passed
  <2> QED
    BY <1>1, <1>4, <2>1, <2>2 DEF OpsWereCalled
<1>8. <<Root, 0>> \in reached
  <2>1. CASE k = 1
    <3>1. p = Root
      BY <1>0, <1>4, <1>5, <2>1 DEF Shape
    <3>2. 0 \in 0 .. l - 1
      BY <1>5, <1>6
    <3> QED
      BY <1>5, <3>1, <3>2 DEF Passed
  <2>2. CASE k # 1
    <3>1. 1 \in 1 .. Len(stack) - 1
      BY <1>5, <2>2
    <3>2. stack[1].path = Root
      BY <1>0, <1>5, <2>2 DEF Shape
    <3> QED
      BY <3>1, <3>2, LowerFrames
  <2> QED
    BY <2>1, <2>2
<1>9. ASSUME queue[1].kind = "child" PROVE <<id, 0>> \in reached \/ Fresh(id)
  <2>1. k # Len(stack)
    <3>1. ASSUME k = Len(stack) PROVE FALSE
      <4>1. Top = stack[k]
        BY <3>1 DEF Top
      <4>2. \/ \E j \in 1 .. Len(stack) - 1 : queue[1].id = Id(stack[j])
            \/ pc \in {"starting", "checking"} \cup Verdict
        BY <1>2 DEF Inv, Origin
      <4>3. pc \in {"starting", "checking"} \cup Verdict
        <5>1. ASSUME NEW j \in 1 .. Len(stack) - 1, queue[1].id = Id(stack[j]) PROVE FALSE
          <6>1. j \in 1 .. Len(stack) /\ j # k
            BY <1>5, <3>1, <5>1
          <6> QED
            BY <1>0, <1>3, <5>1, <6>1, FramesDiffer
        <5> QED
          BY <4>2, <5>1
      <4>4. KindOf(Top) \in {"wait", "invoke", "callback", "condition"}
        BY <1>0, <4>3 DEF ReachInv, Shape, Verdict
      <4> QED
        BY <1>3, <1>9, <4>1, <4>4
    <3> QED
      BY <3>1
  <2>2. k \in 1 .. Len(stack) - 1 /\ k + 1 \in 1 .. Len(stack)
    BY <1>5, <2>1
  <2>3. stack[k + 1].path = id
    BY <1>0, <1>4, <1>5, <2>2, CreatorFacts
  <2>4. CASE k + 1 # Len(stack)
    <3>1. k + 1 \in 1 .. Len(stack) - 1
      BY <1>5, <2>2, <2>4
    <3> QED
      BY <2>3, <3>1, LowerFrames
  <2>5. CASE k + 1 = Len(stack)
    <3>1. Top = stack[k + 1] /\ Top.path = id
      BY <2>3, <2>5 DEF Top
    <3>2. Passed(id, Top.line) /\ Top.line \in Nat
      BY <1>0, <2>2, <2>3, <3>1, FrameFacts DEF ReachInv, FramesPassed
    <3>3. CASE Top.line > 0
      <4>1. 0 \in 0 .. Top.line - 1
        BY <3>2, <3>3
      <4> QED
        BY <3>2, <4>1 DEF Passed
    <3>4. CASE Top.line = 0
      <4>1. pc \in {"run", "closing"}
        <5>1. pc \notin InOperation
          BY <1>0, <3>4 DEF Shape, AtOp
        <5>2. pc \notin {"raising", "failing"}
          BY <1>0, <2>2, <2>5, <3>1, <3>4 DEF Inv, FramesRan
        <5>3. Live
          <6>1. stack # <<>>
            BY <1>0, <1>3 DEF TypeOK
          <6> QED
            BY <1>0, <6>1 DEF Shape
        <5> QED
          BY <1>0, <5>1, <5>2, <5>3 DEF TypeOK, Live
      <4>2. CASE pc = "run"
        BY <3>1, <3>4, <4>2 DEF Fresh
      <4>3. CASE pc = "closing"
        BY <3>1, <3>4, <4>3 DEF ReachInv
      <4> QED
        BY <4>1, <4>2, <4>3
    <3> QED
      BY <3>2, <3>3, <3>4
  <2> QED
    BY <2>4, <2>5
<1> QED
  BY <1>1, <1>4, <1>7, <1>8, <1>9

\* The operation after a line of a running context was called, if there is one, and with it
\* all lines before it.
LEMMA NextIsBehind ==
  ASSUME Inv, ReachInv, NEW k \in 1 .. Len(stack), NextId(stack[k]) \in DOMAIN ops
  PROVE  LET g == stack[k]
         IN \E l \in 1 .. Len(Code(g.path)) :
              l > g.line /\ Code(g.path)[l].kind # "result" /\ Passed(g.path, l)
<1>0. TypeOK /\ Shape
  BY DEF Inv
<1>1. PICK g : g = stack[k]
  OBVIOUS
<1>2. /\ g.path \in Paths /\ g.line \in Nat /\ g.at \in Nat /\ FrameIsIn(g)
      /\ Len(Code(g.path)) \in Nat
  BY <1>0, <1>1, FrameFacts
<1>3. PICK p, n, a : p = g.path /\ n = g.line /\ a = g.at + 1
  OBVIOUS
<1>4. a \in Nat /\ Position(Code(p), n) < a /\ p \o <<a>> \in DOMAIN ops
      /\ p \in Paths /\ n \in Nat /\ n <= Len(Code(p))
  <2>1. Position(Code(p), n) = g.at
    BY <1>2, <1>3 DEF FrameIsIn
  <2>2. a \in Nat /\ Position(Code(p), n) < a
    BY <1>2, <1>3, <2>1
  <2>3. p \o <<a>> \in DOMAIN ops
    BY <1>1, <1>3 DEF NextId
  <2>4. n <= Len(Code(p))
    BY <1>2, <1>3 DEF FrameIsIn
  <2> QED
    BY <1>2, <1>3, <2>2, <2>3, <2>4
<1>5. \E l \in 1 .. Len(Code(p)) : l > n /\ Code(p)[l].kind # "result" /\ Passed(p, l)
  BY <1>4, NextWasPassed
<1> QED
  BY <1>1, <1>3, <1>5

\* The thread goes on in a context that runs, past what it has just called.
LEMMA FramesGoOn ==
  ASSUME ReachInv, reached \subseteq reached', NEW n, NEW f, Moves(n, f), n \in Nat,
         \A m \in 0 .. f.line - 1 : <<f.path, m>> \in reached'
  PROVE  FramesPassed' /\ Top' = f
<1>1. Len(stack') = n /\ stack'[n] = f /\ n \in 1 .. Len(stack)
  BY DEF Moves
<1>2. Top' = f
  BY <1>1 DEF Top
<1>3. ASSUME NEW k \in 1 .. n 
      PROVE  \A m \in 0 .. stack'[k].line - 1 : <<stack'[k].path, m>> \in reached'
  <2>1. CASE k = n
    BY <1>1, <2>1
  <2>2. CASE k # n
    <3>1. k \in 1 .. n - 1 /\ k \in 1 .. Len(stack)
      BY <1>1, <1>3, <2>2
    <3>2. PICK g : g = stack[k]
      OBVIOUS
    <3>3. stack'[k] = g
      BY <3>1, <3>2 DEF Moves
    <3>4. Passed(g.path, g.line)
      BY <3>1, <3>2 DEF ReachInv, FramesPassed
    <3>5. \A m \in 0 .. g.line - 1 : <<g.path, m>> \in reached'
      BY <3>4 DEF Passed
    <3> QED
      BY <3>3, <3>5
  <2> QED
    BY <2>1, <2>2
<1>4. FramesPassed'
  <2>1. FramesPassed' <=> \A k \in 1 .. Len(stack') : \A m \in 0 .. stack'[k].line - 1 :
                            <<stack'[k].path, m>> \in reached'
    BY DEF FramesPassed, Passed
  <2> QED
    BY <1>1, <1>3, <2>1
<1> QED
  BY <1>2, <1>4

\* The operations stay as they are, and code that has not begun begins.
Onward ==
  /\ program' = program /\ ops' = ops /\ crashes' = crashes /\ reached \subseteq reached'
  /\ pc = "run" /\ Top.line = 0 => <<Top.path, 0>> \in reached'

\* The operations stay called while none is added.
LEMMA CalledStays ==
  ASSUME ReachInv, Onward
  PROVE  /\ crashes' \in Nat /\ OpsWereCalled' /\ ChildrenBegan'
         /\ ops' # <<>> => <<Root, 0>> \in reached'
<1>1. \A p, l : /\ Paths' = Paths /\ Code(p)' = Code(p) /\ (IsOp(p, l)' <=> IsOp(p, l))
                /\ OpId(p, l)' = OpId(p, l)
                /\ Passed(p, l) => Passed(p, l)'
  BY DEF Onward, Paths, Code, IsOp, OpId, Passed
<1>2. OpsWereCalled'
  <2>1. ASSUME NEW id \in DOMAIN ops
        PROVE  \E p \in Paths : \E l \in 1 .. Len(Code(p)) :
                 IsOp(p, l) /\ id = OpId(p, l) /\ Passed(p, l)'
    <3>1. PICK p \in Paths : \E l \in 1 .. Len(Code(p)) :
            IsOp(p, l) /\ id = OpId(p, l) /\ Passed(p, l)
      BY <2>1 DEF ReachInv, OpsWereCalled
    <3>2. PICK l \in 1 .. Len(Code(p)) : IsOp(p, l) /\ id = OpId(p, l) /\ Passed(p, l)
      BY <3>1
    <3> QED
      BY <1>1, <3>1, <3>2
  <2> QED
    BY <1>1, <2>1 DEF OpsWereCalled, Onward
<1>3. ChildrenBegan'
  BY DEF ReachInv, ChildrenBegan, Onward, Fresh
<1> QED
  BY <1>2, <1>3 DEF ReachInv, Onward

\* The code of a context is given something and goes on.
LEMMA GoesOnReaches ==
  ASSUME Inv, ReachInv, Onward, view' = view, polls' = polls, pc' \in {"run", "raising"},
         NEW n \in Nat, NEW f, Moves(n, f),
         \A m \in 0 .. f.line - 1 : <<f.path, m>> \in reached',
         crashes = 0 /\ ~f.new => <<f.path, f.line>> \in reached' /\ Exists(NextId(f))
  PROVE  ReachInv'
<1>1. FramesPassed' /\ Top' = f
  BY FramesGoOn DEF Onward
<1>2. /\ crashes' \in Nat /\ OpsWereCalled' /\ ChildrenBegan'
      /\ ops' # <<>> => <<Root, 0>> \in reached'
  BY CalledStays
<1>3. ReplaysPassed'
  <2>1. Exists(NextId(f)) => (Exists(NextId(Top)))'
    BY <1>1 DEF Exists, NextId
  <2> QED
    BY <1>1, <2>1 DEF ReplaysPassed, Onward
<1>4. ReplaysOp'
  BY DEF ReplaysOp
<1> QED
  BY <1>1, <1>2, <1>3, <1>4 DEF ReachInv

\* A context that still replays after an operation is at a point it has passed.
LEMMA AfterReplays ==
  ASSUME Inv, ReachInv, Live, NEW k \in 1 .. Len(stack), NEW what, NEW f,
         f = [After(stack[k]) EXCEPT !.log = @ \o what], ~f.new
  PROVE  <<stack[k].path, stack[k].line>> \in reached /\ Exists(NextId(stack[k]))
<1>0. TypeOK /\ Shape /\ Seen
  BY DEF Inv
<1>1. PICK g : g = stack[k]
  OBVIOUS
<1>2. g \in Frame /\ g.line \in Nat /\ Len(Code(g.path)) \in Nat
  BY <1>0, <1>1, FrameFacts
<1>3. Exists(NextId(g))
  <2>1. f = [After(g) EXCEPT !.log = @ \o what]
    BY <1>1
  <2>2. PICK new : new = (g.new \/ g.flip \/ ~Exists(NextId(g)))
    OBVIOUS
  <2>3. f.new = new
    BY <1>2, <2>1, <2>2 DEF After, Frame
  <2> QED
    BY <2>2, <2>3
<1>4. NextId(stack[k]) \in DOMAIN ops
  BY <1>0, <1>1, <1>3 DEF Seen, Exists
<1>5. PICK l \in 1 .. Len(Code(g.path)) :
        l > g.line /\ Code(g.path)[l].kind # "result" /\ Passed(g.path, l)
  BY <1>1, <1>4, NextIsBehind
<1>6. g.line \in 0 .. l - 1
  BY <1>2, <1>5
<1> QED
  BY <1>1, <1>3, <1>5, <1>6 DEF Passed

\* The code is given the outcome of its operation.
LEMMA OutcomeReaches ==
  ASSUME Inv, ReachInv, pc \in InOperation, NEW how, NEW what \in Payloads, Outcome(how, what)
  PROVE  ReachInv'
<1>1. PICK n, f :
        /\ n = Len(stack) /\ f = [After(Top) EXCEPT !.log = @ \o what]
        /\ f \in Frame /\ f.path = Top.path /\ f.parent = Top.parent /\ f.line = Top.line
        /\ f.at = Top.at /\ f.virtual = Top.virtual /\ f.again = Top.again
        /\ f.log = Top.log \o what
        /\ stack' = Append(Below, f) /\ Moves(n, f)
  BY OutcomeMoves
<1>2. /\ program' = program /\ ops' = ops /\ view' = view /\ crashes' = crashes
      /\ reached' = reached /\ polls' = polls /\ pc' \in {"run", "raising"}
  BY DEF Outcome, Give, pipe
<1>3. Live /\ n \in 1 .. Len(stack) /\ n \in Nat /\ Top = stack[n]
  BY <1>1, TopOp
<1>4. Onward
  BY <1>2 DEF Onward, InOperation
<1>5. f.path = Top.path /\ f.line = Top.line /\ f.at = Top.at
  BY <1>1
<1>6. Moves(n, f)
  BY <1>1
<1>7. \A m \in 0 .. f.line - 1 : <<f.path, m>> \in reached'
  <2>1. Passed(Top.path, Top.line)
    BY <1>3 DEF ReachInv, FramesPassed
  <2> QED
    BY <1>2, <1>5, <2>1 DEF Passed
<1>8. ~f.new => <<f.path, f.line>> \in reached' /\ Exists(NextId(f))
  <2> SUFFICES ASSUME ~f.new PROVE <<f.path, f.line>> \in reached' /\ Exists(NextId(f))
    OBVIOUS
  <2>1. f = [After(stack[n]) EXCEPT !.log = @ \o what]
    BY <1>1, <1>3
  <2>2. <<Top.path, Top.line>> \in reached /\ Exists(NextId(Top))
    BY <1>3, <2>1, AfterReplays
  <2> QED
    BY <1>2, <1>5, <2>2 DEF NextId
<1> QED
  BY <1>2, <1>3, <1>4, <1>6, <1>7, <1>8, GoesOnReaches

\* A child context is left.
LEMMA LeaveReaches ==
  ASSUME Inv, ReachInv, Live, Len(stack) > 1, NEW how \in {"returns", "CallableRuntimeError"},
         Leave(how, Top.log), reached \subseteq reached',
         pc = "run" => <<Top.path, Top.line>> \in reached'
  PROVE  ReachInv'
<1>1. PICK n, f, g, what :
        /\ n = Len(stack) - 1 /\ g = Creator /\ what = Top.log
        /\ f = [After(Creator) EXCEPT !.log = @ \o what]
        /\ n \in 1 .. Len(stack) - 1 /\ n \in 1 .. Len(stack) /\ n \in Nat /\ n < Len(stack)
        /\ Len(stack) \in Nat /\ g = stack[n] /\ Len(stack) \in 1 .. Len(stack)
        /\ Top = stack[Len(stack)] /\ n - 1 = Len(stack) - 2
        /\ g \in Frame /\ what \in Payloads
        /\ g.line \in 1 .. Len(Code(g.path)) /\ g.path \in Paths
        /\ f \in Frame /\ f.path = g.path /\ f.parent = g.parent /\ f.line = g.line
        /\ f.at = g.at /\ f.virtual = g.virtual /\ f.again = g.again /\ f.log = g.log \o what
        /\ Moves(n, f)
  BY LeaveMoves
<1>2. /\ program' = program /\ ops' = ops /\ view' = view /\ crashes' = crashes
      /\ polls' = polls /\ pc' \in {"run", "raising"}
  BY DEF Leave, Give, pipe
<1>3. n \in 1 .. Len(stack) /\ n \in Nat /\ g = stack[n]
  BY <1>1
<1>4. Onward
  BY <1>2 DEF Onward
<1>5. f.path = g.path /\ f.line = g.line /\ f.at = g.at
  BY <1>1
<1>6. Moves(n, f)
  BY <1>1
<1>7. \A m \in 0 .. f.line - 1 : <<f.path, m>> \in reached'
  <2>1. Passed(g.path, g.line)
    BY <1>3 DEF ReachInv, FramesPassed
  <2> QED
    BY <1>5, <2>1 DEF Passed
<1>8. ~f.new => <<f.path, f.line>> \in reached' /\ Exists(NextId(f))
  <2> SUFFICES ASSUME ~f.new PROVE <<f.path, f.line>> \in reached' /\ Exists(NextId(f))
    OBVIOUS
  <2>1. f = [After(stack[n]) EXCEPT !.log = @ \o what]
    BY <1>1
  <2>2. <<g.path, g.line>> \in reached /\ Exists(NextId(g))
    BY <1>3, <2>1, AfterReplays
  <2> QED
    BY <1>5, <2>2 DEF NextId
<1> QED
  BY <1>2, <1>3, <1>4, <1>6, <1>7, <1>8, GoesOnReaches

\* The contexts stay where they are.
LEMMA StaysReaches ==
  ASSUME Inv, ReachInv, Onward, view' = view, stack' = stack, pc' # "run",
         pc' \in {"check", "starting", "checking"} => Top.new,
         pc' = "closing" => <<Top.path, Top.line>> \in reached',
         pc' = "starting" => KindOf(Top) \in {"wait", "invoke", "callback"},
         \A p \in polls' : p.new
  PROVE  ReachInv'
<1>1. /\ crashes' \in Nat /\ OpsWereCalled' /\ ChildrenBegan'
      /\ ops' # <<>> => <<Root, 0>> \in reached'
  BY CalledStays
<1>2. Top' = Top /\ (KindOf(Top))' = KindOf(Top)
  BY DEF Top, KindOf, Code, Onward
<1>3. FramesPassed'
  BY DEF ReachInv, FramesPassed, Passed, Onward
<1>4. ReplaysPassed' /\ ReplaysOp'
  BY <1>2 DEF ReplaysPassed, ReplaysOp
<1> QED
  BY <1>1, <1>2, <1>3, <1>4 DEF ReachInv

\* A START is put, of an operation the context has no checkpoint for.
LEMMA StartAndCheckReaches ==
  ASSUME Inv, ReachInv, NEW kind \in {"wait", "invoke", "callback"}, At(kind), Absent,
         StartAndCheck(kind)
  PROVE  ReachInv'
<1>1. /\ program' = program /\ ops' = ops /\ view' = view /\ stack' = stack /\ crashes' = crashes
      /\ reached' = reached /\ polls' = polls /\ pc = "check" /\ pc' = "starting"
      /\ Instr.kind = kind
  BY DEF StartAndCheck, At, history
<1>2. Onward
  BY <1>1 DEF Onward
<1>3. KindOf(Top) = kind
  BY <1>1, TopOp DEF InOperation
<1>4. Top.new
  BY <1>1 DEF ReachInv, ReplaysOp, Absent
<1> QED
  BY <1>1, <1>2, <1>3, <1>4, StaysReaches DEF ReachInv

\* The START has been applied.
LEMMA StartedReaches ==
  ASSUME Inv, ReachInv, Started
  PROVE  ReachInv'
<1>1. /\ program' = program /\ ops' = ops /\ view' = view /\ stack' = stack /\ crashes' = crashes
      /\ reached' = reached /\ polls' = polls /\ pc = "starting" /\ pc' = "check"
  BY DEF Started, pipe, history
<1>2. Onward
  BY <1>1 DEF Onward
<1>3. Top.new
  BY <1>1 DEF ReachInv, ReplaysOp
<1> QED
  BY <1>1, <1>2, <1>3, StaysReaches DEF ReachInv

\* A check begins: the context no longer replays.
LEMMA BeginCheckReaches ==
  ASSUME Inv, ReachInv, BeginCheck
  PROVE  ReachInv'
<1>1. /\ program' = program /\ ops' = ops /\ view' = view /\ stack' = stack /\ crashes' = crashes
      /\ reached' = reached /\ polls' = polls /\ pc = "check" /\ pc' = "checking"
      /\ Instr.kind = "condition" /\ Status \in {"absent", "READY", "STARTED"}
  BY DEF BeginCheck, At, history
<1>2. Onward
  BY <1>1 DEF Onward
<1>3. KindOf(Top) = "condition"
  BY <1>1, TopOp DEF InOperation
<1>4. Top.new
  <2>1. Status = IF Exists(Id(Top)) THEN view[Id(Top)].status ELSE "absent"
    BY DEF Status, Absent
  <2> QED
    BY <1>1, <1>3, <2>1 DEF ReachInv, ReplaysOp, Terminal, Failed
<1> QED
  BY <1>1, <1>2, <1>4, StaysReaches DEF ReachInv

\* The check of a condition is made by a context that does not replay.
LEMMA CheckReaches ==
  ASSUME Inv, ReachInv, Check
  PROVE  ReachInv'
<1>1. /\ program' = program /\ ops' = ops /\ view' = view /\ stack' = stack /\ crashes' = crashes
      /\ reached' = reached /\ pc = "checking" /\ pc' \in Verdict
  BY DEF Check, Verdict
<1>2. Onward
  BY <1>1 DEF Onward
<1>3. Top.new
  BY <1>1 DEF ReachInv, ReplaysOp
<1>4. \A p \in polls' : p.new
  <2>1. PICK q : q = [id |-> Id(Top), attempt |-> taken.attempt + 1, state |-> Polled,
                      new |-> Top.new]
    OBVIOUS
  <2>2. polls' = polls \cup {q}
    BY <2>1 DEF Check
  <2>3. q.new
    BY <1>3, <2>1
  <2> QED
    BY <2>2, <2>3 DEF ReachInv
<1> QED
  BY <1>1, <1>2, <1>3, <1>4, StaysReaches DEF Verdict

\* The code of a child context returns.
LEMMA CloseChildReaches ==
  ASSUME Inv, ReachInv, CloseChild
  PROVE  ReachInv'
<1>1. /\ program' = program /\ ops' = ops /\ view' = view /\ stack' = stack /\ crashes' = crashes
      /\ polls' = polls /\ pc = "run" /\ pc' = "closing"
      /\ reached' = reached \cup {<<Top.path, Top.line>>}
  BY DEF CloseChild, AtEnd, Reach
<1>2. Onward
  BY <1>1 DEF Onward
<1> QED
  BY <1>1, <1>2, StaysReaches DEF ReachInv

\* The code of a child context raises.
LEMMA FailChildReaches ==
  ASSUME Inv, ReachInv, FailChild
  PROVE  ReachInv'
<1>1. /\ program' = program /\ ops' = ops /\ view' = view /\ stack' = stack /\ crashes' = crashes
      /\ polls' = polls /\ pc = "raising" /\ pc' = "failing" /\ reached' = reached
  BY DEF FailChild, history
<1>2. Onward
  BY <1>1 DEF Onward
<1> QED
  BY <1>1, <1>2, StaysReaches DEF ReachInv

-----------------------------------------------------------------------------
\* An operation is called, a child context entered.

\* A context replays at an operation that there is, and at a condition that has ended.
LEMMA BeforeReplays ==
  ASSUME NEW g \in Frame, NEW f, f = Before(g), ~f.new
  PROVE  /\ ~g.new /\ Exists(NextId(g))
         /\ view[NextId(g)].kind = "condition" => view[NextId(g)].status \in Terminal
<1> DEFINE next == NextId(g)
           undone == Exists(next) /\ view[next].status \notin Terminal
           isStep == Exists(next) /\ view[next].kind = "condition"
<1>1. PICK new : new = (g.new \/ ~Exists(next) \/ (isStep /\ undone))
  OBVIOUS
<1>2. PICK flip, line, at :
        flip = (~g.new /\ undone /\ ~isStep) /\ line = g.line + 1 /\ at = g.at + 1
  OBVIOUS
<1>3. f = [g EXCEPT !.line = line, !.at = at, !.new = new, !.flip = flip]
  BY <1>1, <1>2 DEF Before
<1>4. f.new = new
  BY <1>3 DEF Frame
<1> QED
  BY <1>1, <1>4

\* The code calls its next operation.
LEMMA CallReaches ==
  ASSUME Inv, ReachInv, Call
  PROVE  ReachInv'
<1>0. TypeOK /\ Shape /\ Seen
  BY DEF Inv
<1>1. /\ program' = program /\ ops' = ops /\ view' = view /\ crashes' = crashes
      /\ polls' = polls /\ pc = "run" /\ pc' = "check"
      /\ reached' = reached \cup {<<Top.path, Top.line>>}
  BY DEF Call, pipe, Reach
<1>2. Onward
  BY <1>1 DEF Onward
<1>3. PICK n : n = Len(stack)
  OBVIOUS
<1>4. PICK f : f = Before(Top)
  OBVIOUS
<1>5. /\ n \in 1 .. Len(stack) /\ n \in Nat /\ Top = stack[n] /\ Top \in Frame
      /\ Top.line \in Nat /\ f.path = Top.path /\ f.line = Top.line + 1 /\ f.at = Top.at + 1
      /\ Moves(n, f)
  BY <1>3, <1>4, CallMoves
<1>6. \A m \in 0 .. f.line - 1 : <<f.path, m>> \in reached'
  <2>1. Passed(Top.path, Top.line)
    BY <1>5 DEF ReachInv, FramesPassed
  <2>2. ASSUME NEW m \in 0 .. f.line - 1 PROVE m \in 0 .. Top.line - 1 \/ m = Top.line
    BY <1>5
  <2> QED
    BY <1>1, <1>5, <2>1, <2>2 DEF Passed
<1>7. FramesPassed' /\ Top' = f
  BY <1>1, <1>5, <1>6, FramesGoOn
<1>9. /\ crashes' \in Nat /\ OpsWereCalled' /\ ChildrenBegan'
      /\ ops' # <<>> => <<Root, 0>> \in reached'
  BY <1>2, CalledStays
<1>10. ReplaysPassed'
  BY <1>1 DEF ReplaysPassed
<1>11. ReplaysOp'
  <2> SUFFICES ASSUME ~f.new
               PROVE  (/\ Exists(Id(Top))
                       /\ KindOf(Top) = "condition" => view[Id(Top)].status \in Terminal)'
    BY <1>1, <1>7 DEF ReplaysOp
  <2>1. PICK id : id = NextId(Top)
    OBVIOUS
  <2>2. Id(f) = id
    BY <1>5, <2>1 DEF Id, NextId
  <2>3. (Id(Top))' = id
    BY <1>7, <2>2 DEF Id
  <2>4. Exists(id) /\ (view[id].kind = "condition" => view[id].status \in Terminal)
    BY <1>4, <1>5, <2>1, BeforeReplays
  <2>5. ASSUME (KindOf(Top))' = "condition" PROVE view[id].kind = "condition"
    <3>1. Inv' /\ (pc \in InOperation)'
      BY <1>1, CallKeeps DEF InOperation
    <3>2. (Exists(Id(Top)) => view[Id(Top)].kind = KindOf(Top))'
      BY <3>1, TopOp, PTL
    <3> QED
      BY <1>1, <2>3, <2>4, <2>5, <3>2 DEF Exists
  <2> QED
    BY <1>1, <2>3, <2>4, <2>5 DEF Exists
<1> QED
  BY <1>1, <1>7, <1>9, <1>10, <1>11 DEF ReachInv

\* The code of a child context begins.
LEMMA EnterChildReaches ==
  ASSUME Inv, ReachInv, EnterChild
  PROVE  ReachInv'
<1>0. TypeOK /\ Shape
  BY DEF Inv
<1>1. /\ program' = program /\ ops' = ops /\ view' = view /\ crashes' = crashes
      /\ reached' = reached /\ polls' = polls /\ pc = "check" /\ pc' = "run"
      /\ Instr.kind \in ChildKinds /\ stack' = Enter(Top)
  BY DEF EnterChild, history
<1>2. Onward
  BY <1>1 DEF Onward
<1>3. PICK id, f, n :
        /\ id = Id(Top) /\ n = Len(stack)
        /\ f = Context(Id(Top), IF Instr.kind = "virtual" THEN Top.parent ELSE Id(Top), Top.new,
                       Instr.kind = "virtual", Status = "SUCCEEDED")
  OBVIOUS
<1>4. stack' = Append(stack, f) /\ f.path = id /\ f.line = 0 /\ f.new = Top.new
  BY <1>1, <1>3 DEF Enter, Context
<1>5. /\ n \in Nat /\ n \in 1 .. Len(stack) /\ Top = stack[n] /\ KindOf(Top) \in ChildKinds
  BY <1>1, <1>3, TopOp DEF InOperation
<1>6. /\ Len(stack') = n + 1 /\ stack'[n + 1] = f
      /\ \A k \in 1 .. n : stack'[k] = stack[k]
  BY <1>0, <1>3, <1>4, <1>5 DEF TypeOK
<1>7. Top' = f
  BY <1>6 DEF Top
<1>8. FramesPassed'
  <2>1. ASSUME NEW k \in 1 .. n + 1
        PROVE  \A m \in 0 .. stack'[k].line - 1 : <<stack'[k].path, m>> \in reached'
    <3>1. CASE k = n + 1
      BY <1>4, <1>6, <3>1
    <3>2. CASE k # n + 1
      <4>1. k \in 1 .. n
        BY <1>5, <3>2
      <4>2. PICK g : g = stack[k]
        OBVIOUS
      <4>3. stack'[k] = g /\ Passed(g.path, g.line)
        BY <1>3, <1>6, <4>1, <4>2 DEF ReachInv, FramesPassed
      <4> QED
        BY <1>1, <4>3 DEF Passed
    <3> QED
      BY <3>1, <3>2
  <2>2. FramesPassed' <=> \A k \in 1 .. Len(stack') : \A m \in 0 .. stack'[k].line - 1 :
                            <<stack'[k].path, m>> \in reached'
    BY DEF FramesPassed, Passed
  <2> QED
    BY <1>6, <2>1, <2>2
<1>9. /\ crashes' \in Nat /\ OpsWereCalled' /\ ChildrenBegan'
      /\ ops' # <<>> => <<Root, 0>> \in reached'
  BY <1>2, CalledStays
<1>10. ReplaysPassed'
  <2> SUFFICES ASSUME crashes = 0, ~Top.new PROVE <<id, 0>> \in reached
    BY <1>1, <1>4, <1>7 DEF ReplaysPassed
  <2>1. Exists(id)
    BY <1>1, <1>3 DEF ReachInv, ReplaysOp
  <2>2. id \in DOMAIN ops /\ ops[id].kind = KindOf(Top)
    BY <1>1, <1>3, <2>1, TopOp DEF InOperation
  <2>3. ops[id].kind = "child"
    BY <1>0, <1>5, <2>2 DEF TypeOK, Operation, OpKinds, ChildKinds
  <2> QED
    BY <1>1, <2>2, <2>3 DEF ReachInv, ChildrenBegan, Fresh
<1>11. ReplaysOp'
  BY <1>1 DEF ReplaysOp
<1> QED
  BY <1>1, <1>7, <1>8, <1>9, <1>10, <1>11 DEF ReachInv

\* The result of a callback is read after the callback was created, so that a context that
\* replays has the operation after it.
LEMMA ReadIsNotFirst ==
  ASSUME Inv, ReadResult
  PROVE  /\ Live /\ Top = stack[Len(stack)] /\ Len(stack) \in 1 .. Len(stack) /\ Top \in Frame
         /\ Top.line \in Nat /\ Top.line > 0 /\ Top.path \in Paths /\ FrameIsIn(Top)
         /\ Top.line + 1 \in 1 .. Len(Code(Top.path))
         /\ Code(Top.path)[Top.line + 1].kind = "result"
<1>0. TypeOK /\ Shape
  BY DEF Inv
<1>1. /\ pc = "run" /\ Top.line < Len(Code(Top.path))
      /\ Code(Top.path)[Top.line + 1].kind = "result"
  BY DEF ReadResult, Body, Code
<1>2. Live
  BY <1>1 DEF Live, Resting
<1>3. /\ Top = stack[Len(stack)] /\ Len(stack) \in 1 .. Len(stack) /\ Top \in Frame
      /\ Top.line \in Nat /\ Top.path \in Paths /\ FrameIsIn(Top) /\ Len(Code(Top.path)) \in Nat
  BY <1>0, <1>2, TopIs, FrameFacts
<1>4. PICK p, l : p = Top.path /\ l = Top.line + 1
  OBVIOUS
<1>5. l \in 1 .. Len(Code(p))
  BY <1>1, <1>3, <1>4
<1>6. PICK m \in 1 .. l - 1 : Code(p)[m].kind = "callback"
  BY <1>0, <1>1, <1>3, <1>4, <1>5, CodeFacts
<1>7. Top.line > 0
  BY <1>3, <1>4, <1>6
<1> QED
  BY <1>1, <1>2, <1>3, <1>4, <1>5, <1>7

\* The code reads the result of a callback.
LEMMA ReadResultReaches ==
  ASSUME Inv, ReachInv, ReadResult, ~Suspend
  PROVE  ReachInv'
<1>0. TypeOK /\ Shape /\ Seen
  BY DEF Inv
<1>1. PICK n, f, log :
        /\ n = Len(stack) /\ f = [Top EXCEPT !.line = @ + 1]
        /\ log = view[Top.path \o <<Body(Top)[Top.line + 1].of>>].payload
  OBVIOUS
<1>2. PICK h : h = [f EXCEPT !.log = @ \o log]
  OBVIOUS
<1>3. /\ program' = program /\ ops' = ops /\ view' = view /\ crashes' = crashes
      /\ polls' = polls /\ pc = "run" /\ pc' \in {"run", "raising"}
      /\ reached' = reached \cup {<<Top.path, Top.line>>}
      /\ stack' = Append(Below, h)
  BY <1>1, <1>2 DEF ReadResult, Give, Reach, pipe
<1>4. Onward
  BY <1>3 DEF Onward
<1>5. /\ n \in 1 .. Len(stack) /\ n \in Nat /\ Top = stack[n] /\ Top \in Frame
      /\ Top.line \in Nat /\ Top.line > 0 /\ Top.path \in Paths /\ FrameIsIn(Top) /\ Live
      /\ Top.line + 1 \in 1 .. Len(Code(Top.path)) /\ Len(Code(Top.path)) \in Nat
      /\ Code(Top.path)[Top.line + 1].kind = "result"
  BY <1>0, <1>1, ReadIsNotFirst, FrameFacts
<1>6. log \in Payloads
  <2>1. TypeOK'
    BY ReadResultKeeps DEF Inv
  <2>2. \E how : <<f.path, f.line, how, log>> \in given'
    BY <1>1 DEF ReadResult, Give
  <2> QED
    BY <2>1, <2>2 DEF TypeOK
<1>7. PICK g, l, new : g = Top /\ l = Top.line + 1 /\ new = g.log \o log
  OBVIOUS
<1>8. /\ h \in Frame /\ h.path = g.path /\ h.line = l /\ h.at = g.at /\ h.new = g.new
      /\ h.parent = g.parent /\ h.virtual = g.virtual /\ h.again = g.again
  <2>1. new \in Payloads /\ l \in Nat
    BY <1>5, <1>6, <1>7, PayloadsClosed DEF Frame
  <2>2. h = [g EXCEPT !.line = l, !.log = new]
    <3>1. f = [g EXCEPT !.line = l]
      BY <1>1, <1>7
    <3>2. f.log = g.log
      BY <1>5, <1>7, <3>1 DEF Frame
    <3>3. h = [f EXCEPT !.log = new]
      BY <1>2, <1>7, <3>2
    <3> QED
      BY <3>1, <3>3
  <2> QED
    BY <1>5, <1>7, <2>1, <2>2 DEF Frame
<1>9. FrameIsIn(h)
  <2>1. PICK code, m : code = Code(Top.path) /\ m = Top.line
    OBVIOUS
  <2>2. Position(code, m + 1) = Position(code, m)
    BY <1>5, <2>1, PositionStep
  <2> QED
    BY <1>5, <1>7, <1>8, <2>1, <2>2 DEF FrameIsIn
<1>10. Moves(n, h)
  <2>1. stack \in Seq(Frame) /\ stack # <<>>
    BY <1>0, <1>5 DEF TypeOK, Shape
  <2>2. /\ stack' \in Seq(Frame) /\ Len(stack') = n /\ stack'[n] = h
        /\ \A k \in 1 .. n - 1 : stack'[k] = stack[k]
    BY <1>1, <1>3, <1>8, <2>1, ReplaceTop DEF Below
  <2> QED
    BY <1>5, <1>7, <1>8, <1>9, <2>2 DEF Moves
<1>11. \A m \in 0 .. h.line - 1 : <<h.path, m>> \in reached'
  <2>1. Passed(g.path, g.line)
    BY <1>5, <1>7 DEF ReachInv, FramesPassed
  <2>2. \A m \in 0 .. h.line - 1 : m \in 0 .. g.line - 1 \/ m = g.line
    BY <1>5, <1>7, <1>8
  <2> QED
    BY <1>3, <1>7, <1>8, <2>1, <2>2 DEF Passed
<1>12. crashes = 0 /\ ~h.new => <<h.path, h.line>> \in reached' /\ Exists(NextId(h))
  <2> SUFFICES ASSUME crashes = 0, ~h.new
               PROVE  <<h.path, h.line>> \in reached' /\ Exists(NextId(h))
    OBVIOUS
  <2>1. Exists(NextId(g))
    BY <1>3, <1>5, <1>7, <1>8 DEF ReachInv, ReplaysPassed
  <2>2. NextId(h) = NextId(g)
    BY <1>8 DEF NextId
  <2>3. NextId(stack[n]) \in DOMAIN ops
    BY <1>0, <1>5, <1>7, <2>1 DEF Seen, Exists
  <2>4. PICK m \in 1 .. Len(Code(g.path)) :
          m > g.line /\ Code(g.path)[m].kind # "result" /\ Passed(g.path, m)
    BY <1>5, <1>7, <2>3, NextIsBehind
  <2>5. m # l
    BY <1>5, <1>7, <2>4
  <2>6. l \in 0 .. m - 1
    BY <1>5, <1>7, <2>4, <2>5
  <2> QED
    BY <1>3, <1>8, <2>1, <2>2, <2>4, <2>6 DEF Passed
<1> QED
  BY <1>3, <1>4, <1>5, <1>10, <1>11, <1>12, GoesOnReaches

-----------------------------------------------------------------------------
\* The invocation ends, another begins.

\* No code runs any more.
LEMMA RestReaches ==
  ASSUME ReachInv, Onward, stack' = <<>>, pc' \in Resting, polls' = polls
  PROVE  ReachInv'
<1>1. /\ crashes' \in Nat /\ OpsWereCalled' /\ ChildrenBegan'
      /\ ops' # <<>> => <<Root, 0>> \in reached'
  BY CalledStays
<1>2. FramesPassed'
  BY DEF FramesPassed
<1>3. ReplaysPassed' /\ ReplaysOp'
  BY DEF ReplaysPassed, ReplaysOp, Resting
<1> QED
  BY <1>1, <1>2, <1>3 DEF ReachInv, Resting

\* The invocation suspends.
LEMMA SuspendReaches ==
  ASSUME Inv, ReachInv, Suspend, pc \in InOperation \/ ReadResult
  PROVE  ReachInv'
<1>1. /\ program' = program /\ ops' = ops /\ crashes' = crashes
      /\ reached' = reached /\ polls' = polls /\ pc' \in Resting /\ stack' = <<>>
  BY DEF Suspend, history, Resting
<1>2. pc = "run" => Top.line # 0
  BY ReadIsNotFirst DEF InOperation
<1>3. Onward
  BY <1>1, <1>2 DEF Onward
<1> QED
  BY <1>1, <1>3, RestReaches

\* The handler returns or raises.
LEMMA EndHandlerReaches ==
  ASSUME Inv, ReachInv, EndHandler
  PROVE  ReachInv'
<1>1. /\ program' = program /\ ops' = ops /\ crashes' = crashes
      /\ polls' = polls /\ pc' \in Resting /\ stack' = <<>>
  BY DEF EndHandler, pipe, Resting
<1>2. reached \subseteq reached' /\ (pc = "run" => <<Top.path, Top.line>> \in reached')
  BY DEF EndHandler, Reach
<1>3. Onward
  BY <1>1, <1>2 DEF Onward
<1> QED
  BY <1>1, <1>3, RestReaches

\* The invocation dies.
LEMMA CrashReaches ==
  ASSUME Inv, ReachInv, Crash
  PROVE  ReachInv'
<1>1. /\ program' = program /\ crashes' = crashes + 1 /\ given' = given
      /\ reached' = reached /\ polls' = polls /\ pc' = "down" /\ stack' = <<>>
      /\ ops' = ops \/ (queue # <<>> /\ ops' = Process(Head(queue)))
  BY DEF Crash, Dies, history
<1>2. OpsWereCalled' /\ (ops' # <<>> => <<Root, 0>> \in reached')
  <2>1. CASE ops' = ops
    <3>1. \A p, l : /\ Paths' = Paths /\ Code(p)' = Code(p) /\ (IsOp(p, l)' <=> IsOp(p, l))
                    /\ OpId(p, l)' = OpId(p, l) /\ (Passed(p, l)' <=> Passed(p, l))
      BY <1>1 DEF Paths, Code, IsOp, OpId, Passed
    <3>2. OpsWereCalled'
      BY <2>1, <3>1 DEF ReachInv, OpsWereCalled
    <3> QED
      BY <1>1, <2>1, <3>2 DEF ReachInv
  <2>2. CASE queue # <<>> /\ ops' = Process(Head(queue))
    BY <1>1, <2>2, AppliedWasCalled
  <2> QED
    BY <1>1, <2>1, <2>2
<1>3. crashes' \in Nat /\ crashes' # 0
  BY <1>1 DEF ReachInv
<1>4. FramesPassed'
  BY <1>1 DEF FramesPassed
<1>5. ChildrenBegan' /\ ReplaysPassed' /\ ReplaysOp'
  BY <1>1, <1>3 DEF ChildrenBegan, ReplaysPassed, ReplaysOp
<1> QED
  BY <1>1, <1>2, <1>3, <1>4, <1>5 DEF ReachInv

\* The root context begins.
LEMMA InvokeReaches ==
  ASSUME Inv, ReachInv, Invoke
  PROVE  ReachInv'
<1>1. /\ program' = program /\ ops' = ops /\ crashes' = crashes
      /\ reached' = reached /\ polls' = polls /\ pc # "run" /\ pc' = "run"
      /\ stack' = <<Context(Root, Root, ops = <<>>, FALSE, FALSE)>>
  BY DEF Invoke, history
<1>2. Onward
  BY <1>1 DEF Onward
<1>3. /\ crashes' \in Nat /\ OpsWereCalled' /\ ChildrenBegan'
      /\ ops' # <<>> => <<Root, 0>> \in reached'
  BY <1>2, CalledStays
<1>4. PICK f, new : new = (ops = <<>>) /\ f = Context(Root, Root, new, FALSE, FALSE)
  OBVIOUS
<1>5. f.path = Root /\ f.line = 0 /\ f.new = new
  BY <1>4 DEF Context
<1>6. stack' = <<f>>
  BY <1>1, <1>4
<1>7. Len(stack') = 1 /\ stack'[1] = f /\ Top' = f
  BY <1>6 DEF Top
<1>8. FramesPassed'
  <2>1. FramesPassed' <=> \A k \in 1 .. Len(stack') : \A m \in 0 .. stack'[k].line - 1 :
                            <<stack'[k].path, m>> \in reached'
    BY DEF FramesPassed, Passed
  <2> QED
    BY <1>5, <1>7, <2>1
<1>9. ReplaysPassed'
  BY <1>1, <1>3, <1>4, <1>5, <1>7 DEF ReplaysPassed
<1>10. ReplaysOp'
  BY <1>1 DEF ReplaysOp
<1> QED
  BY <1>1, <1>3, <1>8, <1>9, <1>10 DEF ReachInv

\* The service applies an update, or completes an operation: the thread does nothing.
LEMMA ServiceReaches ==
  ASSUME Inv, ReachInv, program' = program, stack' = stack, pc' = pc, crashes' = crashes,
         reached' = reached, polls' = polls, OpsGrow,
         OpsWereCalled', ops' # <<>> => <<Root, 0>> \in reached,
         \A id \in DOMAIN ops' : ops'[id].kind = "child" =>
           \/ id \in DOMAIN ops /\ ops[id].kind = "child"
           \/ <<id, 0>> \in reached \/ Fresh(id),
         view' = view \/ view' = ops'
  PROVE  ReachInv'
<1>0. Seen
  BY DEF Inv
<1>1. Top' = Top /\ (Id(Top))' = Id(Top) /\ (KindOf(Top))' = KindOf(Top)
      /\ (NextId(Top))' = NextId(Top)
  BY DEF Top, KindOf, Code, Id, NextId
<1>2. FramesPassed'
  BY DEF ReachInv, FramesPassed, Passed
<1>3. ChildrenBegan'
  BY <1>1 DEF ReachInv, ChildrenBegan, Fresh
<1>4. ASSUME Live, NEW id, Exists(id) PROVE (Exists(id))'
  BY <1>0, <1>4 DEF Seen, Exists, OpsGrow
<1>5. ReplaysPassed'
  <2> SUFFICES ASSUME crashes = 0, pc = "run", ~Top.new
               PROVE  <<Top.path, Top.line>> \in reached /\ (Top.line = 0 \/ Exists(NextId(Top))')
    BY <1>1 DEF ReplaysPassed
  <2>1. Live
    BY DEF Live, Resting
  <2> QED
    BY <1>1, <1>4, <2>1 DEF ReachInv, ReplaysPassed
<1>6. ReplaysOp'
  <2>1. ASSUME pc = "check", ~Top.new
        PROVE  /\ (Exists(Id(Top)))'
               /\ KindOf(Top) = "condition" => view'[Id(Top)].status \in Terminal
    <3>1. PICK id : id = Id(Top)
      OBVIOUS
    <3>2. Exists(id) /\ (KindOf(Top) = "condition" => view[id].status \in Terminal)
      BY <2>1, <3>1 DEF ReachInv, ReplaysOp
    <3>3. Live
      BY <2>1 DEF Live, Resting
    <3>4. (Exists(id))'
      BY <1>4, <3>2, <3>3
    <3>5. ASSUME view[id].status \in Terminal PROVE view'[id].status \in Terminal
      <4>1. ops[id] = view[id] /\ id \in DOMAIN ops
        BY <2>1, <3>1, <3>2, <3>5, TopOp DEF InOperation
      <4> QED
        BY <3>5, <4>1 DEF OpsGrow
    <3> QED
      BY <1>1, <3>1, <3>2, <3>4, <3>5 DEF Exists
  <2>2. pc \in {"starting", "checking"} => Top.new
    BY DEF ReachInv, ReplaysOp
  <2> QED
    BY <1>1, <2>1, <2>2 DEF ReplaysOp
<1> QED
  BY <1>1, <1>2, <1>3, <1>5, <1>6 DEF ReachInv

\* The service applies an update.
LEMMA SendReaches ==
  ASSUME Inv, ReachInv, Send
  PROVE  ReachInv'
<1>1. /\ program' = program /\ stack' = stack /\ pc' = pc /\ crashes' = crashes
      /\ reached' = reached /\ polls' = polls /\ given' = given /\ queue # <<>>
      /\ ops' = Process(Head(queue)) /\ view' = ops'
  BY DEF Send, thread, history
<1>2. OpsGrow
  BY <1>1, Applied
<1>3. /\ OpsWereCalled' /\ <<Root, 0>> \in reached
      /\ \A id \in DOMAIN ops' : ops'[id].kind = "child" =>
           \/ id \in DOMAIN ops /\ ops[id].kind = "child"
           \/ <<id, 0>> \in reached \/ Fresh(id)
  BY <1>1, AppliedWasCalled
<1> QED
  BY <1>1, <1>2, <1>3, ServiceReaches

\* The service completes an operation.
LEMMA CompleteReaches ==
  ASSUME Inv, ReachInv, NEW id \in DOMAIN ops, Complete(id)
  PROVE  ReachInv'
<1>0. TypeOK
  BY DEF Inv
<1>1. /\ program' = program /\ stack' = stack /\ pc' = pc /\ crashes' = crashes
      /\ reached' = reached /\ polls' = polls /\ given' = given /\ view' = view
  BY DEF Complete, pipe, thread, history
<1>2. PICK status \in {"SUCCEEDED", "FAILED", "TIMED_OUT", "READY"},
           payload \in {None, <<"yes">>, <<"no">>, ops[id].payload} :
        /\ ops' = [ops EXCEPT ![id].status = status, ![id].payload = payload]
        /\ ops[id].status \in {"STARTED", "PENDING"}
  BY DEF Complete
<1>3. ops[id] \in Operation /\ ops = [x \in DOMAIN ops |-> ops[x]]
  BY <1>0 DEF TypeOK
<1>4. PICK o : o = [[ops[id] EXCEPT !.status = status] EXCEPT !.payload = payload]
  OBVIOUS
<1>5. o.kind = ops[id].kind
  BY <1>3, <1>4 DEF Operation
<1>6. ops' = [ops EXCEPT ![id] = o]
  BY <1>2, <1>3, <1>4
<1>7. /\ DOMAIN ops' = DOMAIN ops /\ \A x \in DOMAIN ops : ops'[x].kind = ops[x].kind
      /\ \A x \in DOMAIN ops : x # id => ops'[x] = ops[x]
  BY <1>3, <1>5, <1>6
<1>8. OpsGrow
  BY <1>2, <1>7 DEF OpsGrow, Terminal, Failed
<1>9. OpsWereCalled'
  <2>1. \A p, l : /\ Paths' = Paths /\ Code(p)' = Code(p) /\ (IsOp(p, l)' <=> IsOp(p, l))
                  /\ OpId(p, l)' = OpId(p, l) /\ (Passed(p, l)' <=> Passed(p, l))
    BY <1>1 DEF Paths, Code, IsOp, OpId, Passed
  <2> QED
    BY <1>7, <2>1 DEF ReachInv, OpsWereCalled
<1>10. <<Root, 0>> \in reached
  BY DEF ReachInv
<1> QED
  BY <1>1, <1>7, <1>8, <1>9, <1>10, ServiceReaches

\* Nothing has been called.
LEMMA InitReaches ==
  ASSUME Init
  PROVE  ReachInv
<1>1. /\ ops = <<>> /\ stack = <<>> /\ pc = "down" /\ crashes = 0 /\ polls = {}
  BY DEF Init
<1>2. DOMAIN ops = {} /\ 1 .. Len(stack) = {}
  BY <1>1
<1> QED
  BY <1>1, <1>2 DEF ReachInv, OpsWereCalled, FramesPassed, ChildrenBegan, ReplaysPassed, ReplaysOp

\* Every step keeps what is known of the points passed.
LEMMA NextReaches ==
  ASSUME Inv, ErrorsAlike, ReachInv, [Next]_vars
  PROVE  ReachInv'
<1>0. TypeOK /\ Shape
  BY DEF Inv
<1>1. CASE \E id \in DOMAIN ops : Complete(id)
  BY <1>1, CompleteReaches
<1>2. CASE Send
  BY <1>2, SendReaches
<1>3. CASE Invoke
  BY <1>3, InvokeReaches
<1>4. CASE Crash
  BY <1>4, CrashReaches
\* What an operation that is done gives is a payload.
<1>5. ASSUME NEW how, NEW what, Outcome(how, what), pc \in InOperation
      PROVE  ReachInv'
  <2>1. what \in Payloads
    <3>1. TypeOK' /\ <<Top.path, Top.line, how, what>> \in given'
      BY <1>5, NextKeeps DEF Outcome, Give, Inv
    <3> QED
      BY <3>1 DEF TypeOK
  <2> QED
    BY <1>5, <2>1, OutcomeReaches
<1>6. ASSUME pc \in InOperation, Suspend PROVE ReachInv'
  BY <1>6, SuspendReaches
<1>7. CASE Wait \/ ChainedInvoke \/ CreateCallback
  <2>1. pc \in InOperation
    BY <1>7 DEF Wait, ChainedInvoke, CreateCallback, At, InOperation
  <2> QED
    BY <1>5, <1>6, <1>7, <2>1, StartAndCheckReaches DEF Wait, ChainedInvoke, CreateCallback
<1>8. CASE ConditionIsDone \/ Checked \/ ChildIsDone
  <2>1. pc \in InOperation
    BY <1>8 DEF ConditionIsDone, Checked, ChildIsDone, At, InOperation
  <2> QED
    BY <1>5, <1>6, <1>8, <2>1 DEF ConditionIsDone, Checked, ChildIsDone
<1>9. CASE ReadResult
  BY <1>9, ReadResultReaches, SuspendReaches
<1>10. CASE LeaveChild
  <2>1. /\ Leave("returns", Top.log) /\ Len(stack) > 1 /\ pc = "run"
        /\ reached' = reached \cup {<<Top.path, Top.line>>}
    BY <1>10 DEF LeaveChild, AtEnd, Reach
  <2> QED
    BY <2>1, LeaveReaches DEF Live, Resting
<1>11. CASE FailedChild \/ ClosedChild
  <2>1. /\ \E how \in {"returns", "CallableRuntimeError"} : Leave(how, Top.log)
        /\ Len(stack) > 1 /\ pc \in {"raising", "failing", "closing"} /\ reached' = reached
    BY <1>0, <1>11 DEF FailedChild, ClosedChild, Shape
  <2> QED
    BY <2>1, LeaveReaches DEF Live, Resting
<1>12. CASE Call \/ Started \/ BeginCheck \/ Check \/ EnterChild \/ CloseChild \/ FailChild
            \/ EndHandler
  BY <1>12, CallReaches, StartedReaches, BeginCheckReaches, CheckReaches, EnterChildReaches,
     CloseChildReaches, FailChildReaches, EndHandlerReaches
<1>13. CASE UNCHANGED vars
  <2>1. /\ program' = program /\ ops' = ops /\ view' = view /\ stack' = stack /\ pc' = pc
        /\ crashes' = crashes /\ reached' = reached /\ polls' = polls
    BY <1>13 DEF vars, pipe, thread, history
  <2>2. \A p, l : /\ Paths' = Paths /\ Code(p)' = Code(p) /\ (IsOp(p, l)' <=> IsOp(p, l))
                  /\ OpId(p, l)' = OpId(p, l) /\ (Passed(p, l)' <=> Passed(p, l))
    BY <2>1 DEF Paths, Code, IsOp, OpId, Passed
  <2>3. OpsWereCalled'
    BY <2>1, <2>2 DEF ReachInv, OpsWereCalled
  <2>4. OpsGrow
    BY <2>1 DEF OpsGrow
  <2> QED
    BY <2>1, <2>3, <2>4, ServiceReaches DEF ReachInv
<1> QED
  BY <1>1, <1>2, <1>3, <1>4, <1>7, <1>8, <1>9, <1>10, <1>11, <1>12, <1>13 DEF Next, Step

\* Code that runs for the first time is not taken for a replay, unless an earlier invocation
\* died (_replay_aware), and the check of a condition never is: of a handler that does not tell
\* a check's errors apart.
THEOREM NewCodeReplaysNot == Spec => [](ErrorsAlike => NewCodeIsNew)
<1> DEFINE J == ErrorsAlike => ReachInv
<1>1. J => (ErrorsAlike => NewCodeIsNew)
  BY DEF ReachInv, ReplaysPassed, NewCodeIsNew
<1>2. (ErrorsAlike => Inv) /\ J /\ [Next]_vars => J'
  BY NextReaches, ProgramStays
<1>3. Init => J
  BY InitReaches
<1> HIDE DEF J
<1> QED
  BY <1>1, <1>2, <1>3, ContextsAreSound, PTL DEF Spec

-----------------------------------------------------------------------------
\* The checks of a condition.

\* The state after n checks.
Counted(state, n) == state \in Seq({"s"}) /\ Len(state) = n

Attempt(id) == IF id \in DOMAIN ops THEN ops[id].attempt ELSE 0

NoPollIsLost ==
  /\ \A p \in polls : Len(p.state) = p.attempt - 1
  /\ \A id \in DOMAIN ops : ops[id].kind = "condition" =>
       /\ ops[id].status \in {"PENDING", "READY"} => Counted(ops[id].payload, ops[id].attempt)
       /\ ops[id].status = "STARTED" => pc \in {"checking"} \cup Verdict /\ id = Id(Top)
  /\ pc = "checking" =>
       /\ taken.attempt = Attempt(Id(Top))
       /\ \/ taken.payload = None /\ taken.attempt = 0
          \/ Counted(taken.payload, taken.attempt)
  /\ \A i \in DOMAIN queue : queue[i].action = "RETRY" =>
       Counted(queue[i].payload, Attempt(queue[i].id) + 1)
  /\ pc = "unmet" =>
       \/ /\ queue # <<>>
          /\ queue[Len(queue)].id = Id(Top) /\ queue[Len(queue)].action = "RETRY"
       \/ /\ queue = <<>> /\ Id(Top) \in DOMAIN ops
          /\ ops[Id(Top)].status \in {"PENDING", "READY"}

PollInv == crashes = 0 => NoPollIsLost

\* A step that makes no check and queues no RETRY, while no condition is STARTED.
LEMMA PollsStay ==
  ASSUME PollInv, ops' = ops, crashes' = crashes, polls' = polls,
         pc' \notin {"checking"} \cup Verdict,
         crashes = 0 => \A id \in DOMAIN ops :
                          ops[id].kind = "condition" => ops[id].status # "STARTED",
         \A i \in DOMAIN queue' : queue'[i].action = "RETRY" =>
           \E j \in DOMAIN queue : queue'[i] = queue[j]
  PROVE  PollInv'
<1> SUFFICES ASSUME crashes = 0 PROVE NoPollIsLost'
  BY DEF PollInv
<1>0. NoPollIsLost
  BY DEF PollInv
<1>1. \A x : Attempt(x)' = Attempt(x)
  BY DEF Attempt
<1>2. ASSUME NEW i \in DOMAIN queue', queue'[i].action = "RETRY"
      PROVE  Counted(queue'[i].payload, Attempt(queue'[i].id) + 1)
  <2>1. PICK j \in DOMAIN queue : queue'[i] = queue[j]
    BY <1>2
  <2> QED
    BY <1>0, <1>2, <2>1 DEF NoPollIsLost
<1>3. (\A i \in DOMAIN queue : queue[i].action = "RETRY" =>
         Counted(queue[i].payload, Attempt(queue[i].id) + 1))'
  BY <1>1, <1>2 DEF Counted
<1> QED
  BY <1>0, <1>3 DEF NoPollIsLost, Verdict, Counted

\* No condition is STARTED unless it is being checked.
LEMMA NoneIsStarted ==
  ASSUME PollInv, pc \notin {"checking"} \cup Verdict, crashes = 0
  PROVE  \A id \in DOMAIN ops : ops[id].kind = "condition" => ops[id].status # "STARTED"
  BY DEF PollInv, NoPollIsLost

\* An update that is no RETRY joins the queue.
LEMMA PutMore ==
  ASSUME TypeOK, NEW action, action # "RETRY", NEW f, NEW kind, NEW payload, NEW replay,
         Put(action, f, kind, payload, replay)
  PROVE  \A i \in DOMAIN queue' : queue'[i].action = "RETRY" =>
           \E j \in DOMAIN queue : queue'[i] = queue[j]
<1>1. PICK u : u = [id |-> f.path \o <<f.at>>, kind |-> kind, parent |-> f.parent,
                    action |-> action, payload |-> payload, replay |-> replay]
  OBVIOUS
<1>2. queue' = Append(queue, u) /\ u.action # "RETRY"
  BY <1>1 DEF Put
<1>3. queue \in Seq(Update)
  BY DEF TypeOK
<1>4. /\ DOMAIN queue' = 1 .. Len(queue) + 1 /\ Len(queue) \in Nat
      /\ queue'[Len(queue) + 1] = u /\ DOMAIN queue = 1 .. Len(queue)
      /\ \A i \in 1 .. Len(queue) : queue'[i] = queue[i]
  BY <1>2, <1>3
<1>5. \A i \in 1 .. Len(queue) + 1 : i \in 1 .. Len(queue) \/ i = Len(queue) + 1
  BY <1>4
<1> QED
  BY <1>2, <1>4, <1>5

\* A condition of which a check begins was never checked, or is READY.
LEMMA BeginCheckPolls ==
  ASSUME Inv, PollInv, BeginCheck
  PROVE  PollInv'
<1> SUFFICES ASSUME crashes' = 0 PROVE NoPollIsLost'
  BY DEF PollInv
<1>0. TypeOK
  BY DEF Inv
<1>1. /\ ops' = ops /\ view' = view /\ stack' = stack /\ crashes' = crashes /\ polls' = polls
      /\ pc = "check" /\ pc' = "checking"
      /\ Instr.kind = "condition" /\ Status \in {"absent", "READY", "STARTED"}
      /\ taken' = IF Absent THEN [attempt |-> 0, payload |-> None]
                  ELSE [attempt |-> view[Id(Top)].attempt, payload |-> Payload]
  BY DEF BeginCheck, At, history
<1>2. NoPollIsLost /\ crashes = 0
  BY <1>1 DEF PollInv
<1>3. \A id \in DOMAIN ops : ops[id].kind = "condition" => ops[id].status # "STARTED"
  BY <1>1, <1>2, NoneIsStarted DEF Verdict
<1>4. PICK id : id = Id(Top)
  OBVIOUS
<1>5. (Id(Top))' = id
  BY <1>1, <1>4 DEF Id, Top
<1>6. KindOf(Top) = "condition" /\ (Absent <=> id \notin DOMAIN ops)
  BY <1>1, <1>4, TopOp DEF InOperation, Absent
<1>7. ASSUME ~Absent
      PROVE  /\ ops[id] = view[id] /\ Status = "READY" /\ ops[id].kind = "condition"
             /\ Status = ops[id].status
  <2>1. Exists(id) /\ Status = view[id].status /\ id \in DOMAIN ops
    BY <1>4, <1>6, <1>7 DEF Absent, Status
  <2>2. view[id] \in Operation /\ ops[id].kind = "condition"
    BY <1>1, <1>4, <1>6, <2>1, TopOp DEF InOperation
  <2>3. Status \in {"READY", "STARTED"}
    BY <1>1, <2>1, <2>2 DEF Operation, Statuses, Terminal, Failed
  <2>4. ops[id] = view[id]
    BY <1>1, <1>4, <1>6, <2>1, <2>3, TopOp DEF InOperation
  <2> QED
    BY <1>3, <2>1, <2>2, <2>3, <2>4
<1>8. /\ taken'.attempt = Attempt(id)
      /\ \/ taken'.payload = None /\ taken'.attempt = 0
         \/ Counted(taken'.payload, taken'.attempt)
  <2>1. CASE Absent
    BY <1>1, <1>6, <2>1 DEF Attempt
  <2>2. CASE ~Absent
    <3>1. taken' = [attempt |-> ops[id].attempt, payload |-> ops[id].payload] /\ id \in DOMAIN ops
      BY <1>1, <1>4, <1>6, <1>7, <2>2 DEF Payload
    <3>2. Counted(ops[id].payload, ops[id].attempt)
      BY <1>2, <1>7, <2>2, <3>1 DEF NoPollIsLost
    <3> QED
      BY <3>1, <3>2 DEF Attempt
  <2> QED
    BY <2>1, <2>2
<1>9. \A i \in DOMAIN queue' : queue'[i].action = "RETRY" =>
        \E j \in DOMAIN queue : queue'[i] = queue[j]
  <2>1. queue' = queue \/ Put("START", Top, "condition", None, FALSE)
    BY DEF BeginCheck
  <2> QED
    BY <1>0, <2>1, PutMore
<1>10. \A x : Attempt(x)' = Attempt(x)
  BY <1>1 DEF Attempt
<1>11. (\A i \in DOMAIN queue : queue[i].action = "RETRY" =>
         Counted(queue[i].payload, Attempt(queue[i].id) + 1))'
  <2>1. ASSUME NEW i \in DOMAIN queue', queue'[i].action = "RETRY"
        PROVE  Counted(queue'[i].payload, Attempt(queue'[i].id) + 1)
    <3>1. PICK j \in DOMAIN queue : queue'[i] = queue[j]
      BY <1>9, <2>1
    <3> QED
      BY <1>2, <2>1, <3>1 DEF NoPollIsLost
  <2> QED
    BY <1>10, <2>1 DEF Counted
<1>12. (pc = "checking" =>
         /\ taken.attempt = Attempt(Id(Top))
         /\ \/ taken.payload = None /\ taken.attempt = 0
            \/ Counted(taken.payload, taken.attempt))'
  <2>1. (Attempt(Id(Top)))' = Attempt(id)
    BY <1>5, <1>10, <1>1 DEF Attempt
  <2> QED
    BY <1>8, <2>1 DEF Counted
<1> QED
  BY <1>1, <1>2, <1>3, <1>11, <1>12 DEF NoPollIsLost, Counted

\* A check adds one to the state it continues from.
LEMMA PolledIsCounted ==
  ASSUME taken.attempt \in Nat,
         \/ taken.payload = None /\ taken.attempt = 0
         \/ Counted(taken.payload, taken.attempt)
  PROVE  Counted(Polled, taken.attempt) /\ Counted(Append(Polled, "s"), taken.attempt + 1)
<1>1. PICK n : n = taken.attempt /\ n \in Nat
  OBVIOUS
<1>2. PICK s : s = Polled
  OBVIOUS
<1>3. s \in Seq({"s"}) /\ Len(s) = n
  <2>1. CASE taken.payload = None
    <3>1. ~Counted(None, n)
      <4>1. SUFFICES ASSUME <<"none">> \in Seq({"s"}) PROVE FALSE
        BY DEF Counted, None
      <4>2. Len(<<"none">>) = 1 /\ <<"none">>[1] = "none"
        OBVIOUS
      <4>3. <<"none">>[1] \in {"s"}
        BY <4>1, <4>2
      <4> QED
        BY <4>2, <4>3
    <3>2. n = 0
      BY <1>1, <2>1, <3>1
    <3>3. s = <<>>
      BY <1>2, <2>1 DEF Polled
    <3> QED
      BY <3>2, <3>3
  <2>2. CASE taken.payload # None
    BY <1>1, <1>2, <2>2 DEF Polled, Counted
  <2> QED
    BY <2>1, <2>2
<1>4. Append(s, "s") \in Seq({"s"}) /\ Len(Append(s, "s")) = n + 1
  BY <1>1, <1>3
<1> QED
  BY <1>1, <1>2, <1>3, <1>4 DEF Counted

\* A check acts upon the state of the one before, and its RETRY has its own.
LEMMA CheckPolls ==
  ASSUME Inv, PollInv, Check
  PROVE  PollInv'
<1> SUFFICES ASSUME crashes' = 0 PROVE NoPollIsLost'
  BY DEF PollInv
<1>0. TypeOK
  BY DEF Inv
<1>1. PICK s, id, n : s = Append(Polled, "s") /\ id = Id(Top) /\ n = taken.attempt
  OBVIOUS
<1>2. /\ ops' = ops /\ stack' = stack /\ crashes' = crashes /\ pc = "checking"
      /\ polls' = polls \cup {[id |-> id, attempt |-> n + 1, state |-> Polled, new |-> Top.new]}
  BY <1>1 DEF Check
<1>3. NoPollIsLost
  BY <1>2 DEF PollInv
<1>4. n \in Nat
  BY <1>0, <1>1 DEF TypeOK
<1>5. n = Attempt(id) /\ Counted(Polled, n) /\ Counted(s, n + 1)
  <2>1. /\ taken.attempt = Attempt(Id(Top))
        /\ \/ taken.payload = None /\ taken.attempt = 0
           \/ Counted(taken.payload, taken.attempt)
    BY <1>2, <1>3 DEF NoPollIsLost
  <2> QED
    BY <1>1, <1>4, <2>1, PolledIsCounted
<1>6. PICK u : /\ queue' = Append(queue, u) /\ u.id = id
               /\ u.action = "RETRY" => u.payload = s
               /\ pc' = "unmet" => u.action = "RETRY"
               /\ pc' \in Verdict
  <2>1. CASE Put("SUCCEED", Top, "condition", s, FALSE) /\ pc' = "met"
    <3>1. PICK u : /\ queue' = Append(queue, u)
                   /\ u = [id |-> Top.path \o <<Top.at>>, kind |-> "condition",
                           parent |-> Top.parent, action |-> "SUCCEED", payload |-> s,
                           replay |-> FALSE]
      BY <2>1 DEF Put
    <3>2. u.id = id /\ u.action = "SUCCEED"
      BY <1>1, <3>1 DEF Id
    <3> QED
      BY <2>1, <3>1, <3>2 DEF Verdict
  <2>2. CASE Put("RETRY", Top, "condition", s, FALSE) /\ pc' = "unmet"
    <3>1. PICK u : /\ queue' = Append(queue, u)
                   /\ u = [id |-> Top.path \o <<Top.at>>, kind |-> "condition",
                           parent |-> Top.parent, action |-> "RETRY", payload |-> s,
                           replay |-> FALSE]
      BY <2>2 DEF Put
    <3>2. u.id = id /\ u.action = "RETRY" /\ u.payload = s
      BY <1>1, <3>1 DEF Id
    <3> QED
      BY <2>2, <3>1, <3>2 DEF Verdict
  <2>3. CASE Put("FAIL", Top, "condition", <<"boom">>, FALSE) /\ pc' = "broken"
    <3>1. PICK u : /\ queue' = Append(queue, u)
                   /\ u = [id |-> Top.path \o <<Top.at>>, kind |-> "condition",
                           parent |-> Top.parent, action |-> "FAIL", payload |-> <<"boom">>,
                           replay |-> FALSE]
      BY <2>3 DEF Put
    <3>2. u.id = id /\ u.action = "FAIL"
      BY <1>1, <3>1 DEF Id
    <3> QED
      BY <2>3, <3>1, <3>2 DEF Verdict
  <2> QED
    BY <1>1, <2>1, <2>2, <2>3 DEF Check
<1>7. /\ queue \in Seq(Update) /\ Len(queue) \in Nat
      /\ DOMAIN queue = 1 .. Len(queue)
  BY <1>0 DEF TypeOK
<1>8. /\ DOMAIN queue' = 1 .. Len(queue) + 1 /\ Len(queue') = Len(queue) + 1
      /\ queue'[Len(queue) + 1] = u /\ queue' # <<>>
      /\ \A i \in 1 .. Len(queue) : queue'[i] = queue[i]
  BY <1>6, <1>7
<1>9. \A x : Attempt(x)' = Attempt(x)
  BY <1>2 DEF Attempt
<1>10. (Id(Top))' = id
  BY <1>1, <1>2 DEF Id, Top
<1>11. (\A i \in DOMAIN queue : queue[i].action = "RETRY" =>
         Counted(queue[i].payload, Attempt(queue[i].id) + 1))'
  <2>1. ASSUME NEW i \in DOMAIN queue', queue'[i].action = "RETRY"
        PROVE  Counted(queue'[i].payload, Attempt(queue'[i].id) + 1)
    <3>1. CASE i \in 1 .. Len(queue)
      BY <1>3, <1>7, <1>8, <2>1, <3>1 DEF NoPollIsLost
    <3>2. CASE i = Len(queue) + 1
      BY <1>5, <1>6, <1>8, <2>1, <3>2
    <3> QED
      BY <1>7, <1>8, <2>1, <3>1, <3>2
  <2> QED
    BY <1>9, <2>1 DEF Counted
<1>12. \A p \in polls' : Len(p.state) = p.attempt - 1
  <2>1. Len(Polled) = (n + 1) - 1
    BY <1>4, <1>5 DEF Counted
  <2> QED
    BY <1>2, <1>3, <2>1 DEF NoPollIsLost
<1>13. pc' = "unmet" => /\ queue' # <<>>
                        /\ queue'[Len(queue')].id = id /\ queue'[Len(queue')].action = "RETRY"
  BY <1>6, <1>8
<1>14. \A o \in DOMAIN ops : ops[o].kind = "condition" =>
         /\ ops[o].status \in {"PENDING", "READY"} => Counted(ops[o].payload, ops[o].attempt)
         /\ ops[o].status = "STARTED" => o = id
  BY <1>1, <1>3 DEF NoPollIsLost
<1>15. pc' # "checking"
  BY <1>6 DEF Verdict
<1> QED
  BY <1>2, <1>6, <1>10, <1>11, <1>12, <1>13, <1>14, <1>15 DEF NoPollIsLost, Counted

\* A condition whose START is applied is the one that is being checked.
LEMMA StartedIsChecked ==
  ASSUME Inv, ReachInv, queue # <<>>, queue[1].action = "START", queue[1].kind = "condition"
  PROVE  pc \in {"checking"} \cup Verdict /\ queue[1].id = Id(Top)
<1>0. TypeOK /\ Shape /\ Origin
  BY DEF Inv
<1>1. 1 \in DOMAIN queue
  BY <1>0, QueueFacts
<1>2. PICK k \in 1 .. Len(stack) : /\ queue[1].id = Id(stack[k])
                                  /\ queue[1].kind = KindOf(stack[k])
  BY <1>1, UpdateIsOf
<1>3. Len(stack) \in Nat
  BY <1>0 DEF TypeOK
<1>4. ~\E j \in 1 .. Len(stack) - 1 : queue[1].id = Id(stack[j])
  <2>1. SUFFICES ASSUME NEW j \in 1 .. Len(stack) - 1, queue[1].id = Id(stack[j]) PROVE FALSE
    OBVIOUS
  <2>2. j \in 1 .. Len(stack)
    BY <1>3
  <2>3. KindOf(stack[j]) \in ChildKinds
    BY <1>0 DEF Shape, IsChildOf
  <2>4. j = k
    BY <1>0, <1>2, <2>1, <2>2, FramesDiffer
  <2> QED
    BY <1>2, <2>3, <2>4 DEF ChildKinds
<1>5. pc \in {"starting", "checking"} \cup Verdict /\ queue[1].id = Id(Top)
  BY <1>0, <1>1, <1>4 DEF Origin
<1>6. pc # "starting"
  <2>1. SUFFICES ASSUME pc = "starting" PROVE FALSE
    OBVIOUS
  <2>2. Len(stack) \in 1 .. Len(stack) /\ Top = stack[Len(stack)]
    BY <2>1, TopOp DEF InOperation
  <2>3. k = Len(stack)
    BY <1>0, <1>2, <1>5, <2>2, FramesDiffer
  <2>4. KindOf(Top) = "condition"
    BY <1>2, <2>2, <2>3
  <2> QED
    BY <2>1, <2>4 DEF ReachInv
<1> QED
  BY <1>5, <1>6

\* Of what is sent the service makes an attempt, with the state of its RETRY.
LEMMA SendPolls ==
  ASSUME Inv, ReachInv, PollInv, Send
  PROVE  PollInv'
<1> SUFFICES ASSUME crashes' = 0 PROVE NoPollIsLost'
  BY DEF PollInv
<1>0. TypeOK /\ Origin /\ Acceptable
  BY DEF Inv
<1>1. /\ program' = program /\ stack' = stack /\ pc' = pc /\ crashes' = crashes
      /\ polls' = polls /\ given' = given /\ queue # <<>> /\ taken' = taken
      /\ ops' = Process(Head(queue)) /\ queue' = Tail(queue)
  BY DEF Send, thread, history
<1>2. NoPollIsLost
  BY <1>1 DEF PollInv
<1>3. PICK u : u = queue[1]
  OBVIOUS
<1>4. /\ Head(queue) = u /\ u \in Update /\ 1 \in DOMAIN queue
      /\ Len(queue) \in Nat /\ Len(queue) >= 1 /\ DOMAIN queue = 1 .. Len(queue)
      /\ Len(queue') = Len(queue) - 1 /\ queue' \in Seq(Update)
      /\ DOMAIN queue' = 1 .. Len(queue) - 1
      /\ \A i \in DOMAIN queue' : i + 1 \in DOMAIN queue /\ queue'[i] = queue[i + 1]
  BY <1>0, <1>1, <1>3, QueueFacts
<1>5. /\ DOMAIN ops' = DOMAIN ops \cup {u.id}
      /\ \A id \in DOMAIN ops : id # u.id => ops'[id] = ops[id]
      /\ ops'[u.id].kind = u.kind /\ ops'[u.id].status = StatusAfter[u.action]
      /\ ops'[u.id].payload = u.payload
  BY <1>1, <1>3, Applied
<1>6. ops'[u.id].attempt = IF u.action = "START" THEN Attempt(u.id) ELSE Attempt(u.id) + 1
  BY <1>1, <1>4 DEF Process, Attempt
<1> DEFINE Now(x) == IF x \in DOMAIN ops' THEN ops'[x].attempt ELSE 0
<1>7. \A x : x # u.id \/ u.action = "START" => Now(x) = Attempt(x)
  BY <1>5, <1>6 DEF Attempt
<1>8. (Id(Top))' = Id(Top)
  BY <1>1 DEF Id, Top
<1>9. ASSUME NEW id \in DOMAIN ops', ops'[id].kind = "condition"
      PROVE  /\ ops'[id].status \in {"PENDING", "READY"} =>
                  Counted(ops'[id].payload, ops'[id].attempt)
             /\ ops'[id].status = "STARTED" => pc \in {"checking"} \cup Verdict /\ id = Id(Top)
  <2>1. CASE id # u.id
    BY <1>2, <1>5, <1>9, <2>1 DEF NoPollIsLost
  <2>2. CASE id = u.id /\ u.action = "START"
    <3>1. ops'[id].status = "STARTED"
      BY <1>5, <2>2 DEF StatusAfter
    <3> QED
      BY <1>1, <1>3, <1>5, <1>9, <2>2, <3>1, StartedIsChecked
  <2>3. CASE id = u.id /\ u.action = "RETRY"
    <3>1. ops'[id].status = "PENDING"
      BY <1>5, <2>3 DEF StatusAfter
    <3>2. Counted(u.payload, Attempt(u.id) + 1)
      BY <1>2, <1>3, <1>4, <2>3 DEF NoPollIsLost
    <3> QED
      BY <1>5, <1>6, <2>3, <3>1, <3>2
  <2>4. CASE id = u.id /\ u.action \in {"SUCCEED", "FAIL"}
    <3>1. ops'[id].status \in {"SUCCEEDED", "FAILED"}
      BY <1>5, <2>4 DEF StatusAfter
    <3> QED
      BY <3>1
  <2> QED
    BY <1>4, <2>1, <2>2, <2>3, <2>4 DEF Update
<1>10. pc = "checking" => u.action = "START"
  BY <1>0, <1>3, <1>4 DEF Origin, Verdict
<1>11. (pc = "checking" =>
         /\ taken.attempt = Attempt(Id(Top))
         /\ \/ taken.payload = None /\ taken.attempt = 0
            \/ Counted(taken.payload, taken.attempt))'
  <2>1. ASSUME pc = "checking" PROVE (Attempt(Id(Top)))' = Attempt(Id(Top))
    <3>1. Now(Id(Top)) = Attempt(Id(Top))
      BY <1>7, <1>10, <2>1
    <3> QED
      BY <1>8, <3>1 DEF Attempt
  <2> QED
    BY <1>1, <1>2, <2>1 DEF NoPollIsLost, Counted
<1>12. ASSUME NEW i \in DOMAIN queue', queue'[i].action = "RETRY"
       PROVE  Counted(queue'[i].payload, Now(queue'[i].id) + 1)
  <2>1. i + 1 \in DOMAIN queue /\ queue'[i] = queue[i + 1] /\ 1 \in 1 .. i /\ i \in Nat
    BY <1>4
  <2>2. queue'[i].id = u.id => u.action = "START"
    <3>1. AcceptableAt(i + 1)
      BY <1>0, <2>1 DEF Acceptable
    <3>2. 1 \in 1 .. (i + 1) - 1
      BY <2>1
    <3> QED
      BY <1>3, <2>1, <3>1, <3>2 DEF AcceptableAt, Follows
  <2>3. Counted(queue'[i].payload, Attempt(queue'[i].id) + 1)
    BY <1>2, <1>12, <2>1 DEF NoPollIsLost
  <2> QED
    BY <1>7, <2>2, <2>3
<1>13. (\A i \in DOMAIN queue : queue[i].action = "RETRY" =>
         Counted(queue[i].payload, Attempt(queue[i].id) + 1))'
  BY <1>12 DEF Counted, Attempt
<1>14. ASSUME pc = "unmet"
       PROVE  \/ /\ queue' # <<>>
                 /\ queue'[Len(queue')].id = Id(Top) /\ queue'[Len(queue')].action = "RETRY"
              \/ /\ queue' = <<>> /\ Id(Top) \in DOMAIN ops'
                 /\ ops'[Id(Top)].status \in {"PENDING", "READY"}
  <2>1. queue[Len(queue)].id = Id(Top) /\ queue[Len(queue)].action = "RETRY"
    BY <1>1, <1>2, <1>14 DEF NoPollIsLost
  <2>2. CASE Len(queue) = 1
    <3>1. queue' = <<>>
      BY <1>4, <2>2
    <3>2. ops'[u.id].status = "PENDING"
      BY <1>3, <1>5, <2>1, <2>2 DEF StatusAfter
    <3> QED
      BY <1>3, <1>5, <2>1, <2>2, <3>1, <3>2
  <2>3. CASE Len(queue) # 1
    <3>1. Len(queue') \in DOMAIN queue' /\ Len(queue') + 1 = Len(queue)
      BY <1>4, <2>3
    <3>2. queue'[Len(queue')] = queue[Len(queue)] /\ queue' # <<>>
      BY <1>4, <3>1
    <3> QED
      BY <2>1, <3>2
  <2> QED
    BY <2>2, <2>3
<1> QED
  BY <1>1, <1>2, <1>8, <1>9, <1>11, <1>13, <1>14 DEF NoPollIsLost, Counted

\* The service makes a condition READY that is PENDING.
LEMMA CompletePolls ==
  ASSUME Inv, PollInv, NEW id \in DOMAIN ops, Complete(id)
  PROVE  PollInv'
<1> SUFFICES ASSUME crashes' = 0 PROVE NoPollIsLost'
  BY DEF PollInv
<1>0. TypeOK
  BY DEF Inv
<1>1. /\ stack' = stack /\ pc' = pc /\ crashes' = crashes /\ polls' = polls
      /\ taken' = taken /\ queue' = queue
  BY DEF Complete, pipe, thread, history
<1>2. NoPollIsLost
  BY <1>1 DEF PollInv
<1>3. ops[id] \in Operation
  BY <1>0 DEF TypeOK
<1>4. /\ DOMAIN ops' = DOMAIN ops /\ \A o \in DOMAIN ops : o # id => ops'[o] = ops[o]
      /\ ops'[id].kind = ops[id].kind /\ ops'[id].attempt = ops[id].attempt
      /\ ops[id].kind = "condition" =>
           /\ ops[id].status = "PENDING" /\ ops'[id].status = "READY"
           /\ ops'[id].payload = ops[id].payload
  BY <1>3 DEF Complete, Operation
<1>5. ASSUME NEW o \in DOMAIN ops', ops'[o].kind = "condition"
      PROVE  /\ o \in DOMAIN ops /\ ops[o].kind = "condition"
             /\ ops'[o].payload = ops[o].payload /\ ops'[o].attempt = ops[o].attempt
             /\ \/ ops'[o].status = ops[o].status
                \/ ops[o].status = "PENDING" /\ ops'[o].status = "READY"
  BY <1>4, <1>5
<1>6. (\A o \in DOMAIN ops : ops[o].kind = "condition" =>
        /\ ops[o].status \in {"PENDING", "READY"} => Counted(ops[o].payload, ops[o].attempt)
        /\ ops[o].status = "STARTED" => pc \in {"checking"} \cup Verdict /\ o = Id(Top))'
  <2>1. ASSUME NEW o \in DOMAIN ops', ops'[o].kind = "condition"
        PROVE  /\ ops'[o].status \in {"PENDING", "READY"} =>
                    Counted(ops'[o].payload, ops'[o].attempt)
               /\ ops'[o].status = "STARTED" => pc \in {"checking"} \cup Verdict /\ o = Id(Top)
    <3>1. /\ o \in DOMAIN ops /\ ops[o].kind = "condition"
          /\ ops'[o].payload = ops[o].payload /\ ops'[o].attempt = ops[o].attempt
          /\ \/ ops'[o].status = ops[o].status
             \/ ops[o].status = "PENDING" /\ ops'[o].status = "READY"
      BY <1>5, <2>1
    <3>2. /\ ops[o].status \in {"PENDING", "READY"} => Counted(ops[o].payload, ops[o].attempt)
          /\ ops[o].status = "STARTED" => pc \in {"checking"} \cup Verdict /\ o = Id(Top)
      BY <1>2, <3>1 DEF NoPollIsLost
    <3> QED
      BY <3>1, <3>2
  <2> QED
    BY <1>1, <2>1 DEF Counted, Id, Top, Verdict
<1>7. \A x : Attempt(x)' = Attempt(x)
  BY <1>4 DEF Attempt
<1>8. (pc = "checking" =>
        /\ taken.attempt = Attempt(Id(Top))
        /\ \/ taken.payload = None /\ taken.attempt = 0
           \/ Counted(taken.payload, taken.attempt))'
  <2>1. (Attempt(Id(Top)))' = Attempt(Id(Top))
    BY <1>1, <1>4 DEF Attempt, Id, Top
  <2> QED
    BY <1>1, <1>2, <2>1 DEF NoPollIsLost, Counted
<1>9. (\A i \in DOMAIN queue : queue[i].action = "RETRY" =>
        Counted(queue[i].payload, Attempt(queue[i].id) + 1))'
  <2>1. ASSUME NEW i \in DOMAIN queue PROVE (Attempt(queue[i].id))' = Attempt(queue[i].id)
    BY <1>1, <1>4 DEF Attempt
  <2> QED
    BY <1>1, <1>2, <2>1 DEF NoPollIsLost, Counted
<1>10. (pc = "unmet" =>
         \/ /\ queue # <<>>
            /\ queue[Len(queue)].id = Id(Top) /\ queue[Len(queue)].action = "RETRY"
         \/ /\ queue = <<>> /\ Id(Top) \in DOMAIN ops
            /\ ops[Id(Top)].status \in {"PENDING", "READY"})'
  <2>1. ASSUME NEW x \in DOMAIN ops, ops[x].status \in {"PENDING", "READY"}
        PROVE  ops'[x].status \in {"PENDING", "READY"}
    BY <1>3, <1>4, <2>1 DEF Complete
  <2>2. (Id(Top))' = Id(Top)
    BY <1>1 DEF Id, Top
  <2> QED
    BY <1>1, <1>2, <1>4, <2>1, <2>2 DEF NoPollIsLost
<1> QED
  BY <1>1, <1>2, <1>6, <1>8, <1>9, <1>10 DEF NoPollIsLost

\* A step that is not about the checks of a condition.
LEMMA OthersPoll ==
  ASSUME TypeOK, PollInv, ops' = ops, crashes' = crashes, polls' = polls,
         pc \notin {"checking"} \cup Verdict, pc' \notin {"checking"} \cup Verdict,
         \/ queue' \in {queue, <<>>}
         \/ \E action \in {"START", "SUCCEED", "FAIL"} :
              \E f, kind, payload, replay : Put(action, f, kind, payload, replay)
  PROVE  PollInv'
<1>1. \A i \in DOMAIN queue' : queue'[i].action = "RETRY" =>
        \E j \in DOMAIN queue : queue'[i] = queue[j]
  <2>1. CASE queue' \in {queue, <<>>}
    BY <2>1
  <2>2. ASSUME NEW action \in {"START", "SUCCEED", "FAIL"}, NEW f, NEW kind, NEW payload,
               NEW replay, Put(action, f, kind, payload, replay)
        PROVE  \A i \in DOMAIN queue' : queue'[i].action = "RETRY" =>
                 \E j \in DOMAIN queue : queue'[i] = queue[j]
    BY <2>2, PutMore
  <2> QED
    BY <2>1, <2>2
<1>2. crashes = 0 => \A id \in DOMAIN ops : ops[id].kind = "condition" => ops[id].status # "STARTED"
  BY NoneIsStarted
<1> QED
  BY <1>1, <1>2, PollsStay

\* The operation of a check that is over is not STARTED.
LEMMA CheckedPolls ==
  ASSUME Inv, PollInv, Checked
  PROVE  PollInv'
<1>0. TypeOK /\ Open
  BY DEF Inv
<1>1. queue = <<>> /\ pc \in Verdict
  BY DEF Checked, Verdict
<1>2. /\ ops' = ops /\ crashes' = crashes /\ polls' = polls /\ queue' = <<>>
      /\ pc' \notin {"checking"} \cup Verdict
  <2>1. CASE Suspend
    BY <2>1 DEF Suspend, history, Verdict
  <2>2. CASE Outcome("returns", taken.payload) \/ Outcome("CheckError", <<"boom">>)
    BY <1>1, <2>2 DEF Outcome, Give, pipe, Verdict
  <2> QED
    BY <2>1, <2>2 DEF Checked
<1>3. ASSUME crashes = 0, NEW id \in DOMAIN ops, ops[id].kind = "condition"
      PROVE  ops[id].status # "STARTED"
  <2>1. NoPollIsLost
    BY <1>3 DEF PollInv
  <2>2. ops[id].status = "STARTED" => id = Id(Top)
    BY <1>3, <2>1 DEF NoPollIsLost
  <2>3. Id(Top) \in DOMAIN ops => ops[Id(Top)].status # "STARTED"
    <3>1. CASE pc = "met"
      BY <1>0, <1>1, <3>1 DEF Open, Told, StatusAfter
    <3>2. CASE pc = "broken"
      BY <1>0, <1>1, <3>2 DEF Open, Told, StatusAfter
    <3>3. CASE pc = "unmet"
      BY <1>1, <2>1, <3>3 DEF NoPollIsLost
    <3> QED
      BY <1>1, <3>1, <3>2, <3>3 DEF Verdict
  <2> QED
    BY <1>3, <2>2, <2>3
<1>4. \A i \in DOMAIN queue' : queue'[i].action = "RETRY" =>
        \E j \in DOMAIN queue : queue'[i] = queue[j]
  BY <1>2
<1> QED
  BY <1>2, <1>3, <1>4, PollsStay

\* The code calls an operation, or an invocation begins or ends.
LEMMA CallPolls ==
  ASSUME TypeOK, PollInv, Call \/ Started \/ EndHandler \/ Invoke
  PROVE  PollInv'
<1>1. /\ ops' = ops /\ crashes' = crashes /\ polls' = polls /\ queue' = queue
      /\ pc \in {"run", "starting", "raising", "down", "suspended"}
      /\ pc' \in {"check", "done", "failed", "run"}
  BY DEF Call, Started, EndHandler, AtEnd, Invoke, pipe, history
<1> QED
  BY <1>1, OthersPoll DEF Verdict

\* An operation other than a check gives the code its outcome.
LEMMA OutcomePolls ==
  ASSUME TypeOK, PollInv, pc \notin {"checking"} \cup Verdict,
         NEW how, NEW what, Outcome(how, what)
  PROVE  PollInv'
<1>1. /\ ops' = ops /\ crashes' = crashes /\ polls' = polls /\ queue' = queue
      /\ pc' \in {"run", "raising"}
  BY DEF Outcome, Give, pipe
<1> QED
  BY <1>1, OthersPoll DEF Verdict

\* The invocation suspends, but not in a check.
LEMMA SuspendPolls ==
  ASSUME TypeOK, PollInv, pc \notin {"checking"} \cup Verdict, Suspend
  PROVE  PollInv'
<1>1. /\ ops' = ops /\ crashes' = crashes /\ polls' = polls /\ queue' = <<>>
      /\ pc' = "suspended"
  BY DEF Suspend, history
<1> QED
  BY <1>1, OthersPoll DEF Verdict

\* An operation that has no check is called.
LEMMA OperationPolls ==
  ASSUME TypeOK, PollInv,
         Wait \/ ChainedInvoke \/ CreateCallback \/ ConditionIsDone \/ ChildIsDone
  PROVE  PollInv'
<1>0. TypeOK
  OBVIOUS
<1>1. pc = "check"
  BY DEF Wait, ChainedInvoke, CreateCallback, ConditionIsDone, ChildIsDone, At
<1>2. pc \notin {"checking"} \cup Verdict
  BY <1>1 DEF Verdict
<1>3. CASE \E kind : StartAndCheck(kind)
  <2>1. PICK kind : StartAndCheck(kind)
    BY <1>3
  <2>2. ops' = ops /\ crashes' = crashes /\ polls' = polls /\ pc' = "starting"
    BY <2>1 DEF StartAndCheck, history
  <2>3. Put("START", Top, kind, None, FALSE)
    BY <2>1, Zenon DEF StartAndCheck
  <2> QED
    BY <1>0, <1>2, <2>2, <2>3, OthersPoll DEF Verdict
<1>4. CASE \E how, what : Outcome(how, what)
  BY <1>2, <1>4, OutcomePolls
<1>5. CASE Suspend
  BY <1>2, <1>5, SuspendPolls
<1> QED
  BY <1>3, <1>4, <1>5 DEF Wait, ChainedInvoke, CreateCallback, ConditionIsDone, ChildIsDone

\* The code reads the result of a callback.
LEMMA ReadResultPolls ==
  ASSUME TypeOK, PollInv, ReadResult
  PROVE  PollInv'
<1>1. pc = "run"
  BY DEF ReadResult
<1>2. CASE Suspend
  BY <1>1, <1>2, SuspendPolls DEF Verdict
<1>3. CASE /\ ops' = ops /\ crashes' = crashes /\ polls' = polls /\ queue' = queue
           /\ pc' \in {"run", "raising"}
  BY <1>1, <1>3, OthersPoll DEF Verdict
<1> QED
  BY <1>2, <1>3 DEF ReadResult, Give, pipe

\* A child context begins, ends or is left.
LEMMA ChildPolls ==
  ASSUME Inv, PollInv,
         EnterChild \/ LeaveChild \/ CloseChild \/ ClosedChild \/ FailChild \/ FailedChild
  PROVE  PollInv'
<1>0. TypeOK
  BY DEF Inv
<1>1. CASE EnterChild
  <2>1. /\ ops' = ops /\ crashes' = crashes /\ polls' = polls /\ pc = "check" /\ pc' = "run"
        /\ Put("START", Top, "child", None, FALSE) \/ queue' = queue
    BY <1>1 DEF EnterChild, history
  <2> QED
    BY <1>0, <2>1, OthersPoll DEF Verdict
<1>2. CASE LeaveChild \/ ClosedChild \/ FailedChild
  <2>1. /\ pc \in {"run", "raising", "failing", "closing"}
        /\ \E how : Leave(how, Top.log)
    BY <1>2 DEF LeaveChild, ClosedChild, FailedChild, AtEnd
  <2>2. /\ ops' = ops /\ crashes' = crashes /\ polls' = polls /\ queue' = queue
        /\ pc' \in {"run", "raising"}
    BY <2>1 DEF Leave, Give, pipe
  <2> QED
    BY <1>0, <2>1, <2>2, OthersPoll DEF Verdict
<1>3. CASE CloseChild
  <2>1. /\ ops' = ops /\ crashes' = crashes /\ polls' = polls /\ pc = "run" /\ pc' = "closing"
        /\ \E payload, large : Put("SUCCEED", Creator, "child", payload, large)
    BY <1>3 DEF CloseChild, AtEnd
  <2> QED
    BY <1>0, <2>1, OthersPoll DEF Verdict
<1>4. CASE FailChild
  <2>1. /\ ops' = ops /\ crashes' = crashes /\ polls' = polls /\ pc = "raising"
        /\ pc' = "failing" /\ Put("FAIL", Creator, "child", Top.log, FALSE)
    BY <1>4 DEF FailChild, history
  <2> QED
    BY <1>0, <2>1, OthersPoll DEF Verdict
<1> QED
  BY <1>1, <1>2, <1>3, <1>4

\* No check was made.
LEMMA InitPolls == Init => PollInv
<1> SUFFICES ASSUME Init PROVE NoPollIsLost
  BY DEF PollInv
<1> QED
  BY DEF Init, NoPollIsLost

\* Every step keeps what is known of the checks.
LEMMA NextPolls ==
  ASSUME Inv, ReachInv, PollInv, [Next]_vars
  PROVE  PollInv'
<1>0. TypeOK
  BY DEF Inv
<1>1. CASE \E id \in DOMAIN ops : Complete(id)
  BY <1>1, CompletePolls
<1>2. CASE Send
  BY <1>2, SendPolls
<1>3. CASE Crash
  <2>1. crashes' # 0
    BY <1>3 DEF Crash, Dies, ReachInv
  <2> QED
    BY <2>1 DEF PollInv
<1>4. CASE Call \/ Started \/ EndHandler \/ Invoke
  BY <1>0, <1>4, CallPolls
<1>5. CASE Wait \/ ChainedInvoke \/ CreateCallback \/ ConditionIsDone \/ ChildIsDone
  BY <1>0, <1>5, OperationPolls
<1>6. CASE ReadResult
  BY <1>0, <1>6, ReadResultPolls
<1>7. CASE BeginCheck \/ Check \/ Checked
  BY <1>7, BeginCheckPolls, CheckPolls, CheckedPolls
<1>8. CASE EnterChild \/ LeaveChild \/ CloseChild \/ ClosedChild \/ FailChild \/ FailedChild
  BY <1>8, ChildPolls
<1>9. CASE UNCHANGED vars
  <2>1. /\ ops' = ops /\ queue' = queue /\ stack' = stack /\ pc' = pc /\ taken' = taken
        /\ crashes' = crashes /\ polls' = polls
    BY <1>9 DEF vars, pipe, thread, history
  <2> QED
    BY <2>1 DEF PollInv, NoPollIsLost, Attempt, Counted, Id, Top
<1> QED
  BY <1>1, <1>2, <1>3, <1>4, <1>5, <1>6, <1>7, <1>8, <1>9 DEF Next, Step

\* While no invocation has died, the check of attempt n of a condition continues from the state
\* of check n - 1 (wait_for_condition.py: the RETRY has the state, the next check reads it): of
\* a handler that does not tell a check's errors apart.
THEOREM PollsGoOn == Spec => [](ErrorsAlike => PollsContinue)
<1> DEFINE J == ErrorsAlike => ReachInv
           K == ErrorsAlike => PollInv
<1>1. K => (ErrorsAlike => PollsContinue)
  BY DEF PollInv, NoPollIsLost, PollsContinue
<1>2. (ErrorsAlike => Inv) /\ J /\ [Next]_vars => J'
  BY NextReaches, ProgramStays
<1>3. (ErrorsAlike => Inv) /\ J /\ K /\ [Next]_vars => K'
  BY NextPolls, ProgramStays
<1>4. Init => J /\ K
  BY InitReaches, InitPolls
<1> HIDE DEF J, K
<1> QED
  BY <1>1, <1>2, <1>3, <1>4, ContextsAreSound, PTL DEF Spec
=============================================================================
