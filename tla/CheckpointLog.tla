---------------------------- MODULE CheckpointLog ----------------------------
(***************************************************************************)
(* What the checkpoint pipeline promises to the code that calls it: calls  *)
(* become durable in the order they were submitted, a call is acknowledged *)
(* only once it is durable, and after the first failure nothing becomes    *)
(* durable any more and the remaining callers may be told so.              *)
(***************************************************************************)
EXTENDS Naturals, Sequences

CONSTANT Calls

VARIABLES
  submitted,   \* the calls in the order they were submitted
  durable,     \* the calls the service holds, in its order
  acked,       \* calls that were told they are durable
  refused,     \* calls that were told the pipeline failed
  broken       \* the pipeline has failed

logVars == <<submitted, durable, acked, refused, broken>>

Members(s) == {s[i] : i \in 1 .. Len(s)}

LogInit ==
  /\ submitted = <<>> /\ durable = <<>>
  /\ acked = {} /\ refused = {}
  /\ broken = FALSE

Submit(c) ==
  /\ c \notin Members(submitted)
  /\ submitted' = Append(submitted, c)
  /\ UNCHANGED <<durable, acked, refused, broken>>

\* The next calls of the submission order become durable, one or several together.
Persist ==
  /\ ~broken
  /\ \E n \in Len(durable) + 1 .. Len(submitted) : durable' = SubSeq(submitted, 1, n)
  /\ UNCHANGED <<submitted, acked, refused, broken>>

Acknowledge(c) ==
  /\ c \in Members(durable) /\ c \notin refused
  /\ acked' = acked \cup {c}
  /\ UNCHANGED <<submitted, durable, refused, broken>>

\* The failure may hit a batch the service had already applied.
Break ==
  /\ ~broken
  /\ broken' = TRUE
  /\ \E n \in Len(durable) .. Len(submitted) : durable' = SubSeq(submitted, 1, n)
  /\ UNCHANGED <<submitted, acked, refused>>

Refuse(c) ==
  /\ broken
  /\ c \in Members(submitted) /\ c \notin acked
  /\ refused' = refused \cup {c}
  /\ UNCHANGED <<submitted, durable, acked, broken>>

LogNext ==
  \/ Persist \/ Break
  \/ \E c \in Calls : Submit(c) \/ Acknowledge(c) \/ Refuse(c)

LogSpec == LogInit /\ [][LogNext]_logVars

=============================================================================
