---------------------------- MODULE MCWorkerLanes ----------------------------
(* Three threads that act on one execution around its completion.          *)
EXTENDS WorkerLanes

MCCallers == {"handler", "timer", "http"}
MCProgram == [handler |-> <<"work", "finish">>,
              timer |-> <<"work">>,
              http |-> <<"raise">>]
MCWorkers == 1 .. 4
=============================================================================
