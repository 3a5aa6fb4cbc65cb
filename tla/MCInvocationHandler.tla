-------------------------- MODULE MCInvocationHandler --------------------------
(* One error of the service of each class the classification tells apart. *)
EXTENDS InvocationHandler

Error(code, http) == [code |-> code, http |-> http, staleToken |-> FALSE]

ServiceErrors ==
  {Error("KMSDisabledException", 502), Error("TooManyRequestsException", 429),
   Error("InvalidParameterValueException", 400), Error("ServiceException", 500),
   [Error("InvalidParameterValueException", 400) EXCEPT !.staleToken = TRUE],
   Error("none", 0)}
=============================================================================
