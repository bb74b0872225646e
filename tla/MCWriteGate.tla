----------------------------- MODULE MCWriteGate -----------------------------
(***************************************************************************)
(* Two workers on one address and endpoint. The timers are those of the    *)
(* code to scale: the waits before the last but one attempt add up to a    *)
(* minute (in the code 63 s and 60 s), and the last wait is one.           *)
(***************************************************************************)
EXTENDS WriteGate

CONSTANTS worker1, worker2, key, oldKey, token, badToken, budget

MCEnvironments ==
  {[production |-> TRUE, key |-> key, token |-> token],
   [production |-> TRUE, key |-> Missing, token |-> token],
   [production |-> FALSE, key |-> Missing, token |-> Missing]}

MCCredentials ==
  {[key |-> key, token |-> token], [key |-> key, token |-> badToken],
   [key |-> oldKey, token |-> token], [key |-> Missing, token |-> Missing]}

MCWorkers == {worker1, worker2}

MCBudgetOf == [w \in MCWorkers |-> budget]
=============================================================================
