------------------------------ MODULE MCReceive ------------------------------
(* TLC instances of Receive: the safety runs treat calls, clients and burns   *)
(* as interchangeable.                                                        *)
EXTENDS Receive, TLC

Symmetry ==
  Permutations(Calls) \cup Permutations(Clients) \cup Permutations(Burns)
==============================================================================
