------------------------------ MODULE MCSettle -------------------------------
(* TLC instances of Settle: the safety runs treat requests and instances as    *)
(* interchangeable.                                                            *)
EXTENDS Settle, TLC

Symmetry == Permutations(Calls) \cup Permutations(Clients)
==============================================================================
