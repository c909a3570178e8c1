----------------------------- MODULE Settlement -----------------------------
(***************************************************************************)
(* What an anchor promises about one burn, whatever retries, crashes and   *)
(* concurrent attempts happen underneath: the recipient is credited at most*)
(* once, a receipt is given only for the transaction that credited it, and *)
(* neither is ever taken back (LOGIC_PROOF.md section 3.2; the "permanent  *)
(* `settled` receipt" of handlers.ts).                                     *)
(***************************************************************************)
CONSTANTS Burns, Txs, None

VARIABLES
  credited,   \* credited[b]: the transaction that credited burn b, or None
  receipt     \* receipt[b]: the transaction a `settled` record names, or None

vars == <<credited, receipt>>

Init ==
  /\ credited = [b \in Burns |-> None]
  /\ receipt = [b \in Burns |-> None]

Credit(b, t) ==
  /\ credited[b] = None
  /\ credited' = [credited EXCEPT ![b] = t]
  /\ UNCHANGED receipt

GiveReceipt(b) ==
  /\ receipt[b] = None
  /\ credited[b] # None
  /\ receipt' = [receipt EXCEPT ![b] = credited[b]]
  /\ UNCHANGED credited

Next == \E b \in Burns : GiveReceipt(b) \/ \E t \in Txs : Credit(b, t)

Spec == Init /\ [][Next]_vars
=============================================================================
