------------------------------- MODULE Stellar -------------------------------
(***************************************************************************)
(* The Stellar network as the SDK sees it through its SorobanTransport     *)
(* (simulateTransaction, sendTransaction, getTransaction) and through the  *)
(* sponsor account's sequence number.  None of this code is in the         *)
(* repository: it is modelled from what submitMint relies on.              *)
(*                                                                         *)
(* A mint transaction calls mint_and_forward on the forwarder contract,    *)
(* which consumes the CCTP nonce of one burn.  Each call of receive() signs*)
(* at most one transaction, so a transaction is named by the call that     *)
(* broadcasts it.                                                          *)
(***************************************************************************)
EXTENDS Naturals, FiniteSets

CONSTANTS
  Burns,      \* burn transaction hashes on the source chain
  Calls,      \* invocations of receive(), and the mint transactions they sign
  None        \* no burn, no call, no record

ASSUME NoneAssumption == None \notin Burns /\ None \notin Calls

VARIABLES
  tx,         \* tx[c]: what the network knows of the transaction of call c
  sequence    \* the sponsor account's sequence number on the ledger

chainVars == <<tx, sequence>>

TxStates == {"none", "pending", "success", "failed", "expired"}

NoTx == [st |-> "none", burn |-> None, seq |-> 0]

ChainTypeOK ==
  /\ tx \in [Calls -> [st : TxStates, burn : Burns \cup {None}, seq : Nat]]
  /\ sequence \in Nat

ChainInit ==
  /\ tx = [c \in Calls |-> NoTx]
  /\ sequence = 0

(***************************************************************************)
(* The nonce of burn b has been consumed: its recipient is credited.       *)
(***************************************************************************)
MintedBy(c, b) == tx[c].st = "success" /\ tx[c].burn = b

Minted(b) == \E c \in Calls : MintedBy(c, b)

(***************************************************************************)
(* The network accepts the transaction of call c.  TransactionBuilder      *)
(* signs it with the sequence number after the one the caller read.        *)
(***************************************************************************)
Broadcast(c, b, seqRead) ==
  /\ tx[c].st = "none"
  /\ tx' = [tx EXCEPT ![c] = [st |-> "pending", burn |-> b, seq |-> seqRead + 1]]
  /\ UNCHANGED sequence

(***************************************************************************)
(* A ledger applies a pending transaction.  It needs the sponsor's next    *)
(* sequence number and consumes it whether the contract call succeeds or   *)
(* not.  The call fails on a used nonce, and may fail for other reasons    *)
(* (fees, a missing trustline).                                            *)
(***************************************************************************)
Apply(c) ==
  /\ tx[c].st = "pending"
  /\ tx[c].seq = sequence + 1
  /\ sequence' = sequence + 1
  /\ \/ /\ ~ Minted(tx[c].burn)
        /\ tx' = [tx EXCEPT ![c].st = "success"]
     \/ tx' = [tx EXCEPT ![c].st = "failed"]

(***************************************************************************)
(* A pending transaction leaves the queue unapplied: its sequence number   *)
(* was taken by another one, or its 30 s time bound passed.                *)
(***************************************************************************)
Expire(c) ==
  /\ tx[c].st = "pending"
  /\ tx' = [tx EXCEPT ![c].st = "expired"]
  /\ UNCHANGED sequence

ChainStep == \E c \in Calls : Apply(c) \/ Expire(c)
=============================================================================
