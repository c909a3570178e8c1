------------------------------- MODULE Receive -------------------------------
(***************************************************************************)
(* receive() of packages/core/src/receive.ts together with submitMint() of *)
(* packages/core/src/forwarder/index.ts: any number of concurrent calls,   *)
(* in one or several processes, over a replay store and the Stellar        *)
(* network.  Each action is the code between two awaits on shared state.   *)
(*                                                                         *)
(* Awaits that touch no shared state (attestation polling, the trustline   *)
(* check) are one stage, "attesting"; their error paths are kept by kind,  *)
(* because the handlers answer each kind differently.                      *)
(***************************************************************************)
EXTENDS Stellar

CONSTANTS
  Clients,      \* processes, each with one createAnchorCCTP() client
  SharedStore,  \* TRUE: one durable replayStore adapter injected in every client
                \* FALSE: the default in-memory map of each client
  PostMintMayFail,  \* the dust collector is misconfigured, or an injected adapter
                    \* may fail to write
  PrepareErrors     \* the kinds of error thrown before the mint that are told apart

ASSUME ReceiveAssumption ==
  /\ SharedStore \in BOOLEAN
  /\ PostMintMayFail \in BOOLEAN
  /\ None \notin Clients
  /\ PrepareErrors \subseteq {"AttestationTimeout", "Invalid", "MintFailed", "Other"}

VARIABLES
  call,         \* call[c]: the local state of one invocation of receive()
  store         \* store[s][b]: the replay record of burn b in store s

receiveVars == <<tx, sequence, call, store>>

Stores == IF SharedStore THEN {"shared"} ELSE Clients

StoreOf(cl) == IF SharedStore THEN "shared" ELSE cl

\* The states of a call, and the kinds of its outcome: "settled", an error class
\* (Other: AttestationVerification, TrustlineCreation, InvalidConfig and whatever
\* an adapter throws), or "Crashed" with its process.
Stages == {"idle", "attesting", "ready", "simulated", "confirming", "minted",
           "recorded", "done"}

Outcomes == {"none", "settled", "Replay", "AttestationTimeout", "Invalid",
             "MintFailed", "MintUnconfirmed", "Other", "Crashed"}

Idle == [pc |-> "idle", client |-> None, burn |-> None, seq |-> 0, out |-> "none"]

\* A SettlementRecord: its status and the mint transaction it names.
NoRecord == [status |-> "none", tx |-> None]

Submitted(c) == [status |-> "submitted", tx |-> c]

Settled(c) == [status |-> "settled", tx |-> c]

Records == [status : {"none", "submitted", "settled"}, tx : Calls \cup {None}]

CallStates == [pc : Stages, client : Clients \cup {None}, burn : Burns \cup {None},
               seq : Nat, out : Outcomes]

\* The type invariant of the SDK's own state: receive.ts and replay/index.ts.
ReceiveTypeOK ==
  /\ ChainTypeOK
  /\ call \in [Calls -> CallStates]
  /\ store \in [Stores -> [Burns -> Records]]

ReceiveInit ==
  /\ ChainInit
  /\ call = [c \in Calls |-> Idle]
  /\ store = [s \in Stores |-> [b \in Burns |-> NoRecord]]
-----------------------------------------------------------------------------
(***************************************************************************)
(* Steps of one call.                                                      *)
(***************************************************************************)
Live(c) == call[c].pc \notin {"idle", "done"}

Goto(c, stage) == call' = [call EXCEPT ![c].pc = stage]

\* The call returns or throws: only its burn and outcome are still of interest.
Ends(c, outcome) ==
  call' = [call EXCEPT ![c] = [@ EXCEPT !.pc = "done", !.out = outcome,
                                        !.client = None, !.seq = 0]]

\* Mutant: the store is written with one record instead of the whole map.
MarkForgettingOthers(c, record) ==
  store' = [store EXCEPT ![StoreOf(call[c].client)] = record]

Mark(c, record) ==
  store' = [store EXCEPT ![StoreOf(call[c].client)][call[c].burn] = record]

\* Step 3 of receive(): the replay guard.  The parameters were validated before.
Begin(c, cl, b) ==
  /\ call[c].pc = "idle"
  /\ LET seen == store[StoreOf(cl)][b] # NoRecord
     IN  call' = [call EXCEPT ![c] =
           IF seen
           THEN [Idle EXCEPT !.pc = "done", !.burn = b, !.out = "Replay"]
           ELSE [Idle EXCEPT !.pc = "attesting", !.burn = b, !.client = cl,
                             !.seq = sequence]]
  /\ UNCHANGED <<chainVars, store>>

\* Steps 5 to 9, up to submitMint: address translation, attestation polling,
\* amount cross-check, trustline, configuration checks.
Prepare(c) ==
  /\ call[c].pc = "attesting"
  /\ \/ Goto(c, "ready")
     \/ \E e \in PrepareErrors : Ends(c, e)
  /\ UNCHANGED <<chainVars, store>>

\* The transaction is built (ForwarderContractError is an Other) and simulated:
\* simulateTransaction refuses a burn whose nonce is used, and can also just fail.
Simulate(c) ==
  /\ call[c].pc = "ready"
  /\ \/ ~ Minted(call[c].burn) /\ Goto(c, "simulated")
     \/ \E e \in {"MintFailed", "Other"} : Ends(c, e)
  /\ UNCHANGED <<chainVars, store>>

\* Assembling, signing or sending is refused: nothing reaches the network.  An SDK
\* error of the signer is passed on, any other is wrapped in MintFailed.
SendRejected(c) ==
  /\ call[c].pc = "simulated"
  /\ \E e \in {"MintFailed", "Other"} : Ends(c, e)
  /\ UNCHANGED <<chainVars, store>>

\* Mutant: PENDING is taken for SUCCESS (the state of the code before fix B3).
SendAcceptedIsMinted(c) ==
  /\ call[c].pc = "simulated"
  /\ Broadcast(c, call[c].burn, call[c].seq)
  /\ Goto(c, "minted")
  /\ UNCHANGED store

\* sendTransaction answers PENDING with a hash.
SendAccepted(c) ==
  /\ call[c].pc = "simulated"
  /\ Broadcast(c, call[c].burn, call[c].seq)
  /\ Goto(c, "confirming")
  /\ UNCHANGED store

\* The transaction is broadcast and the answer lost: sendTransaction throws, and
\* submitMint reports MintFailed.
SendAnswerLost(c) ==
  /\ call[c].pc = "simulated"
  /\ Broadcast(c, call[c].burn, call[c].seq)
  /\ Ends(c, "MintFailed")
  /\ UNCHANGED store

\* Mutant: a transaction the network still holds counts as confirmed.
ConfirmSeenEarly(c) ==
  /\ call[c].pc = "confirming"
  /\ \/ tx[c].st \in {"pending", "success"} /\ Goto(c, "minted")
     \/ tx[c].st = "failed" /\ Ends(c, "MintFailed")
  /\ UNCHANGED <<chainVars, store>>

\* One of the getTransaction polls reports SUCCESS or FAILED.
ConfirmSeen(c) ==
  /\ call[c].pc = "confirming"
  /\ \/ tx[c].st = "success" /\ Goto(c, "minted")
     \/ tx[c].st = "failed" /\ Ends(c, "MintFailed")
  /\ UNCHANGED <<chainVars, store>>

\* Mutant: the poll loop has no last attempt.
ConfirmPollsForever(c) ==
  /\ call[c].pc = "confirming"
  /\ UNCHANGED receiveVars

\* Mutant: an unconfirmed send is marked, as a confirmed one is.
ConfirmWindowElapsesMarked(c) ==
  /\ call[c].pc = "confirming"
  /\ Mark(c, Submitted(c))
  /\ Ends(c, "MintUnconfirmed")
  /\ UNCHANGED chainVars

\* Every poll of the window answered NOT_FOUND or threw, whatever the ledger holds.
ConfirmWindowElapses(c) ==
  /\ call[c].pc = "confirming"
  /\ Ends(c, "MintUnconfirmed")
  /\ UNCHANGED <<chainVars, store>>

\* C5: `submitted` is written only now, after SUCCESS.
MarkSubmitted(c) ==
  /\ call[c].pc = "minted"
  /\ Mark(c, Submitted(c))
  /\ Goto(c, "recorded")
  /\ UNCHANGED chainVars

\* The post-mint work succeeds and `settled` is written.
MarkSettled(c) ==
  /\ call[c].pc = "recorded"
  /\ Mark(c, Settled(c))
  /\ Ends(c, "settled")
  /\ UNCHANGED chainVars

\* The post-mint work throws: an injected adapter fails to write either record, or
\* the dust collector is not a G address.  (convert6to7 also throws, but only on a
\* net amount the network would not have minted.)
PostMintFails(c) ==
  /\ PostMintMayFail
  /\ \/ call[c].pc = "minted" /\ SharedStore
     \/ call[c].pc = "recorded"
  /\ Ends(c, "Other")
  /\ UNCHANGED <<chainVars, store>>

CallStep(c) ==
  \/ Prepare(c)
  \/ Simulate(c)
  \/ SendRejected(c)
  \/ SendAccepted(c)
  \/ SendAnswerLost(c)
  \/ ConfirmSeen(c)
  \/ ConfirmWindowElapses(c)
  \/ MarkSubmitted(c)
  \/ MarkSettled(c)
  \/ PostMintFails(c)

\* Mutant: a corrupt or missing file is read back as an empty store after a restart.
CrashClientForgets(cl) ==
  /\ call' = [c \in Calls |->
       IF call[c].client = cl /\ Live(c)
       THEN [call[c] EXCEPT !.pc = "done", !.out = "Crashed", !.client = None, !.seq = 0]
       ELSE call[c]]
  /\ store' = [store EXCEPT ![StoreOf(cl)] = [b \in Burns |-> NoRecord]]
  /\ UNCHANGED chainVars

\* A process dies with its calls; an in-memory store dies with it.
CrashClient(cl) ==
  /\ call' = [c \in Calls |->
       IF call[c].client = cl /\ Live(c)
       THEN [call[c] EXCEPT !.pc = "done", !.out = "Crashed", !.client = None, !.seq = 0]
       ELSE call[c]]
  /\ store' = IF SharedStore THEN store
              ELSE [store EXCEPT ![cl] = [b \in Burns |-> NoRecord]]
  /\ UNCHANGED chainVars
-----------------------------------------------------------------------------
(***************************************************************************)
(* The SDK on its own: callers invoke receive() with the sponsor sequence  *)
(* they just read, concurrently and again after any failure.               *)
(***************************************************************************)
ReceiveNext ==
  \/ \E c \in Calls, cl \in Clients, b \in Burns : Begin(c, cl, b)
  \/ \E c \in Calls : CallStep(c)
  \/ \E cl \in Clients : CrashClient(cl)
  \/ ChainStep /\ UNCHANGED <<call, store>>

ReceiveSpec == ReceiveInit /\ [][ReceiveNext]_receiveVars
-----------------------------------------------------------------------------
(***************************************************************************)
(* Properties.                                                             *)
(***************************************************************************)
\* The calls that hold a confirmed mint of burn b.
SettlementsOf(b) ==
  {c \in Calls : call[c].burn = b /\ (call[c].pc \in {"minted", "recorded"}
                                     \/ call[c].out = "settled")}

\* LOGIC_PROOF.md section 3.2: the number of successful settlements of a burn is at
\* most one, |R(H)| <= 1, although concurrent calls all pass the guard at
\* receive.ts:148 before any of them marks the burn at receive.ts:328.
AtMostOneSettlement ==
  \A b \in Burns : \A c, d \in SettlementsOf(b) : c = d

\* Every replay record, `submitted` as well as `settled`, names a transaction that
\* minted the very burn it is filed under: submitMint returns a hash only on SUCCESS,
\* so no interleaving, lost answer or crash leaves a receipt for a mint that failed.
RecordsNameMints ==
  \A s \in Stores, b \in Burns :
    store[s][b] # NoRecord => store[s][b].tx \in Calls /\ MintedBy(store[s][b].tx, b)

\* A call refused as a replay was refused for a burn that is credited: no rejected, lost,
\* unconfirmed or crashed attempt, of this process or another, leaves a mark that makes the
\* guard turn away a burn whose recipient got nothing (the state before fix B3).
RefusedIsCredited ==
  \A c \in Calls : call[c].out = "Replay" => Minted(call[c].burn)

\* receive.ts:326, "crash here -> retry sees submitted, no double-mint", and
\* apps/docs/core/replay.md:9, "a crash between submit and mark cannot double mint
\* when you retry with the same hash": a call that starts after another one crashed
\* with its mint sent is stopped by the guard.
CrashedMintSeenOnRetry ==
  [][\A c, d \in Calls :
       /\ call[c].out = "Crashed"
       /\ tx[c].st \in {"pending", "success"}
       /\ call[d].pc = "idle"
       /\ call'[d].burn = call[c].burn
       => call'[d].out = "Replay"]_receiveVars

(***************************************************************************)
(* With a shared store, the SDK implements Settlement: its receipts are the*)
(* `settled` records, and concurrency and crashes lose or change none.     *)
(***************************************************************************)
CreditOf(b) == IF Minted(b) THEN CHOOSE c \in Calls : MintedBy(c, b) ELSE None

StoreReceiptOf(b) ==
  IF SharedStore /\ store["shared"][b].status = "settled"
  THEN store["shared"][b].tx ELSE None

SdkSettlement ==
  INSTANCE Settlement WITH
    Txs <- Calls,
    credited <- [b \in Burns |-> CreditOf(b)],
    receipt <- [b \in Burns |-> StoreReceiptOf(b)]

\* receive.ts and forwarder/index.ts keep the promise of Settlement: one credit a burn,
\* receipts only for it, neither taken back.
ReceiveImplementsSettlement == SdkSettlement!Spec
=============================================================================
