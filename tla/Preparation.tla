----------------------------- MODULE Preparation -----------------------------
(***************************************************************************)
(* Steps 5 to 9 of receive() (packages/core/src/receive.ts), which module  *)
(* Receive has as one step, Prepare: the bounded polling of Iris, the      *)
(* checks of the attested message, the destination's trustline, and what   *)
(* the configuration must hold.  The calls of several burns of one         *)
(* destination run concurrently; each await is a step.                     *)
(*                                                                         *)
(* An Iris read that fails, is refused, times out or cannot be parsed is   *)
(* one that said nothing.  The backoff between reads touches no state and  *)
(* belongs to the read before it.                                          *)
(***************************************************************************)
EXTENDS Naturals

CONSTANTS
  Preps,       \* calls of receive(), each for a burn of its own
  MaxRetries,  \* reads of Iris a call makes: 60
  Sequence     \* the destination's sequence number: the ledger of its creation, times 2^32

ASSUME PreparationAssumption == MaxRetries \in Nat \ {0} /\ Sequence \in Nat \ {0}

VARIABLES
  iris,       \* iris[p]: what Iris has on the burn of p
  trusted,    \* the destination has a trustline for the USDC of this deployment
  provider,   \* who creates trustlines: the provider of env-rpc.ts, an injected one, none
  allowed,    \* trustlines may be created, and the cap covers the reserve
  prep,       \* prep[p]: the call
  overtaken   \* history: calls told of a trustline that was removed before they used the answer

prepVars == <<iris, trusted, provider, allowed, prep, overtaken>>

\* What Iris answers: a row that is pending or incomplete, or a complete one with a message
\* of the right amount, of another, or of no use (not hex, or too short for its fields).
Rows == {"none", "pending", "attested", "mismatch", "malformed"}

\* The kinds of outcome module Receive tells apart.
PrepOutcomes == {"none", "ready", "AttestationTimeout", "Invalid", "MintFailed", "Other"}

NewPrep == [pc |-> "idle", attempt |-> 0, saw |-> FALSE, out |-> "none"]

\* `saw` is what the destination's account was answered to hold.
PrepStates == [pc : {"idle", "polling", "trustline", "answered", "creating", "done"},
               attempt : 0..MaxRetries, saw : BOOLEAN, out : PrepOutcomes]

\* The type invariant of the preparation of mints.
PreparationTypeOK ==
  /\ iris \in [Preps -> Rows]
  /\ trusted \in BOOLEAN
  /\ provider \in {"shipped", "injected", "none"}
  /\ allowed \in BOOLEAN
  /\ prep \in [Preps -> PrepStates]
  /\ overtaken \subseteq Preps

PreparationInit ==
  /\ iris = [p \in Preps |-> "none"]
  /\ trusted \in BOOLEAN
  /\ provider \in {"shipped", "injected", "none"}
  /\ allowed \in BOOLEAN
  /\ prep = [p \in Preps |-> NewPrep]
  /\ overtaken = {}
-----------------------------------------------------------------------------
Ended(p, out) == [prep EXCEPT ![p] = [NewPrep EXCEPT !.pc = "done", !.out = out]]

Moved(p, pc) == [prep EXCEPT ![p].pc = pc]

\* Steps 8 and 9's demands of the configuration: without one of them the call ends, with
\* MintFailed (signer, forwarder, transport) or another error (sponsor, sequence).
Passes(p) == \E e \in {"ready", "MintFailed", "Other"} : prep' = Ended(p, e)

\* Steps 5 and 5b: the address is not one, or the issuer of mainnet is not configured.
StartPrep(p) ==
  /\ prep[p].pc = "idle"
  /\ \/ prep' = [prep EXCEPT ![p] = [NewPrep EXCEPT !.pc = "polling", !.attempt = 1]]
     \/ \E e \in {"Invalid", "Other"} : prep' = Ended(p, e)
  /\ UNCHANGED <<iris, trusted, provider, allowed, overtaken>>

\* isWellFormedAttestation, and long enough for its fields.
WellFormed(p) == iris[p] # "malformed"

\* A complete row is checked at once, its amount against the caller's; then that there is a
\* signer (MintFailed), anyone to ask for a trustline, and that a given sequence is a number.
MessageChecked(p) ==
  \/ ~ WellFormed(p) /\ prep' = Ended(p, "Other")
  \/ iris[p] = "mismatch" /\ prep' = Ended(p, "Invalid")
  \/ /\ iris[p] = "attested"
     /\ \/ prep' = Ended(p, "MintFailed")
        \/ prep' = Ended(p, "Other")
        \/ provider # "none" /\ prep' = Moved(p, "trustline")

ReadSaidNothing(p) ==
  IF prep[p].attempt = MaxRetries THEN Ended(p, "AttestationTimeout")
  ELSE [prep EXCEPT ![p].attempt = prep[p].attempt + 1]

\* Mutant: the loop has no last attempt.
PollForEver(p) ==
  /\ prep[p].pc = "polling"
  /\ \/ iris[p] \notin {"none", "pending"} /\ MessageChecked(p)
     \/ prep' = [prep EXCEPT ![p].attempt =
          IF prep[p].attempt = MaxRetries THEN prep[p].attempt ELSE prep[p].attempt + 1]
  /\ UNCHANGED <<iris, trusted, provider, allowed, overtaken>>

\* One read of pollAttestationByTx.
PollIris(p) ==
  /\ prep[p].pc = "polling"
  /\ \/ iris[p] \notin {"none", "pending"} /\ MessageChecked(p)
     \/ prep' = ReadSaidNothing(p)
  /\ UNCHANGED <<iris, trusted, provider, allowed, overtaken>>

\* hasTrustline of env-rpc.ts: whether the account's balances name the USDC of the deployment;
\* a read that fails, for whatever reason, says that they do not.
HasTrustline == {trusted, FALSE}

Learns(p, saw) == [prep EXCEPT ![p].pc = "answered", ![p].saw = saw]

\* Mutant: an account that cannot be read is taken to have its trustline.
ReadTrustlineHopefully(p) ==
  /\ prep[p].pc = "trustline"
  /\ \E saw \in {trusted, TRUE} : prep' = Learns(p, saw)
  /\ UNCHANGED <<iris, trusted, provider, allowed, overtaken>>

\* Horizon reads the account.  An injected provider may also throw.
ReadTrustline(p) ==
  /\ prep[p].pc = "trustline"
  /\ \/ \E saw \in HasTrustline : prep' = Learns(p, saw)
     \/ provider = "injected" /\ prep' = Ended(p, "Other")
  /\ UNCHANGED <<iris, trusted, provider, allowed, overtaken>>

\* The call goes on with the answer it was given.  Without a trustline, creation must be
\* allowed and within its cap.
UseAnswer(p) ==
  /\ prep[p].pc = "answered"
  /\ \/ prep[p].saw /\ Passes(p)
     \/ ~ prep[p].saw /\ allowed /\ prep' = Moved(p, "creating")
     \/ ~ prep[p].saw /\ ~ allowed /\ prep' = Ended(p, "Other")
  /\ UNCHANGED <<iris, trusted, provider, allowed, overtaken>>

\* buildChangeTrustXdr numbers its transaction from an Account(destination, '0').
ChangeTrustSequence == 0 + 1

\* createTrustline of env-rpc.ts signs and submits the transaction as it is; an injected
\* provider may build its own.
ProviderCanCreate == provider = "injected" \/ ChangeTrustSequence = Sequence + 1

\* The transaction is taken and the answer comes back; or it is refused, or taken and the
\* answer lost, and the call ends.
CreateTrustline(p) ==
  /\ prep[p].pc = "creating"
  /\ \/ ProviderCanCreate /\ trusted' = TRUE /\ prep' = Learns(p, TRUE)
     \/ /\ prep' = Ended(p, "Other")
        /\ trusted' \in {trusted, trusted \/ ProviderCanCreate}
  /\ UNCHANGED <<iris, provider, allowed, overtaken>>
-----------------------------------------------------------------------------
\* Circle sees the burn, and attests it.
Attests(p) ==
  /\ \/ iris[p] = "none" /\ \E row \in Rows \ {"none"} : iris' = [iris EXCEPT ![p] = row]
     \/ iris[p] = "pending" /\ \E row \in Rows \ {"none", "pending"} :
          iris' = [iris EXCEPT ![p] = row]
  /\ UNCHANGED <<trusted, provider, allowed, prep, overtaken>>

Told(p) == prep[p].pc = "answered" /\ prep[p].saw

\* The owner of the destination adds or removes its trustline.
OwnerTrusts ==
  /\ trusted' = ~ trusted
  /\ overtaken' = IF trusted THEN overtaken \cup {p \in Preps : Told(p)} ELSE overtaken
  /\ UNCHANGED <<iris, provider, allowed, prep>>

PrepStep(p) == PollIris(p) \/ ReadTrustline(p) \/ UseAnswer(p) \/ CreateTrustline(p)

PreparationNext ==
  \/ \E p \in Preps : StartPrep(p) \/ PrepStep(p) \/ Attests(p)
  \/ OwnerTrusts

PreparationSpec == PreparationInit /\ [][PreparationNext]_prepVars

\* A read of Iris has a time limit of 15 s and the program itself goes on.  Horizon's reads and
\* submissions have none, and need not end.
PreparationFairness == \A p \in Preps : WF_prepVars(PollIris(p)) /\ WF_prepVars(UseAnswer(p))

PreparationFairSpec == PreparationSpec /\ PreparationFairness
-----------------------------------------------------------------------------
\* A call goes on to mint only when Iris has attested its burn, for its amount, and the
\* destination has a trustline: whatever reads and creations failed before and whatever other
\* calls did, all that can take it away is the owner, between Horizon's answer and its use.
MintsArePrepared ==
  [][\A p \in Preps : prep[p].out # "ready" /\ prep'[p].out = "ready" =>
       iris'[p] = "attested" /\ (trusted' \/ p \in overtaken')]_prepVars

\* A call as module Receive has it, once past the replay guard: the network, the stores and
\* the sequence number are as the call found them.
WholeCall(p) ==
  LET over == prep[p].pc = "done" /\ prep[p].out # "ready" IN
  [pc |-> IF over THEN "done" ELSE IF prep[p].pc = "done" THEN "ready" ELSE "attesting",
   client |-> IF over THEN "none" ELSE "client",
   burn |-> p,
   seq |-> 0,
   out |-> IF over THEN prep[p].out ELSE "none"]

Whole ==
  INSTANCE Receive WITH
    Burns <- Preps,
    Calls <- Preps,
    None <- "none",
    Clients <- {"client"},
    SharedStore <- FALSE,
    PostMintMayFail <- FALSE,
    PrepareErrors <- {"AttestationTimeout", "Invalid", "MintFailed", "Other"},
    tx <- [p \in Preps |-> [st |-> "none", burn |-> "none", seq |-> 0]],
    sequence <- 0,
    store <- [cl \in {"client"} |-> [p \in Preps |-> [status |-> "none", tx |-> "none"]]],
    call <- [p \in Preps |-> WholeCall(p)]

\* All these steps make up the one step Prepare of module Receive, and each call takes it once.
PreparesAsReceive ==
  [][\E p \in Preps : Whole!Prepare(p)]_[p \in Preps |-> WholeCall(p)]

\* A call stops polling, though Iris may never attest its burn and every read may fail.
PollingEnds == \A p \in Preps : prep[p].pc = "polling" ~> prep[p].pc # "polling"
==============================================================================
