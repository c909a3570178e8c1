------------------------------- MODULE Settle --------------------------------
(***************************************************************************)
(* POST /api/receive/settle: handleSettle, settleFailure and persistSettled*)
(* of apps/demo/server/handlers.ts, run by several serverless instances    *)
(* over the Redis replay store and the Redis lock of kv.ts.  Every instance*)
(* has its own SDK client, whose replay store is the default in-memory one *)
(* (testnet-config.ts passes none), so Receive is composed here with       *)
(* SharedStore = FALSE, one call of receive() per request at most.         *)
(*                                                                         *)
(* Each action is the code between two awaits on Redis, on the client or on*)
(* the network.  Rate buckets and the intent lookup come before the lock   *)
(* and change nothing here: they are the "refused" answer.                 *)
(***************************************************************************)
EXTENDS Receive

CONSTANTS
  EarlyExpiry,  \* TRUE: the 60 s lock may expire while its holder still runs (an
                \* invocation may take 300 s); FALSE: holders finish within the TTL
  KvMayFail     \* a Redis request may fail, before or after it took effect

ASSUME SettleAssumption ==
  /\ EarlyExpiry \in BOOLEAN
  /\ KvMayFail \in BOOLEAN
  /\ SharedStore = FALSE
  /\ PostMintMayFail = FALSE

VARIABLES
  req,      \* req[r]: the local state of one settle request
  record,   \* record[b]: the durable replay record, key replay:<b>
  lock      \* lock[b]: the request whose token is in lock:settle:<b>, or None

Requests == Calls

settleVars == <<tx, sequence, call, store, req, record, lock>>

RequestStages == {"idle", "checked", "locked", "receiving", "releasing", "deleting", "done"}

Answers == {"none", "receipt", "unconfirmed", "refused", "busy", "not_ready",
            "mint_failed", "invalid", "failed", "internal", "killed"}

NoRequest == [pc |-> "idle", burn |-> None, inst |-> None, answer |-> "none", tx |-> None]

RequestStates == [pc : RequestStages, burn : Burns \cup {None}, inst : Clients \cup {None},
                  answer : Answers, tx : Requests \cup {None}]

\* The type invariant of the handlers' state: handlers.ts over kv.ts.
TypeOK ==
  /\ ReceiveTypeOK
  /\ req \in [Requests -> RequestStates]
  /\ record \in [Burns -> Records]
  /\ lock \in [Burns -> Requests \cup {None}]

Init ==
  /\ ReceiveInit
  /\ req = [r \in Requests |-> NoRequest]
  /\ record = [b \in Burns |-> NoRecord]
  /\ lock = [b \in Burns |-> None]
-----------------------------------------------------------------------------
BurnOf(r) == req[r].burn

\* The request r answers, and is over.
Answered(r, b, answer, t) ==
  req' = [req EXCEPT ![r] = [pc |-> "done", burn |-> b, inst |-> None,
                             answer |-> answer, tx |-> t]]

\* The request has its answer and enters the finally block that frees the lock.
Releasing(r, answer, t) ==
  req' = [req EXCEPT ![r] = [@ EXCEPT !.pc = "releasing", !.answer = answer, !.tx = t]]

\* The finally block ends, with the answer or with the error of the release itself.
Released(r) == Answered(r, BurnOf(r), req[r].answer, req[r].tx)

ReleaseFailed(r) == Answered(r, BurnOf(r), "internal", None)

\* Mutant: any durable record is answered as a receipt.
ArriveAnyReceipt(r, b, i) ==
  /\ req[r].pc = "idle"
  /\ \/ /\ record[b] = NoRecord
        /\ req' = [req EXCEPT ![r] = [NoRequest EXCEPT !.pc = "checked", !.burn = b,
                                                       !.inst = i]]
     \/ record[b] # NoRecord /\ Answered(r, b, "receipt", record[b].tx)
     \/ KvMayFail /\ Answered(r, b, "internal", None)
  /\ UNCHANGED <<receiveVars, record, lock>>

(***************************************************************************)
(* The request arrives at instance i and reads the durable record: a settled*)
(* burn is answered with its receipt, a submitted one is not retried.      *)
(***************************************************************************)
Arrive(r, b, i) ==
  /\ req[r].pc = "idle"
  /\ \/ /\ record[b] = NoRecord
        /\ req' = [req EXCEPT ![r] = [NoRequest EXCEPT !.pc = "checked", !.burn = b,
                                                       !.inst = i]]
     \/ record[b].status = "settled" /\ Answered(r, b, "receipt", record[b].tx)
     \/ record[b].status = "submitted" /\ Answered(r, b, "unconfirmed", None)
     \/ KvMayFail /\ Answered(r, b, "internal", None)
  /\ UNCHANGED <<receiveVars, record, lock>>

\* The intent is missing or does not match, or the amount is above the cap.
Refuse(r) ==
  /\ req[r].pc = "checked"
  /\ \/ Answered(r, BurnOf(r), "refused", None)
     \/ KvMayFail /\ Answered(r, BurnOf(r), "internal", None)
  /\ UNCHANGED <<receiveVars, record, lock>>

\* Mutant: the lock is keyed to the instance and not to the request.
AcquireByInstance(r) ==
  /\ req[r].pc = "checked"
  /\ lock[BurnOf(r)] = None
  /\ lock' = [lock EXCEPT ![BurnOf(r)] = req[r].inst]
  /\ req' = [req EXCEPT ![r].pc = "locked"]
  /\ UNCHANGED <<receiveVars, record>>

\* Mutant: SET without NX.
AcquireSteals(r) ==
  /\ req[r].pc = "checked"
  /\ lock' = [lock EXCEPT ![BurnOf(r)] = r]
  /\ req' = [req EXCEPT ![r].pc = "locked"]
  /\ UNCHANGED <<receiveVars, record>>

\* SET lock NX EX 60.  The durable record is not read again under the lock.
Acquire(r) ==
  /\ req[r].pc = "checked"
  /\ LET b == BurnOf(r)
     IN  \/ /\ lock[b] = None
            /\ lock' = [lock EXCEPT ![b] = r]
            /\ \/ req' = [req EXCEPT ![r].pc = "locked"]
               \/ KvMayFail /\ Answered(r, b, "internal", None)
         \/ /\ lock[b] # None
            /\ Answered(r, b, "busy", None)
            /\ UNCHANGED lock
  /\ UNCHANGED <<receiveVars, record>>

\* The attestation probe says no, or the sponsor's sequence cannot be read.
Preflight(r) ==
  /\ req[r].pc = "locked"
  /\ \E answer \in {"not_ready", "internal"} : Releasing(r, answer, None)
  /\ UNCHANGED <<receiveVars, record, lock>>

\* cctp.receive(), on the client of the instance that serves the request.
CallReceive(r) ==
  /\ req[r].pc = "locked"
  /\ Begin(r, req[r].inst, BurnOf(r))
  /\ req' = [req EXCEPT ![r].pc = "receiving"]
  /\ UNCHANGED <<record, lock>>

\* A durable record is written, then the answer given; with Redis down the caller gets
\* a 500, whether or not the write took effect.
Persist(r, rec, answer, t) ==
  LET written == [record EXCEPT ![BurnOf(r)] = rec]
  IN  \/ record' = written /\ Releasing(r, answer, t)
      \/ KvMayFail /\ record' \in {record, written} /\ Releasing(r, "internal", None)

Returned(r, outcome) ==
  /\ req[r].pc = "receiving"
  /\ call[r].pc = "done"
  /\ call[r].out = outcome

\* receive() returned: persistSettled writes the permanent receipt.
PersistSettled(r) ==
  /\ Returned(r, "settled")
  /\ Persist(r, Settled(r), "receipt", r)
  /\ UNCHANGED <<receiveVars, lock>>

\* Mutant: an unconfirmed mint is recorded as settled.
PersistUnconfirmedAsSettled(r) ==
  /\ Returned(r, "MintUnconfirmed")
  /\ Persist(r, Settled(r), "unconfirmed", None)
  /\ UNCHANGED <<receiveVars, lock>>

\* Mutant: an unconfirmed mint is only answered.
AnswerUnconfirmed(r) ==
  /\ Returned(r, "MintUnconfirmed")
  /\ Releasing(r, "unconfirmed", None)
  /\ UNCHANGED <<receiveVars, record, lock>>

\* MintUnconfirmedError: the broadcast hash is kept as `submitted`.
PersistUnconfirmed(r) ==
  /\ Returned(r, "MintUnconfirmed")
  /\ Persist(r, Submitted(r), "unconfirmed", None)
  /\ UNCHANGED <<receiveVars, lock>>

\* ReplayTransferError: the instance's own store knows the burn; only the durable
\* record can make it a receipt.
ReplayRefused(r) ==
  /\ Returned(r, "Replay")
  /\ LET rec == record[BurnOf(r)]
     IN  \/ rec.status = "settled" /\ Releasing(r, "receipt", rec.tx)
         \/ rec.status # "settled" /\ Releasing(r, "not_ready", None)
         \/ KvMayFail /\ Releasing(r, "internal", None)
  /\ UNCHANGED <<receiveVars, record, lock>>

\* Mutant: a failed mint is recorded too.
ReceiveFailedRecorded(r) ==
  /\ \/ Returned(r, "AttestationTimeout") /\ Releasing(r, "not_ready", None)
     \/ Returned(r, "MintFailed") /\ Releasing(r, "mint_failed", None)
     \/ Returned(r, "Invalid") /\ Releasing(r, "invalid", None)
     \/ Returned(r, "Other") /\ Releasing(r, "failed", None)
  /\ record' = [record EXCEPT ![BurnOf(r)] = Submitted(r)]
  /\ UNCHANGED <<receiveVars, lock>>

\* Mutant: the errors of receive() are answered outside the try block.
ReceiveFailedUnreleased(r) ==
  /\ \/ Returned(r, "AttestationTimeout") /\ Answered(r, BurnOf(r), "not_ready", None)
     \/ Returned(r, "MintFailed") /\ Answered(r, BurnOf(r), "mint_failed", None)
     \/ Returned(r, "Invalid") /\ Answered(r, BurnOf(r), "invalid", None)
     \/ Returned(r, "Other") /\ Answered(r, BurnOf(r), "failed", None)
  /\ UNCHANGED <<receiveVars, record, lock>>

\* Every other error is only answered.
ReceiveFailed(r) ==
  /\ \/ Returned(r, "AttestationTimeout") /\ Releasing(r, "not_ready", None)
     \/ Returned(r, "MintFailed") /\ Releasing(r, "mint_failed", None)
     \/ Returned(r, "Invalid") /\ Releasing(r, "invalid", None)
     \/ Returned(r, "Other") /\ Releasing(r, "failed", None)
  /\ UNCHANGED <<receiveVars, record, lock>>

\* RedisLock.release, first request: GET, and go on only if the token is ours.
ReleaseGet(r) ==
  /\ req[r].pc = "releasing"
  /\ \/ lock[BurnOf(r)] = r /\ req' = [req EXCEPT ![r].pc = "deleting"]
     \/ lock[BurnOf(r)] # r /\ Released(r)
     \/ KvMayFail /\ ReleaseFailed(r)
  /\ UNCHANGED <<receiveVars, record, lock>>

\* Second request: DEL, whoever holds the lock by now.
ReleaseDel(r) ==
  /\ req[r].pc = "deleting"
  /\ LET freed == [lock EXCEPT ![BurnOf(r)] = None]
     IN  \/ lock' = freed /\ Released(r)
         \/ KvMayFail /\ lock' \in {lock, freed} /\ ReleaseFailed(r)
  /\ UNCHANGED <<receiveVars, record>>

\* The lock's TTL passes.
ExpireLock(b) ==
  /\ lock[b] # None
  /\ EarlyExpiry \/ req[lock[b]].pc = "done"
  /\ lock' = [lock EXCEPT ![b] = None]
  /\ UNCHANGED <<receiveVars, req, record>>

\* A serverless instance is killed or recycled: its requests and its client are gone.
KillInstance(i) ==
  /\ CrashClient(i)
  /\ req' = [r \in Requests |->
       IF req[r].inst = i
       THEN [req[r] EXCEPT !.pc = "done", !.inst = None, !.answer = "killed", !.tx = None]
       ELSE req[r]]
  /\ UNCHANGED <<record, lock>>

\* A step of the request's own code, inside receive() or outside.
RequestStep(r) ==
  \/ Refuse(r)
  \/ Acquire(r)
  \/ Preflight(r)
  \/ CallReceive(r)
  \/ PersistSettled(r)
  \/ PersistUnconfirmed(r)
  \/ ReplayRefused(r)
  \/ ReceiveFailed(r)
  \/ ReleaseGet(r)
  \/ ReleaseDel(r)
  \/ CallStep(r) /\ UNCHANGED <<req, record, lock>>

Next ==
  \/ \E r \in Requests, b \in Burns, i \in Clients : Arrive(r, b, i)
  \/ \E r \in Requests : RequestStep(r)
  \/ \E b \in Burns : ExpireLock(b)
  \/ \E i \in Clients : KillInstance(i)
  \/ ChainStep /\ UNCHANGED <<call, store, req, record, lock>>

Spec == Init /\ [][Next]_settleVars

\* Every await of a handler ends: fetches, polls and Redis requests are bounded.  Clients,
\* kills, the network and the TTL of a lock owe nothing.
FairSpec ==
  /\ Spec
  /\ \A r \in Requests : WF_settleVars(RequestStep(r))
-----------------------------------------------------------------------------
(***************************************************************************)
(* Properties.                                                             *)
(***************************************************************************)
Critical(r) == req[r].pc \in {"locked", "receiving", "releasing", "deleting"}

\* kv.ts:27 and handlers.ts:522: the lock makes settling one burn single-flight, in
\* every instance together, as long as a holder finishes within the TTL.  A killed
\* holder's lock may expire, a failed release may leave it behind, and the GET and DEL
\* of a release are two requests: none of it lets two requests in.
SingleFlight ==
  \A r, s \in Requests :
    Critical(r) /\ Critical(s) /\ BurnOf(r) = BurnOf(s) => r = s

\* A `settled` record names the transaction that minted its burn, and a `submitted`
\* record one that was broadcast for it: no failed, crashed or overtaken attempt leaves
\* a record of something that did not happen.
RecordsAreTrue ==
  \A b \in Burns :
    /\ record[b].status = "settled" => MintedBy(record[b].tx, b)
    /\ record[b].status = "submitted" => /\ tx[record[b].tx].st # "none"
                                         /\ tx[record[b].tx].burn = b

\* However many requests are made for a burn, on however many instances, those answered
\* with a receipt got the same one, and it names the mint of that burn.
ReceiptsAgree ==
  \A r \in Requests : req[r].answer = "receipt" =>
    /\ MintedBy(req[r].tx, BurnOf(r))
    /\ \A s \in Requests :
         req[s].answer = "receipt" /\ BurnOf(s) = BurnOf(r) => req[s].tx = req[r].tx

\* handlers.ts:628, "the next attempt reconciles against it instead of broadcasting a second
\* mint": once any request was told MINT_UNCONFIRMED, a request for the same burn that
\* arrives later, on any instance, is answered from the durable record and sends nothing.
\* (The record names the hash of that request or of one that overlapped it.)
UnconfirmedStopsRetries ==
  [][\A r, s \in Requests :
       /\ req[r].answer = "unconfirmed"
       /\ req[s].pc = "idle"
       /\ req'[s].pc # "idle"
       /\ req'[s].burn = req[r].burn
       => /\ req'[s].pc = "done"
          /\ req'[s].answer \in {"receipt", "unconfirmed", "internal"}]_settleVars

\* handlers.ts:580, the finally block: a lock that outlives its request is that of a killed
\* instance or of a Redis request that failed, and is left to its TTL; every other answer, to
\* a probe that said no or to any error of receive(), gives the lock of its own burn back.
LocksAreReleased ==
  \A b \in Burns : lock[b] # None =>
    /\ BurnOf(lock[b]) = b
    /\ Critical(lock[b]) \/ req[lock[b]].answer \in {"killed", "internal"}

\* handlers.ts:585, "the permanent `settled` receipt": once written it is never replaced
\* or downgraded, by a late or repeated attempt of any instance.
SettledIsPermanent ==
  [][\A b \in Burns : record[b].status = "settled" => record'[b] = record[b]]_settleVars

\* handlers.ts:629, "the next attempt reconciles against it": a request that finds a
\* `submitted` record whose mint has landed is not sent away as unconfirmed again.
RetryReconciles ==
  [][\A r \in Requests, b \in Burns :
       /\ record[b].status = "submitted"
       /\ tx[record[b].tx].st = "success"
       /\ req[r].pc = "idle"
       /\ req'[r].pc = "done"
       /\ req'[r].burn = b
       => req'[r].answer # "unconfirmed"]_settleVars

\* Every settle request is answered or killed: each poll loop under handleSettle is
\* bounded, and losing a lock or Redis strands no request.
RequestsAnswered == \A r \in Requests : req[r].pc # "idle" ~> req[r].pc = "done"

(***************************************************************************)
(* While holders finish within the TTL, the handlers implement Settlement: *)
(* receipts are the durable `settled` records.                             *)
(***************************************************************************)
ReceiptOf(b) == IF record[b].status = "settled" THEN record[b].tx ELSE None

HandlerSettlement ==
  INSTANCE Settlement WITH
    Txs <- Calls,
    credited <- [b \in Burns |-> CreditOf(b)],
    receipt <- [b \in Burns |-> ReceiptOf(b)]

\* handleSettle over Redis keeps the promise of Settlement, as a durable service.
SettleImplementsSettlement == HandlerSettlement!Spec
==============================================================================
