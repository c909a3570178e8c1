# AnchorCCTP in TLA+

AnchorCCTP credits USDC that was burned on a source chain (Circle CCTP) to a recipient on
Stellar. The question that decides whether it is correct is what happens to one burn when
`receive()` is called for it several times, from several processes, while mint
transactions are slow, answers get lost and processes die. This directory models that
part of the code and the services and clients around it - the settle, status, initiate and
fee routes, the event stream, the deposit panel, the start of an instance and the
`testnet:auto` script -, checks the models with TLC and proves their main properties with
TLAPS.

## The system

| Component | State | Operations | Modelled in |
|---|---|---|---|
| `receive()` (`packages/core/src/receive.ts`) | the local state of a call, the replay store | guard, prepare, mint, mark submitted, post-mint work, mark settled | `Receive`; what comes before the mint in `Preparation` |
| forwarder (`forwarder/index.ts`) | a signed transaction, the poll count | simulate, sign and send, poll for confirmation | `Receive`, over `Stellar` |
| replay stores (`replay/`) | burn hash to record | isProcessed, markProcessed, getRecord | `Receive` (in-memory; durable and atomic), `Streams` (the local server's file) |
| attestation polling, trustline (`attestation/index.ts`, `trustline/index.ts`, `env-rpc.ts`) | attempt count | poll, check the amount, read and create the trustline | `Preparation` |
| Stellar network | transactions, the sponsor's sequence number | accept, apply, expire | `Stellar` (external) |
| settle handler (`apps/demo/server/handlers.ts`) | a request | record check, intent check, lock, probe, `receive()`, persist, release | `Settle` |
| Redis (`kv.ts`) | replay record, lock with TTL | get, set, set NX EX, del | `Settle` |
| serverless instances (`serverless.ts`) | one cached SDK client each | start, serve, be killed | `Settle`, `Startup` |
| initiate and status handlers, intents (`handlers.ts`, `kv.ts`) | binding and intent, each with a TTL | put, find, get; one Iris read | `Intents` |
| rate buckets (`kv.ts`) | counters with TTL | hit | `Intents` |
| fee quotes (`handleFees`, `RedisFeeCache`, `attestation/fees.ts`) | one cached entry a route | get, two probes, set | `Fees` |
| event stream (`events.ts`, `serve.ts`), emitter (`events/index.ts`) | flights, count of places, listeners, replay file | open, join, start, leave, hear, land | `Streams` |
| deposit panel (`depositMachine.ts`, `CatalogSection.tsx`) | reducer state, refs, timer, requests under way | quote, register, poll, settle, cancel, retry | `Deposit`, `Panel` |
| configuration (`config.ts`, `testnet-config.ts`, `kv.ts`, `serve.ts`) | the client of an instance | cold start, first `receive()` | `Startup` |
| `scripts/testnet-auto.ts` with `evm/burn.ts`, `decimals/` | lock file, processed list, burns, balance | lock, burn, wait, mint, prove, list, unlock | `Auto` |
| CLI, other scripts, other UI | | I/O | not modelled |

The handlers call `receive()` of the client cached in their instance; that client has an
in-memory replay store of its own, because `testnet-config.ts` injects none, while the
handlers keep a durable record in Redis. The two stores are written at different moments
and lost in different ways. `receive()` and the network share the sponsor's sequence
number: the caller reads it, `TransactionBuilder` signs with the next one, and a ledger
applies only one transaction for it.

What is hard: the guard of `receive()` is not atomic with its mark (check, a minute of
awaits, then write); a broadcast transaction may land after everyone has stopped waiting
for it; the lock lasts 60 s and an invocation 300 s; the durable record is read before the
lock is taken; a Redis request may fail after it took effect; the lock's release is two
requests, and so are the claim of an intent and the counting of a request; all streams of
the local server share one emitter, and a client that leaves does not stop its receive;
defaults of one network meet the variables of another; two runs of the script race for a
lock file. `PROJECT.json` lists each hazard at its line and the property aimed at it.

## Modules

- `Stellar` - the ledger as `submitMint` relies on it. A transaction is named by the call
  that signs it. Applying one needs the sponsor's next sequence number and consumes it; a
  mint whose burn's nonce is used fails. A pending transaction may leave the queue.
- `Receive` - `receive()` and `submitMint()`. `call[c]` is one invocation: its `pc` is the
  await it is at. `store[s][b]` is the replay record of a burn. `SharedStore` chooses
  between one durable adapter for all processes and the default map of each process.
  `Begin` is the guard, `Prepare` everything up to `submitMint` (it touches no shared
  state, so its error paths are kept by kind only), `Simulate`, `SendAccepted`,
  `SendRejected`, `SendAnswerLost`, `ConfirmSeen` and `ConfirmWindowElapses` are
  `submitMint`, `MarkSubmitted`, `MarkSettled` and `PostMintFails` the rest.
  `CrashClient` ends a process.
- `Settle` - the settle route on several instances, composed with `Receive` at
  `SharedStore = FALSE`: request `r` makes at most one call of `receive()`, call `r`, on
  its instance's client. `record` and `lock` are Redis.
- `Settlement` - the promise: a burn is credited at most once, a receipt is given only for
  the transaction that credited it, neither is taken back. `Receive` implements it with
  its shared store's `settled` records as receipts, `Settle` with the durable ones, and the
  runs of `Auto`, while no lock is stolen, with the entries of their list.
- `Deposit` - the reducer of the deposit panel, one operator per event.
- `Panel` - the component around it, the client of the settle API: clicks, effects, the
  poll timer, the refs `runRef` and `pollingRef`, and fee, initiate, status and settle
  requests with answers that outlive the transfer that asked. React 19 renders queued
  updates together with a click's and runs their effects at once, so a click, what it
  commits and the effects, those still waiting included, are one step (`Clicked`). The
  continuation of a fetch only queues an update: `Render` commits it in a later task, and
  `Effects` runs the commit's effects in a task after that. `effected` is the last commit
  whose effects have run; clicks, timers and answers fall between any two of the three.
  The wallet stays connected and the page open.
- `Streams` - the local server, composed with `Receive` at one process: GET /api/events
  over `collectSseReal`, the settle route beside it, the one in-memory store and emitter of
  the client, and the replay file, which only the settle route writes. `flight[k]` is
  `_realFlightMap`, `count` is `activeReceives.count`, `heard[c]` what the listeners of a
  flight captured. The file is synchronous, so the code between two network awaits is one
  step. `promise.finally` makes a second promise without a handler: once a flight has
  failed (`doomed`) the process ends (`ServerDies`), as Node ends it.
- `Intents` - POST initiate and GET status over `KvIntentStore` and `RedisBuckets`, each
  Redis request a step that may fail before or after it took effect (`Abort`), or over the
  maps of the local server, which restarts (`Restart`). `bind[d]` and `intent[r]` are the
  two keys of a deposit, with clocks of their own: a binding counts from its SET, an intent
  from `createdAt`, which the handler takes before. A request that ends `unexpired` has
  counted itself but not set the window's TTL. `Tick` shrinks 24 h to a few ticks.
- `Fees` - GET /api/fees: the cached entry, the two probes in parallel, the SET that the
  last request wins. An entry's `age` counts from the arrival of the request that made it
  and `left` from its SET. A request lives seconds and a tick is a good part of an hour, so
  no more than one tick falls into a request (guard of `FeesTick`).
- `Auto` - runs of `testnet:auto`, each a process; each call on the file system or the
  network is a step, so the takeover of a stale lock (stat, unlink, create) interleaves.
  `fail()` exits without the `finally` and leaves the lock file; an exception releases it,
  whoever wrote it. `stolen` records that a file was removed while its writer went on. A
  burn may land after the wait for its receipt has ended. Others may pay the destination
  (`Pay`; it matters only while a run measures the balance and is bounded by `MaxPaid`).
- `Startup` - the environment of an instance, what `assertColdStartEnv`, `depsFromEnv`,
  `createAnchorCCTPFromEnv` and `serve.ts` refuse, the client they build, and what its
  first `receive()` finds missing or of the wrong network. Every environment is an initial
  state. Hosts are told apart as the checks do and as they do not: the two networks' own,
  localhost, others, and others that are named like Circle's.
- `Preparation` - the part of `receive()` that module `Receive` keeps as one step: the
  bounded poll of Iris, the check of the attested row, `ensureTrustline` with the provider of
  `env-rpc.ts` or an injected one. Reading the account (`ReadTrustline`) and going on with
  the answer (`UseAnswer`) are two steps, and `overtaken` records the calls whose trustline
  the owner removed in between. `ready` is the moment `submitMint` is called. `WholeCall`
  maps a call of it to a call of `Receive`, whose one step it makes up (`PreparesAsReceive`).
- `MCReceive`, `MCSettle`, `MCServices` - TLC instances. `MCServices` runs the five parts
  that share no state in one model, one of them active in a behaviour.
- `Receive_proofs`, `Settle_proofs`, `Panel_proofs`, `Streams_proofs`, `Intents_proofs`,
  `Auto_proofs` - theorems about one component each; `Services_proofs` - about `Startup`,
  `Preparation`, `Fees` and the composition `MCServices`.

Abstractions, all of data: amounts, addresses, attestations and signatures do not occur;
a burn hash, a call and an instance are model values; a record keeps its status and the
transaction it names; error classes are kept as far as a caller treats them differently.
Validation, rate limiting and intent binding come before the lock and change nothing
there: they are the answer `refused`. `PostMintMayFail` is FALSE in `Settle` because
`createAnchorCCTPFromEnv` validates the dust collector when an instance starts, and the
in-memory store cannot fail to write.

## Runs

| Run | Shows | Bounds |
|---|---|---|
| `receive` | type invariant, one settlement a burn, true records, only credited burns are refused as replays, `Settlement` implemented | 3 calls, 2 burns, 2 processes, durable store |
| `receive_crash_retry` (violation) | a comment and `replay.md` say a crash after the mint is sent is seen by the retry; it is not | 2 calls, 1 burn |
| `settle_held` | single flight, permanent receipts, `Settlement` implemented | 3 requests, 1 burn, 2 instances, Redis failing, kills |
| `settle_overlapping` | records and receipts stay true although attempts overlap; an unconfirmed answer stops later attempts; only killed and failed requests leave a lock; requests are answered | 2 requests, 1 burn, 2 instances, locks expiring under running holders, Redis failing, kills |
| `settle_downgrade` (violation) | an expired lock lets a `submitted` record replace a receipt | 2 requests |
| `settle_unreconciled` (violation) | a `submitted` record is never reconciled with a mint that landed | 2 requests |
| `panel` | a wait is left undriven only by the effect of an earlier commit, a cancelled wait settles nothing, Fast has its quote, registering and settling end | 2 transfers, 1 burn, 2 requests of a transfer under way |
| `panel_cancelled` (violation) | a late failure turns `cancelled` into an error | 1 transfer |
| `panel_quote` (violation) | Execute cannot ask again for a quote that failed | 1 transfer |
| `streams` | places are counted exactly, one flight a key, each stream hears its own settlement and ends, the file's records are true, only streams whose client left exceed the cap | 2 streams, 2 calls, 2 burns, 1 place |
| `streams_cap` (violation) | a client that leaves frees a place its receive still needs | the same |
| `services` | first claimer wins, registered intents exist, settled burns are answered, rate windows end, missing tiers are forgotten, one run of the script holds the lock, its list forgets nothing and keeps the receipts it gave, its proofs are true, fees suffice, what the checks of a start rule out, mints are prepared, polling ends | 2 requests on 1 deposit, 2 fee requests, 2 runs and 2 burns, every environment of a real mode, 2 preparations |

Three attempts are enough for the cases that differ: one that settled, one that overlaps
it and one that comes later. Two burns matter only where they share something: a store
and the sponsor's sequence number (`receive`). Locks and durable records are kept by burn,
so the settle runs have one. `settle_overlapping` has two requests because the
liveness check allows no symmetry; its invariants, which hold with and without early expiry
and so have no place in `settle_held`, are proved for any number. A call and a request happen once each, so their number bounds
every counter (`sequence` included) and no run needs a state constraint. Symmetry is used
in safety runs only; no initial state or action tells calls, processes or burns apart.
`CrashClient` and `KillInstance` are possible in every state, so TLC's deadlock check,
which is on, has little to say; that nothing waits for ever is what `settle_overlapping` checks. In `panel` two
transfers are what a late answer and its victim need, and two requests of one transfer
what a cancel and a retry leave behind; which burn is shown decides nothing, so there is one; `Execute` is bounded by the transfers left and the
timer by `MaxCalls`.

Fairness (`FairSpec` of `Settle`): weak fairness of each request's own steps, because every await
under `handleSettle` ends - `submitMint` polls a fixed number of times, attestation
fetches have a timeout and a retry limit, Redis calls return or throw. No fairness is
assumed of clients, kills, the network or the expiry of locks: a mint may stay pending for
ever and the request is still answered. `FairSpec` of `Panel`: React commits queued updates
and runs their effects, the timer fires, and requests end, because the
browser ends them and the server's invocations are cut off (`vercel.json`). The user owes
nothing. `StreamsFairSpec`: receives run on, and a process with an unhandled rejection ends;
`IntentsFairness` and `FeesFairness`: requests run on (or are aborted, which ends them) and
time passes; `PreparationFairness`: reads of Iris end, by the 15 s limit on their fetches, and
the program goes on with the answers it has. Horizon's reads and submissions have no limit
and are owed nothing, so `PollingEnds` is about the polling alone. `Auto` and `Startup` have
none: no property of theirs is about progress.

Bounds of the new runs. In `streams` a second stream and a second call are what an
overlap needs, with two burns so that foreign settlements are heard; more of either takes
the run past the time it is given. In `services` each part has two of what competes: two
requests on one deposit (a third multiplies the states by more than three and competes with
one of the two at a time), two runs of the script, two overlapping fee requests. `Lifetime`
is 3 ticks, so that the clocks of a binding and its intent, one tick apart, both run out
after use; `Window` and `Limit` are 1, so the second request is limited; `FeeLife` is 2, so an
entry is renewed by an overlapping request before it ends. The amount 7693 at 1.3 basis
points is just over a whole unit of fee (1.00009), where rounding shows.
`StartupCases` takes one environment with `SIM_MODE`, which is the only variable read then,
and leaves out the KV variables of a local instance, which reads none; all others are there.
`CHECK_DEADLOCK FALSE` there: an instance and a preparation stop when they are done.

## What the disagreements are

1. `receive.ts` writes `submitted` only after the mint is confirmed (line 328), so a crash
   between sending and marking leaves nothing for the retry to see, against what line 326
   and `apps/docs/core/replay.md` say. The burn is still credited once, because the
   contract refuses a used nonce: `receive` and the proofs show that.
2. `settleFailure` writes `submitted` without looking at the record (line 630). After a
   lock has expired under its holder a late, unconfirmed attempt replaces a receipt.
3. `handleSettle` answers a `submitted` record with MINT_UNCONFIRMED for ever (line 487);
   nothing reconciles it, although the answer says a retry will.
4. `pollOnce` checks `pollingRef` on the path of a good answer only (line 250): a status
   request that fails after the cancel turns `cancelled` into an error, without the retry.
5. After the quote that Execute waits for has failed, the step stays `quoting`, so the
   effect that asks for quotes does not run again, though the text says "retry".
6. `cleanup()` in `serve.ts` (line 309) lowers the count of running receives when the client
   closes, and the receive runs on: the cap that `events.ts:411` describes does not hold.

Not every disagreement has a run of its own. These were met while modelling; the models
contain them, and the properties are stated so as to be true of what the code does:

- `trustline/index.ts:34` builds the change-trust on `new Account(destination, '0')`, so
  with sequence number 1, which no existing account can use. `env-rpc.ts:15-16` warns of
  that very thing. The opt-in creation that `LOGIC_PROOF.md:156` describes therefore fails
  with the provider the SDK ships (`Preparation`, `ProviderCanCreate`); an injected provider
  that takes the transaction only as a template can work, and `testnet-auto` builds its own.
- `createAnchorCCTPFromEnv` starts on mainnet without `USDC_ISSUER` and every `receive()`
  then fails, although `serverless.ts:84-85` means misconfiguration to surface at the start;
  `serve.ts` on testnet without `CIRCLE_ATTESTATION_BASE_URL` polls mainnet's Iris
  (`attestation/index.ts:53-56`), although `kv.ts` says defaults never cross networks.
- `kv.ts:513` calls the Iris URL of a deployed instance "network-consistent", but lines
  533-543 look at the beginning of the host only, so `iris-api.` of any domain passes on
  mainnet and `iris-api-sandbox.` on testnet. For Horizon and RPC any host of `stellar.org`
  will do (490-491, 566-567), also one of the other network. `StartRulesOut` says what the
  checks leave: each of these is an exception in it or is not claimed.
- A rate window whose `INCR` succeeded and whose `EXPIRE` failed (`kv.ts:451-452`) has no
  TTL: only the first hit sets one, so the counter stays for ever and the caller is limited
  for good once it is full. It is the exception `WindowsEnd` names (`unexpired`).
- The effect that stops the poller (`CatalogSection.tsx:175-180`) runs for the commit it
  belongs to, after whatever came in between. A start that answers between a late failure's
  commit and its effects arms the timer, the effect clears it, and the new transfer waits
  with nothing polling until the user cancels. It is the exception `WaitsStayDriven` names.
- `handlers.ts:630` keeps the hash of an unconfirmed mint on record, but an overlapping
  attempt that is unconfirmed too replaces it by its own, so the hash a client was told may
  be on record no longer. What holds is that some attempt's is, and that it stops later
  requests (`UnconfirmedStopsRetries`).
- The owner of the destination may remove the trustline after Horizon said that it is there
  and before the mint is sent; nothing looks again. It is the exception `MintsArePrepared`
  names (`overtaken`).
- `put()` promises the loser of a claim the winner's intent. Between the winner's two
  requests the loser finds none, stores its own and answers with its id; the binding stays
  the winner's. If the winner fails there, every status is NO_INTENT until the binding ends.
  `RegisteredIntentsExist` says what still holds.
- `handlers.ts:681` calls a missing tier a fact about the route, but a timeout or a 500 is
  cached for an hour as the same null.
- `testnet-auto.ts` says (line 354) that the replay store makes `receive()` idempotent; each
  run has a fresh one. Its advice to re-run after a receipt timeout burns again. A Fast
  transfer with a fee is settled and reported as unproven, for the balance grows by less.
- An event stream of a burn with a `submitted` record is told `settled` (`serve.ts:282`),
  because `isProcessed` does not tell the two apart.

`Panel` shows two more things no text of the repository denies: a frame asked for by a
dismissed transfer is used once another one polls, so the new transfer may show the old
one's receipt, and a cancel and a retry leave two polls of one transfer, hence at times
two settle requests, which the server's lock serialises.

## Proofs

`Receive_proofs` proves, for every number of burns, calls and processes and for both kinds
of store (only `ReceiveAssumption` and `NoneAssumption` are assumed), the type invariant,
that records name mints, that one call at most settles a burn, that whoever is refused as a
replay was credited, and that `ReceiveSpec` implements `Settlement`. The
argument is the inductive invariant `ReceiveInv`. None of the properties is inductive
alone: that a record names a mint needs that the call writing it holds one (`HoldsMint`);
that in turn that a call confirms its own transaction, for its own burn
(`ConfirmsItsOwn`); and that two settlements are one, that the ledger credits once
(`CreditOnce`). `SettledByDone` is what makes a settled record final: only the call that
wrote it could write another, and it has ended.

`Settle_proofs` reuses that: every step of the handlers is a step of the SDK or leaves it
alone (`ReceiveSide`). `SettleInv` adds what a request's answer and a durable record say
of the call and of the ledger, and gives, with or without early expiry, that records are
true, receipts agree and a request told that its mint is unconfirmed has left a record that
answers every later one. `OwnedInv` adds whose token a lock holds: that of a request past
the lock or of one that a kill or a failing Redis ended. Under `~ EarlyExpiry`, `HeldInv`
(a request between acquire and release holds its burn's lock) gives single flight.
That a receipt is permanent needs one thing more, `LateInv`: the record is read before the
lock is taken, so a request can be in `receive()` for a burn already settled, and it is
harmless because it got there too late to send - the simulation refuses the used nonce.
From both follows that the handlers implement `Settlement`. The assumption
`~ EarlyExpiry` cannot be dropped: `settle_downgrade` is the counterexample.

`Panel_proofs` proves, for any number of transfers and requests, the panel's type, that a
cancelled wait settles nothing, that Fast is quoted, and of every step that it leaves a
driven wait driven unless it is the one with its exception above (`WaitsAreKept`). The
strengthening `PanelInv` says where the gaps between a queued update, its commit and its
effects can show: `quoting` and `burning` are entered only from states committed and
effected, with no transfer in the poller's hands (`PreparingIsShown`); a cancel is a click,
so its effects have run (`CancelledIsShown`) and `pollingRef` is down (`CancelledIsQuiet`); the
fee request under way is for the mode whose effects ran last (`AskedIsEffected`), which with
the quote in hand makes `FastIsQuoted` inductive; a step after the registration knows its
burn, so a retry never leaves the poller on while nothing is shown (`BurnIsKnown`).

`Streams_proofs` proves that the server is a caller of the SDK: `StreamsSpec => ReceiveSpec`,
a refinement by projection, for any number of streams and calls. What `Receive_proofs` says
holds for it therefore, and `ServerSettlesOnce` is one corollary. Its own invariant ties
every call to the job it runs for (`JobsAreBound`), follows the order of a stream's states
(`StreamsInOrder`), says that whoever waits for a settled flight has been told of it
(`ToldOfItsOwn`) and that the count is the cardinality of the set of streams holding a
place (`CountIsExact`, where `Math.max(0, ..)` never has to help). Two more results rest on
it. The settle routes write the replay file without a lock, each from what it read when
`receive()` answered, yet a record in it is true (`FileStaysTrue`): whatever route writes last,
what it writes was learned from a call of its own, of which `ReceiveInv` says it names a mint
of its burn. And the cap of concurrent receives fails by the streams whose client has left
and by nothing else (`CapHoldsButForLeavers`): every receive of the event stream
has a stream that waits for it, and the streams that hold a place are at most `MaxReceives`.

`Intents_proofs` needs, for first-claimer wins, that a binding cannot end before its intent:
`BindingsLast` (age + time left >= lifetime), which holds because the handler takes
`createdAt` before it claims. For registered intents it needs `OwnIntent`: an initiation in
`put()` still holds the intent it built. Both are proved on Redis and in memory, for any
number of requests and any failures, restarts and ticks.

`Auto_proofs`: unless a lock file is stolen, the run past the lock is the one the file names
(`HolderIsNamed`), nobody has written the list since that run read it (`SeenIsList`), and so
the list it writes back forgets nothing. That a proof is of the run's own mint follows from an
account of the balance (`BalanceAdds`: what it read, plus its mint, plus what others paid)
and from the network's nonce (`MintIsOwn`). The fee is a lemma of arithmetic about ceilings.

The list is true even after locks were stolen and lists written over each other
(`ListIsTrue`): a list in hand, stale or not, names minted burns only. That the runs implement
`Settlement` cannot be proved of all behaviours - a stolen lock lets one run write back a list
without the other's burn - so it is proved step by step until a lock is stolen (`ListsSettle`),
and with that of every behaviour in which none is (`UnstolenRunsImplement`).

`Services_proofs` has what its components need of invariants: of `Startup`, that a client is the
one its environment describes, and from it what a start rules out (`StartsRuleOut`); of
`Preparation`, that a call past the poll saw an attested row, and that one told of a trustline
is right or was overtaken (`ToldRight`); of `Fees`, the types and that an entry's age and the rest of its TTL add up to the TTL and
one tick (`QuotesStayRecent`). It proves two compositions. `PreparationIsPrepare` is a refinement
between two levels of one function: with `WholeCall` as the mapping, every step of
`Preparation` is a step `Prepare` of `Receive` or leaves the call as it was, so module
`Receive`, which keeps everything before `submitMint` as one step, has lost none of its
outcomes. It covers `Receive` where its constant `PrepareErrors` holds the errors a preparation
ends in. `ServicesRunParts` projects a behaviour of `MCServices` on each of its five parts, so
`ServicesTypeCorrect` follows from the parts' type theorems, and so would any of their invariants.

Every invariant that a passing run checks is stated by a theorem. Only model-checked is
liveness, for fairness and ENABLED are outside the prover's reach: `RequestsAnswered`,
`WaitsEnd`, `StreamsEnd`, `SettledIsAnswered`, `WindowsEnd`, `MissingTierIsForgotten` and
`PollingEnds`. The properties of the violation runs are false
and so have counterexamples instead. Neither proved nor checked: what is not modelled.

## Not modelled

The CLI, the components that only render, the wallet bridge; `testnet-receive` and
`testnet-deploy`, which run once by hand; decoding of messages, hooks and StrKeys byte by byte;
the signer's checks of a transaction's structure; the v1 `pollAttestation`, which `receive()`
does not call; the delays between polls; the simulated timeline of the demo and the POST
that registers a stream's intent, with its `RateLimitBuckets`; several processes on one
`FileReplayStore`.

## Plan

1. `FileStore`: two processes on one replay file, with the temporary file they share; the
   SDK offers the class for production, the repository runs one process.
2. `RateLimitBuckets` of the event stream: global, address and pair windows with eviction.
3. The panel composed with the status and settle routes, and with the intents that expire
   under it; an abstract specification of a deposit seen by its user.
4. Proofs: the panel's remaining step orders; the order of the records of a burn in the
   replay file (a `submitted` record replacing a `settled` one), which needs a ghost of who wrote.
