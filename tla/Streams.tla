------------------------------- MODULE Streams -------------------------------
(***************************************************************************)
(* The long-running demo server (apps/demo/server/serve.ts): event streams *)
(* GET /api/events over collectSseReal of events.ts, and the settle route  *)
(* beside them.  All of it shares one SDK client, its in-memory replay     *)
(* store and its event emitter, so Receive is composed here with           *)
(* SharedStore = FALSE and the server as its only process.  A second replay*)
(* store, a file, is written by the settle route alone and read by both.   *)
(*                                                                         *)
(* The file store is synchronous and promises resolve without I/O, so the  *)
(* code from one network await to the next is one action: everything a     *)
(* finished receive() sets off happens in the step that finishes it.       *)
(***************************************************************************)
EXTENDS Receive

CONSTANTS
  Server,       \* the process
  Streams,      \* GET /api/events requests
  Variants,     \* the (address, amount) pairs a stream may ask for
  MaxReceives   \* maxConcurrentReceives: 5 in serve.ts

ASSUME StreamsAssumption ==
  /\ IsFiniteSet(Streams)
  /\ Clients = {Server}
  /\ SharedStore = FALSE
  /\ PostMintMayFail = FALSE
  /\ MaxReceives \in Nat \ {0}

VARIABLES
  stream,   \* stream[s]: one request
  count,    \* activeReceives.count
  flight,   \* flight[k]: the call of receive() streams of key k wait for
  job,      \* job[c]: what call c is made for
  heard,    \* heard[c]: the settlements the listeners of flight c have captured
  file,     \* file[b]: the record of burn b in the FileReplayStore
  doomed    \* a flight was rejected: the unhandled rejection ends the process

serverVars == <<stream, count, flight, job, heard, file, doomed>>

streamsVars == <<tx, sequence, call, store, serverVars>>

\* `${hash}|${address}|${amount}`
Keys == Burns \X Variants

BurnOfKey(k) == k[1]

NoKey == <<None, None>>

NoStream == [pc |-> "idle", counted |-> FALSE, flight |-> None, out |-> "none", told |-> {}]

StreamStates == [pc : {"idle", "waiting", "done"}, counted : BOOLEAN,
                 flight : Calls \cup {None},
                 out : {"none", "recorded", "refused", "settled", "already", "failed",
                        "dropped"},
                 told : SUBSET Calls]

\* A flight, a settle request that has read the record, one that is in receive(), or a
\* call that is over.
NoJob == [kind |-> "none", key |-> NoKey]

Spent == [kind |-> "spent", key |-> NoKey]

JobStates == [kind : {"none", "flight", "checked", "route", "spent"},
              key : Keys \cup {<<b, None>> : b \in Burns} \cup {NoKey}]

\* The type invariant of the server's state: serve.ts and events.ts.
StreamsTypeOK ==
  /\ ReceiveTypeOK
  /\ stream \in [Streams -> StreamStates]
  /\ count \in Nat
  /\ flight \in [Keys -> Calls \cup {None}]
  /\ job \in [Calls -> JobStates]
  /\ heard \in [Calls -> SUBSET Calls]
  /\ file \in [Burns -> Records]
  /\ doomed \in BOOLEAN

StreamsInit ==
  /\ ReceiveInit
  /\ stream = [s \in Streams |-> NoStream]
  /\ count = 0
  /\ flight = [k \in Keys |-> None]
  /\ job = [c \in Calls |-> NoJob]
  /\ heard = [c \in Calls |-> {}]
  /\ file = [b \in Burns |-> NoRecord]
  /\ doomed = FALSE
-----------------------------------------------------------------------------
(***************************************************************************)
(* Streams and their clients.                                              *)
(***************************************************************************)
Waiting(s, c) == stream[s].pc = "waiting" /\ stream[s].flight = c

Free(c) == job[c] = NoJob

\* Math.max(0, activeReceives.count - 1), n times.
Freed(n) == IF count > n THEN count - n ELSE 0

\* The stream is answered without a receive().
AnswerAtOnce(s, out) ==
  /\ stream' = [stream EXCEPT ![s] = [NoStream EXCEPT !.pc = "done", !.out = out]]
  /\ UNCHANGED <<count, flight, job, heard>>

\* The stream holds a place and waits for call c.
WaitFor(s, c) ==
  /\ stream' = [stream EXCEPT ![s] =
       [NoStream EXCEPT !.pc = "waiting", !.counted = TRUE, !.flight = c]]
  /\ count' = count + 1

\* collectSseReal joins the flight of its key, or starts one with a call not yet made.
Join(s, k) ==
  /\ flight[k] # None
  /\ WaitFor(s, flight[k])
  /\ UNCHANGED <<flight, job, heard>>

\* Mutant: the map is keyed by the burn in one place and by the stream in the other.
StartAnyway(s, k) ==
  \E c \in Calls :
    /\ Free(c)
    /\ WaitFor(s, c)
    /\ flight' = [flight EXCEPT ![k] = c]
    /\ job' = [job EXCEPT ![c] = [kind |-> "flight", key |-> k]]
    /\ UNCHANGED heard

Start(s, k) ==
  /\ flight[k] = None
  /\ \E c \in Calls :
       /\ Free(c)
       /\ WaitFor(s, c)
       /\ flight' = [flight EXCEPT ![k] = c]
       /\ job' = [job EXCEPT ![c] = [kind |-> "flight", key |-> k]]
  /\ UNCHANGED heard

\* Mutant: the comparison is with `>` instead of `>=`.
AdmitsOneMore == count <= MaxReceives

Admits == count < MaxReceives

\* GET /api/events: any record of the burn is answered `settled`; then the parameters
\* and the legacy intent of the key may refuse it, and so does the cap on receives.
Open(s, k) ==
  /\ ~ doomed
  /\ stream[s].pc = "idle"
  /\ \/ file[BurnOfKey(k)] # NoRecord /\ AnswerAtOnce(s, "recorded")
     \/ file[BurnOfKey(k)] = NoRecord /\ AnswerAtOnce(s, "refused")
     \/ /\ file[BurnOfKey(k)] = NoRecord
        /\ Admits
        /\ Join(s, k) \/ Start(s, k)
  /\ UNCHANGED <<receiveVars, file, doomed>>

\* Mutant: `cleaned` is not kept, so the count goes down again when the stream ends.
LeaveUncleaned(s) ==
  /\ ~ doomed
  /\ stream[s].counted
  /\ count' = Freed(1)
  /\ UNCHANGED <<receiveVars, stream, flight, job, heard, file, doomed>>

\* The client closes its connection: cleanup() runs, the handler goes on waiting.
Leave(s) ==
  /\ ~ doomed
  /\ stream[s].counted
  /\ count' = Freed(1)
  /\ stream' = [stream EXCEPT ![s].counted = FALSE]
  /\ UNCHANGED <<receiveVars, flight, job, heard, file, doomed>>
-----------------------------------------------------------------------------
(***************************************************************************)
(* receive() on the shared client.                                         *)
(***************************************************************************)
Running(c) == job[c].kind = "flight"

\* The outcome of a call, as the streams that wait for it get it.
EndOf(outcome) ==
  CASE outcome = "settled" -> "settled"
    [] outcome = "Replay"  -> "already"
    [] OTHER               -> "failed"

\* Mutant: the listeners are registered with once().
EmitOnce(c) ==
  [f \in Calls |-> IF Running(f) /\ heard[f] = {} THEN {c} ELSE heard[f]]

\* onSettled of the client's emitter reaches the listeners of every flight that runs,
\* the call's own among them; listeners of earlier flights are still there, and write
\* to arrays no one reads.
Emit(c) ==
  [f \in Calls |-> IF Running(f) THEN heard[f] \cup {c} ELSE heard[f]]

Captured(c, outcome) == IF outcome = "settled" THEN Emit(c) ELSE heard

\* Mutant: the promise of a failed flight stays in the map and its streams wait on.
LandOnlyGood(c, outcome) ==
  LET told == Captured(c, outcome)[c]
      mine == {s \in Streams : Waiting(s, c)}
  IN  /\ EndOf(outcome) # "failed"
      /\ stream' = [s \in Streams |->
           IF s \in mine
           THEN [stream[s] EXCEPT !.pc = "done", !.counted = FALSE,
                                  !.out = EndOf(outcome), !.told = told]
           ELSE stream[s]]
      /\ count' = Freed(Cardinality({s \in mine : stream[s].counted}))
      /\ flight' = [flight EXCEPT ![job[c].key] = None]
      /\ job' = [job EXCEPT ![c] = Spent]
      /\ heard' = [Captured(c, outcome) EXCEPT ![c] = {}]
      /\ doomed' = FALSE

\* A flight's promise settles: its key leaves the map, every stream on it writes the
\* captured frames, or one error frame, frees its place if it still holds it, and ends.
\* A rejection is also that of promise.finally(), which nothing handles.
Land(c, outcome) ==
  LET told == Captured(c, outcome)[c]
      mine == {s \in Streams : Waiting(s, c)}
  IN  /\ stream' = [s \in Streams |->
           IF s \in mine
           THEN [stream[s] EXCEPT !.pc = "done", !.counted = FALSE,
                                  !.out = EndOf(outcome), !.told = told]
           ELSE stream[s]]
      /\ count' = Freed(Cardinality({s \in mine : stream[s].counted}))
      /\ flight' = [flight EXCEPT ![job[c].key] = None]
      /\ job' = [job EXCEPT ![c] = Spent]
      /\ heard' = [Captured(c, outcome) EXCEPT ![c] = {}]
      /\ doomed' = (EndOf(outcome) = "failed")

FlightGoesOn(c) ==
  /\ call'[c].pc # "done"
  /\ UNCHANGED <<stream, count, flight, job, heard, doomed>>

\* withLiveSequence has read the sponsor's sequence: receive() begins, and the replay
\* guard may end the flight at once.
FlightBegins(c) ==
  /\ ~ doomed
  /\ Running(c)
  /\ Begin(c, Server, BurnOfKey(job[c].key))
  /\ FlightGoesOn(c) \/ (call'[c].pc = "done" /\ Land(c, call'[c].out))
  /\ UNCHANGED file

\* The sequence cannot be read: the flight is rejected before receive() is called.
SequenceUnread(c) ==
  /\ ~ doomed
  /\ Running(c)
  /\ call[c].pc = "idle"
  /\ Land(c, "Other")
  /\ UNCHANGED <<receiveVars, file>>

FlightStep(c) ==
  /\ ~ doomed
  /\ Running(c)
  /\ CallStep(c)
  /\ FlightGoesOn(c) \/ (call'[c].pc = "done" /\ Land(c, call'[c].out))
  /\ UNCHANGED file
-----------------------------------------------------------------------------
(***************************************************************************)
(* POST /api/receive/settle on this server (module Settle has it on several*)
(* instances over Redis).  MemoryLock lets a second request in after 60 s, *)
(* which attestation and confirmation polling together exceed, so requests *)
(* of one burn may overlap here.                                           *)
(***************************************************************************)
\* The request has found no record of the burn.
RouteArrives(c, b) ==
  /\ ~ doomed
  /\ Free(c)
  /\ file[b] = NoRecord
  /\ job' = [job EXCEPT ![c] = [kind |-> "checked", key |-> <<b, None>>]]
  /\ UNCHANGED <<receiveVars, stream, count, flight, heard, file, doomed>>

\* Mutant: the file is written with the new record alone.
FileAfterForgettingOthers(c, b, outcome) ==
  IF outcome = "settled" THEN [x \in {b} |-> Settled(c)] ELSE file

\* Mutant: an unconfirmed mint is persisted with the receipt of a confirmed one.
FileAfterUnconfirmed(c, b, outcome) ==
  IF outcome \in {"settled", "MintUnconfirmed"} THEN [file EXCEPT ![b] = Settled(c)] ELSE file

\* What a finished receive() leaves in the file: persistSettled, or the broadcast hash of
\* an unconfirmed mint.
FileAfter(c, b, outcome) ==
  CASE outcome = "settled"         -> [file EXCEPT ![b] = Settled(c)]
    [] outcome = "MintUnconfirmed" -> [file EXCEPT ![b] = Submitted(c)]
    [] OTHER                       -> file

RouteGoesOn(c) ==
  /\ call'[c].pc # "done"
  /\ job' = [job EXCEPT ![c].kind = "route"]
  /\ UNCHANGED <<heard, file>>

RouteEnds(c) ==
  /\ call'[c].pc = "done"
  /\ job' = [job EXCEPT ![c] = Spent]
  /\ file' = FileAfter(c, BurnOfKey(job[c].key), call'[c].out)
  /\ heard' = Captured(c, call'[c].out)

\* The lock, the attestation probe and the sequence are good: receive() begins.
RouteBegins(c) ==
  /\ ~ doomed
  /\ job[c].kind = "checked"
  /\ Begin(c, Server, BurnOfKey(job[c].key))
  /\ RouteGoesOn(c) \/ RouteEnds(c)
  /\ UNCHANGED <<stream, count, flight, doomed>>

RouteStep(c) ==
  /\ ~ doomed
  /\ job[c].kind = "route"
  /\ CallStep(c)
  /\ RouteGoesOn(c) \/ RouteEnds(c)
  /\ UNCHANGED <<stream, count, flight, doomed>>

\* The process ends, by the unhandled rejection or otherwise, and is started again: only
\* the file is left.
ServerDies ==
  /\ CrashClient(Server)
  /\ stream' = [s \in Streams |->
       IF stream[s].pc = "waiting"
       THEN [NoStream EXCEPT !.pc = "done", !.out = "dropped"] ELSE stream[s]]
  /\ count' = 0
  /\ flight' = [k \in Keys |-> None]
  /\ job' = [c \in Calls |-> IF Free(c) THEN NoJob ELSE Spent]
  /\ heard' = [c \in Calls |-> {}]
  /\ doomed' = FALSE
  /\ UNCHANGED file

StreamsNext ==
  \/ \E s \in Streams, k \in Keys : Open(s, k)
  \/ \E s \in Streams : Leave(s)
  \/ \E c \in Calls, b \in Burns : RouteArrives(c, b)
  \/ \E c \in Calls :
       \/ FlightBegins(c)
       \/ SequenceUnread(c)
       \/ FlightStep(c)
       \/ RouteBegins(c)
       \/ RouteStep(c)
  \/ ServerDies
  \/ ChainStep /\ UNCHANGED <<call, store, serverVars>>

StreamsSpec == StreamsInit /\ [][StreamsNext]_streamsVars

\* Every await of receive() ends and a doomed process dies; clients and the network owe
\* nothing, and a server that is well need not be.
StreamsFairSpec ==
  /\ StreamsSpec
  /\ \A c \in Calls : WF_streamsVars(FlightBegins(c) \/ FlightStep(c))
  /\ WF_streamsVars(doomed /\ ServerDies)
-----------------------------------------------------------------------------
(***************************************************************************)
(* Properties.                                                             *)
(***************************************************************************)
\* activeReceives.count is the number of streams that hold a place, whichever of the
\* close of the connection, the end of the receive and the death of the process comes
\* first, and however many streams share one flight: no place is freed twice or kept.
CountIsExact == count = Cardinality({s \in Streams : stream[s].counted})

\* A key has one receive() under way, and it is the one the map gives to later streams:
\* an eviction never removes the flight of a successor.
OneFlightPerKey ==
  \A c \in Calls : Running(c) => flight[job[c].key] = c

\* A stream whose receive() settled the burn is told so with the transaction that minted
\* that burn, although its listeners also hear every other settlement of the client, and
\* one of those may come first.
OwnSettlementHeard ==
  \A s \in Streams : stream[s].out = "settled" =>
    \E c \in stream[s].told : stream[s].flight = c /\ MintedBy(c, call[c].burn)

\* Every stream ends: with frames, with an error, or with the process.
StreamsEnd == \A s \in Streams : stream[s].pc = "waiting" ~> stream[s].pc = "done"

\* What the file tells after a restart, and every later request, is true: a `settled` record
\* names the mint of its burn and a `submitted` one a transaction that was sent for it,
\* although settle requests of one burn overlap, overwrite each other's records, and share
\* the client with streams.
FileRecordsAreTrue ==
  \A b \in Burns :
    /\ file[b].status = "settled" => MintedBy(file[b].tx, b)
    /\ file[b].status = "submitted" => /\ tx[file[b].tx].st # "none"
                                       /\ tx[file[b].tx].burn = b

\* What the cap of events.ts:411 does bound: the receives of streams exceed it by no more
\* than the streams whose client has left them.
OnlyLeaversExceedCap ==
  Cardinality({c \in Calls : Running(c)}) <=
    MaxReceives + Cardinality({s \in Streams : stream[s].pc = "waiting" /\ ~ stream[s].counted})

\* events.ts:411, "concurrency cap for real-mode receives": no more than
\* maxConcurrentReceives receives of streams run at a time.
ReceivesWithinCap == Cardinality({c \in Calls : Running(c)}) <= MaxReceives
==============================================================================
