------------------------------- MODULE Intents -------------------------------
(***************************************************************************)
(* POST /api/receive/initiate and GET /api/receive/status: the handlers of *)
(* apps/demo/server/handlers.ts over the stores of kv.ts.  On Vercel the   *)
(* stores are Redis keys, each request its own invocation and each Redis   *)
(* call one step; on the local server (serve.ts) they are maps of its one  *)
(* process, and what lies between two real awaits is one step.             *)
(*                                                                         *)
(* Time is a Tick that ages every key; a tick is about as long as a rate   *)
(* window, and Lifetime ticks stand for the 24 h of an intent.             *)
(***************************************************************************)
EXTENDS Naturals, FiniteSets

CONSTANTS
  Requests,     \* initiate and status requests; an initiation's id names its intent
  Deposits,     \* normalised `${hash}|${address}|${amount}` tuples
  NoId,         \* no intent
  Lifetime,     \* INTENT_TTL_MS, in ticks
  FastWindow,   \* fastWindowMs, in ticks
  Window,       \* BUCKET_WINDOW_MS, in ticks
  Limit         \* BUCKET_LIMITS, of either bucket

ASSUME IntentsAssumption ==
  /\ NoId \notin Requests
  /\ Lifetime \in Nat \ {0}
  /\ FastWindow \in Nat
  /\ Window \in Nat \ {0}
  /\ Limit \in Nat \ {0}

VARIABLES
  backend,   \* "redis" or "memory": where the stores are
  bind,      \* bind[d]: the intent id deposit d is bound to, and the TTL left
  intent,    \* intent[r]: the intent of initiation r
  window,    \* window[k]: the rate window of bucket k for the one client address
  settled,   \* settled[d]: the replay record of the burn of d (module Settle writes it)
  req        \* req[r]: one request

intentsVars == <<backend, bind, intent, window, settled, req>>

Kinds == {"initiate", "status"}

ModeNames == {"fast", "standard"}

Unbound == [id |-> NoId, left |-> 0]

NoIntent == [st |-> "none", deposit |-> NoId, mode |-> "none", age |-> 0]

\* `age` is what the server's clock shows since createdAt; it stops counting at the end.
IntentStates == [st : {"none", "built", "stored"}, deposit : Deposits \cup {NoId},
                 mode : ModeNames \cup {"none"}, age : 0..Lifetime]

\* A key without a TTL has `left` 0 and a count.
Closed == [count |-> 0, left |-> 0]

NewRequest == [kind |-> "none", pc |-> "idle", deposit |-> NoId, found |-> NoId,
               late |-> FALSE, out |-> "none"]

RequestStates ==
  [kind : Kinds \cup {"none"},
   pc : {"idle", "expire", "claim", "binding", "intent", "store", "record", "probe", "done"},
   deposit : Deposits \cup {NoId}, found : Requests \cup {NoId}, late : BOOLEAN,
   out : {"none", "limited", "refused", "registered", "settled", "no_intent",
          "attesting", "degraded", "aborted", "unexpired"}]

\* The type invariant of the intents, the rate windows and the requests.
IntentsTypeOK ==
  /\ backend \in {"redis", "memory"}
  /\ bind \in [Deposits -> [id : Requests \cup {NoId}, left : 0..Lifetime]]
  /\ intent \in [Requests -> IntentStates]
  /\ window \in [Kinds -> [count : Nat, left : 0..Window]]
  /\ settled \in [Deposits -> BOOLEAN]
  /\ req \in [Requests -> RequestStates]

IntentsInit ==
  /\ backend \in {"redis", "memory"}
  /\ bind = [d \in Deposits |-> Unbound]
  /\ intent = [r \in Requests |-> NoIntent]
  /\ window = [k \in Kinds |-> Closed]
  /\ settled = [d \in Deposits |-> FALSE]
  /\ req = [r \in Requests |-> NewRequest]
-----------------------------------------------------------------------------
(***************************************************************************)
(* The stores.                                                             *)
(***************************************************************************)
\* What parse() and get() let through: an intent lives from createdAt, not from its key's
\* TTL, and belongs to the deposit asked for.
Readable(i, d) ==
  i # NoId /\ intent[i].st = "stored" /\ intent[i].deposit = d /\ intent[i].age < Lifetime

\* The intent a status request of d is answered from.
Bound(d) == IF Readable(bind[d].id, d) THEN bind[d].id ELSE NoId

Stage(r, pc) == [req EXCEPT ![r].pc = pc]

Answer(r, out) == [req EXCEPT ![r].pc = "done", ![r].out = out]

Live(r) == req[r].pc \notin {"idle", "done"}

\* What follows a hit that counted n: 429, a validation error, or the first store call.
\* An initiation builds its intent, with createdAt, before it calls put().
Goes(r, new, n, mode) ==
  \/ /\ n > Limit
     /\ req' = [req EXCEPT ![r] = [new EXCEPT !.pc = "done", !.out = "limited"]]
     /\ UNCHANGED intent
  \/ /\ n <= Limit
     /\ req' = [req EXCEPT ![r] = [new EXCEPT !.pc = "done", !.out = "refused"]]
     /\ UNCHANGED intent
  \/ /\ n <= Limit
     /\ new.kind = "initiate"
     /\ req' = [req EXCEPT ![r] = [new EXCEPT !.pc = "claim"]]
     /\ intent' = [intent EXCEPT ![r] =
          [st |-> "built", deposit |-> new.deposit, mode |-> mode, age |-> 0]]
  \/ /\ n <= Limit
     /\ new.kind = "status"
     /\ req' = [req EXCEPT ![r] = [new EXCEPT !.pc = "record"]]
     /\ UNCHANGED intent

\* RedisBuckets.hit: INCR; only the request that counted 1 sends EXPIRE, a call later.
HitRedis(r, kind, d, mode) ==
  LET n == window[kind].count + 1
      new == [NewRequest EXCEPT !.kind = kind, !.deposit = d]
  IN  /\ backend = "redis"
      /\ req[r].pc = "idle"
      /\ window' = [window EXCEPT ![kind].count = n]
      /\ \/ /\ n = 1
            /\ req' = [req EXCEPT ![r] = [new EXCEPT !.pc = "expire"]]
            /\ UNCHANGED intent
         \/ n # 1 /\ Goes(r, new, n, mode)
      /\ UNCHANGED <<backend, bind, settled>>

\* Mutant: the TTL is never set.
NeverExpires(r, mode) ==
  /\ req[r].pc = "expire"
  /\ Goes(r, req[r], 1, mode)
  /\ UNCHANGED <<backend, bind, window, settled>>

SetExpiry(r, mode) ==
  /\ req[r].pc = "expire"
  /\ window' = [window EXCEPT ![req[r].kind].left = Window]
  /\ Goes(r, req[r], 1, mode)
  /\ UNCHANGED <<backend, bind, settled>>

\* MemoryBuckets.hit: count and expiry are one entry of a map.
HitMemory(r, kind, d, mode) ==
  LET n == window[kind].count + 1
      left == IF n = 1 THEN Window ELSE window[kind].left
  IN  /\ backend = "memory"
      /\ req[r].pc = "idle"
      /\ window' = [window EXCEPT ![kind] = [count |-> n, left |-> left]]
      /\ Goes(r, [NewRequest EXCEPT !.kind = kind, !.deposit = d], n, mode)
      /\ UNCHANGED <<backend, bind, settled>>
-----------------------------------------------------------------------------
(***************************************************************************)
(* put() on Redis.                                                         *)
(***************************************************************************)
\* Mutant: SET without NX.
ClaimAlways(r) ==
  LET d == req[r].deposit IN
  /\ backend = "redis"
  /\ req[r].pc = "claim"
  /\ bind' = [bind EXCEPT ![d] = [id |-> r, left |-> Lifetime]]
  /\ req' = Stage(r, "store")
  /\ UNCHANGED <<backend, intent, window, settled>>

\* SET NX EX of the binding.
Claim(r) ==
  LET d == req[r].deposit IN
  /\ backend = "redis"
  /\ req[r].pc = "claim"
  /\ \/ /\ bind[d] = Unbound
        /\ bind' = [bind EXCEPT ![d] = [id |-> r, left |-> Lifetime]]
        /\ req' = Stage(r, "store")
     \/ /\ bind[d] # Unbound
        /\ req' = Stage(r, "binding")
        /\ UNCHANGED bind
  /\ UNCHANGED <<backend, intent, window, settled>>

\* find(): GET the binding.  An initiation that finds nothing stores its own intent.
ReadBinding(r) ==
  LET i == bind[req[r].deposit].id IN
  /\ backend = "redis"
  /\ req[r].pc = "binding"
  /\ \/ i # NoId /\ req' = [req EXCEPT ![r].pc = "intent", ![r].found = i]
     \/ i = NoId /\ req[r].kind = "initiate" /\ req' = Stage(r, "store")
     \/ i = NoId /\ req[r].kind = "status" /\ req' = Answer(r, "no_intent")
  /\ UNCHANGED <<backend, bind, intent, window, settled>>

\* A status request measures elapsedMs as soon as it has the intent.
Measured(r, i) ==
  [req EXCEPT ![r].pc = "probe", ![r].found = i, ![r].late = intent[i].age > FastWindow]

\* Mutant: the id the binding names is answered without reading the intent.
ReadIntentTrusting(r) ==
  /\ backend = "redis"
  /\ req[r].pc = "intent"
  /\ \/ req[r].kind = "initiate" /\ req' = Answer(r, "registered")
     \/ req[r].kind = "status" /\ req' = Measured(r, req[r].found)
  /\ UNCHANGED <<backend, bind, intent, window, settled>>

\* find(): GET the intent.  An initiation answers the winner's, or stores its own.
ReadIntent(r) ==
  LET i == req[r].found
      there == Readable(i, req[r].deposit)
  IN  /\ backend = "redis"
      /\ req[r].pc = "intent"
      /\ \/ there /\ req[r].kind = "initiate" /\ req' = Answer(r, "registered")
         \/ there /\ req[r].kind = "status" /\ req' = Measured(r, i)
         \/ ~ there /\ req[r].kind = "initiate" /\ req' = Stage(r, "store")
         \/ ~ there /\ req[r].kind = "status" /\ req' = Answer(r, "no_intent")
      /\ UNCHANGED <<backend, bind, intent, window, settled>>

\* SET EX of the request's own intent; the answer is its id.
Store(r) ==
  /\ req[r].pc = "store"
  /\ intent' = [intent EXCEPT ![r].st = "stored"]
  /\ req' = [req EXCEPT ![r].pc = "done", ![r].found = r, ![r].out = "registered"]
  /\ UNCHANGED <<backend, bind, window, settled>>
-----------------------------------------------------------------------------
(***************************************************************************)
(* The same stores in the local server's memory.                           *)
(***************************************************************************)
\* MemoryIntentStore.put: a binding whose intent is gone is claimed anew.
PutInMemory(r) ==
  LET d == req[r].deposit IN
  /\ backend = "memory"
  /\ req[r].pc = "claim"
  /\ \/ /\ Bound(d) # NoId
        /\ req' = [req EXCEPT ![r].pc = "done", ![r].found = Bound(d), ![r].out = "registered"]
        /\ UNCHANGED <<bind, intent>>
     \/ /\ Bound(d) = NoId
        /\ bind' = [bind EXCEPT ![d] = [id |-> r, left |-> Lifetime]]
        /\ intent' = [intent EXCEPT ![r].st = "stored"]
        /\ req' = [req EXCEPT ![r].pc = "done", ![r].found = r, ![r].out = "registered"]
  /\ UNCHANGED <<backend, window, settled>>

FindInMemory(r) ==
  LET i == Bound(req[r].deposit) IN
  /\ backend = "memory"
  /\ req[r].pc = "binding"
  /\ \/ i # NoId /\ req' = Measured(r, i)
     \/ i = NoId /\ req' = Answer(r, "no_intent")
  /\ UNCHANGED <<backend, bind, intent, window, settled>>
-----------------------------------------------------------------------------
(***************************************************************************)
(* handleStatus around find().                                             *)
(***************************************************************************)
\* Mutant: the record is looked at when there is no intent.
RecordAfterIntent(r) ==
  LET read == Bound(req[r].deposit) = NoId /\ settled[req[r].deposit] IN
  /\ req[r].pc = "record"
  /\ \/ read /\ req' = Answer(r, "settled")
     \/ ~ read /\ req' = Stage(r, "binding")
  /\ UNCHANGED <<backend, bind, intent, window, settled>>

\* The permanent record comes first.
ReadRecord(r) ==
  /\ req[r].pc = "record"
  /\ \/ settled[req[r].deposit] /\ req' = Answer(r, "settled")
     \/ ~ settled[req[r].deposit] /\ req' = Stage(r, "binding")
  /\ UNCHANGED <<backend, bind, intent, window, settled>>

\* One Iris read; whatever it says, the answer says attesting or ready, and whether a Fast
\* transfer has degraded: by the clock, or because Iris executed another tier.
Probe(r) ==
  /\ req[r].pc = "probe"
  /\ \/ req' = Answer(r, "attesting")
        /\ ~ (intent[req[r].found].mode = "fast" /\ req[r].late)
     \/ req' = Answer(r, "degraded") /\ intent[req[r].found].mode = "fast"
  /\ UNCHANGED <<backend, bind, intent, window, settled>>
-----------------------------------------------------------------------------
(***************************************************************************)
(* Failures, time, and the rest of the system.                             *)
(***************************************************************************)
\* The invocation is killed, or a Redis call fails, before or after it took effect.  One that
\* ends between the INCR that counted 1 and its EXPIRE leaves a counter without a TTL.
Abort(r) ==
  /\ backend = "redis"
  /\ Live(r)
  /\ req' = Answer(r, IF req[r].pc = "expire" THEN "unexpired" ELSE "aborted")
  /\ intent' = IF intent[r].st = "built" THEN [intent EXCEPT ![r] = NoIntent] ELSE intent
  /\ UNCHANGED <<backend, bind, window, settled>>

\* The local server restarts: the maps are gone, and every request under way.
Restart ==
  /\ backend = "memory"
  /\ bind' = [d \in Deposits |-> Unbound]
  /\ intent' = [r \in Requests |-> NoIntent]
  /\ window' = [k \in Kinds |-> Closed]
  /\ req' = [r \in Requests |->
       IF Live(r) THEN [req[r] EXCEPT !.pc = "done", !.out = "aborted"] ELSE req[r]]
  /\ UNCHANGED <<backend, settled>>

\* A settle request (module Settle) settles the burn.
Settles(d) ==
  /\ settled' = [settled EXCEPT ![d] = TRUE]
  /\ UNCHANGED <<backend, bind, intent, window, req>>

Aged(b) == IF b.left <= 1 THEN Unbound ELSE [b EXCEPT !.left = b.left - 1]

Older(i) == IF i.st # "none" /\ i.age < Lifetime THEN [i EXCEPT !.age = i.age + 1] ELSE i

Elapsed(w) ==
  IF w.left = 0 THEN w ELSE IF w.left = 1 THEN Closed ELSE [w EXCEPT !.left = w.left - 1]

\* A tick of the clock.
Tick ==
  /\ bind' = [d \in Deposits |-> Aged(bind[d])]
  /\ intent' = [r \in Requests |-> Older(intent[r])]
  /\ window' = [k \in Kinds |-> Elapsed(window[k])]
  /\ UNCHANGED <<backend, settled, req>>

ServeStep(r) ==
  \/ \E mode \in ModeNames : SetExpiry(r, mode)
  \/ Claim(r)
  \/ ReadBinding(r)
  \/ ReadIntent(r)
  \/ Store(r)
  \/ PutInMemory(r)
  \/ FindInMemory(r)
  \/ ReadRecord(r)
  \/ Probe(r)

IntentsNext ==
  \/ \E r \in Requests, kind \in Kinds, d \in Deposits, mode \in ModeNames :
       HitRedis(r, kind, d, mode) \/ HitMemory(r, kind, d, mode)
  \/ \E r \in Requests : ServeStep(r) \/ Abort(r)
  \/ Restart
  \/ \E d \in Deposits : Settles(d)
  \/ Tick

IntentsSpec == IntentsInit /\ [][IntentsNext]_intentsVars

\* Invocations run on (or are aborted, which ends them too) and time passes.
IntentsFairness ==
  /\ \A r \in Requests : WF_intentsVars(ServeStep(r))
  /\ WF_intentsVars(Tick)

IntentsFairSpec == IntentsSpec /\ IntentsFairness
-----------------------------------------------------------------------------
(***************************************************************************)
(* Properties.                                                             *)
(***************************************************************************)
\* First-claimer wins (kv.ts, spec 9): as long as the intent a deposit's status is answered
\* from lives, no sequence of initiations, failures and expiries puts another in its place,
\* or none: its mode does not flip and its clock is not reset.
FirstClaimWins ==
  [][\A d \in Deposits, i \in Requests :
       Bound(d) = i /\ Readable(i, d)' => Bound(d)' = i]_intentsVars

\* An initiation is answered with the id of an intent that is in the store and was made for
\* that deposit, whoever won the claim and whatever failed.  (Not that a settle would find it:
\* one that took the place of an expired intent has no binding of its own.)
RegisteredIntentsExist ==
  [][\A r \in Requests : req[r].out # "registered" /\ req'[r].out = "registered" =>
       LET i == intent'[req'[r].found] IN i.st = "stored" /\ i.deposit = req'[r].deposit
    ]_intentsVars

\* A status request whose burn is already settled when it comes to the record is answered
\* `settled`, intent or not, unless its invocation fails.
SettledIsAnswered ==
  \A r \in Requests : (req[r].pc = "record" /\ settled[req[r].deposit])
                        ~> req[r].out \in {"settled", "aborted"}

\* A rate window ends, so that a client is let in again, unless the invocation that counted 1
\* ended before its EXPIRE: no other failure, of whatever request, keeps a window open.
WindowsEnd ==
  \A k \in Kinds : window[k].count > 0 ~>
    \/ window[k].count = 0
    \/ \E r \in Requests : req[r].kind = k /\ req[r].out = "unexpired"
==============================================================================
