-------------------------------- MODULE Fees --------------------------------
(***************************************************************************)
(* GET /api/fees: handleFees of apps/demo/server/handlers.ts over          *)
(* RedisFeeCache (or MemoryFeeCache) of kv.ts and fetchTransferFee of      *)
(* attestation/fees.ts, for one route.  Routes have keys of their own and  *)
(* do not meet.                                                            *)
(*                                                                         *)
(* A tick is a part of the hour an entry lives.  A request lasts seconds   *)
(* (Iris is given 15 s), so at most one tick falls in it.                  *)
(***************************************************************************)
EXTENDS Integers

CONSTANTS
  Asks,      \* requests under way at once; a slot serves one after another
  FeeLife    \* FEE_CACHE_TTL_MS, in ticks

ASSUME FeesAssumption == FeeLife \in Nat \ {0}

VARIABLES
  offered,   \* the tiers Circle offers on the route
  entry,     \* the cached quote
  ask        \* ask[q]: one request

feesVars == <<offered, entry, ask>>

Tiers == {"fast", "standard"}

\* `age` counts from the arrival of the request that made the entry (cachedAtMs), `left`
\* is the key's TTL and counts from its SET.
NoEntry == [there |-> FALSE, tiers |-> {}, age |-> 0, left |-> 0]

NoAsk == [pc |-> "idle", mode |-> "fast", old |-> FALSE, pending |-> {}, got |-> {},
          out |-> "none"]

\* `old`: a tick fell after the request took its `now`.
AskStates == [pc : {"idle", "cache", "probe", "set", "done"}, mode : Tiers, old : BOOLEAN,
              pending : SUBSET Tiers, got : SUBSET Tiers,
              out : {"none", "refused", "quoted", "unavailable", "aborted"}]

\* The type invariant of the quotes.
FeesTypeOK ==
  /\ offered \in SUBSET Tiers
  /\ entry \in [there : BOOLEAN, tiers : SUBSET Tiers, age : 0..(FeeLife + 2),
                left : 0..FeeLife]
  /\ ask \in [Asks -> AskStates]

FeesInit ==
  /\ offered \in SUBSET Tiers
  /\ entry = NoEntry
  /\ ask = [q \in Asks |-> NoAsk]
-----------------------------------------------------------------------------
Reply(q, out) == [ask EXCEPT ![q] = [NoAsk EXCEPT !.pc = "done", !.out = out]]

\* The tier asked for, or 503 FEE_UNAVAILABLE.
Quote(q, tiers) ==
  ask' = Reply(q, IF ask[q].mode \in tiers THEN "quoted" ELSE "unavailable")

\* Validation: 400 for the mode or the domains, 503 without an Iris base URL.  Then `now`
\* is taken.
Ask(q, mode) ==
  /\ ask[q].pc \in {"idle", "done"}
  /\ \/ ask' = Reply(q, "refused")
     \/ ask' = [ask EXCEPT ![q] = [NoAsk EXCEPT !.pc = "cache", !.mode = mode]]
  /\ UNCHANGED <<offered, entry>>

\* now - cachedAtMs <= FEE_CACHE_TTL_MS, with the `now` of the request's arrival.
Fresh(q) ==
  entry.there /\ entry.age <= (IF ask[q].old THEN FeeLife + 1 ELSE FeeLife)

StartProbes(q) == ask' = [ask EXCEPT ![q].pc = "probe", ![q].pending = Tiers]

\* Mutant: a hit renews the entry.
ReadAndRenew(q) ==
  /\ ask[q].pc = "cache"
  /\ \/ /\ Fresh(q)
        /\ Quote(q, entry.tiers)
        /\ entry' = [entry EXCEPT !.age = 0, !.left = FeeLife]
     \/ ~ Fresh(q) /\ StartProbes(q) /\ UNCHANGED entry
  /\ UNCHANGED offered

ReadCache(q) ==
  /\ ask[q].pc = "cache"
  /\ \/ Fresh(q) /\ Quote(q, entry.tiers)
     \/ ~ Fresh(q) /\ StartProbes(q)
  /\ UNCHANGED <<offered, entry>>

\* One of the two parallel reads of the fee API.  A tier that is not offered, and a request
\* that failed, timed out or was refused, are the same null.
ProbeTier(q, t) ==
  /\ ask[q].pc = "probe"
  /\ t \in ask[q].pending
  /\ LET rest == ask[q].pending \ {t} IN
     \E got \in {ask[q].got, ask[q].got \cup ({t} \cap offered)} :
       ask' = [ask EXCEPT ![q].pending = rest, ![q].got = got,
                          ![q].pc = IF rest = {} THEN "set" ELSE "probe"]
  /\ UNCHANGED <<offered, entry>>

\* The last request to set the entry wins, however old its `now`.
SetCache(q) ==
  /\ ask[q].pc = "set"
  /\ entry' = [there |-> TRUE, tiers |-> ask[q].got,
               age |-> IF ask[q].old THEN 1 ELSE 0, left |-> FeeLife]
  /\ Quote(q, ask[q].got)
  /\ UNCHANGED offered

\* The invocation is killed, a Redis call fails, or a probe throws something unforeseen.
DropAsk(q) ==
  /\ ask[q].pc \notin {"idle", "done"}
  /\ ask' = Reply(q, "aborted")
  /\ UNCHANGED <<offered, entry>>

\* The local server restarts.
ForgetQuotes ==
  /\ entry' = NoEntry
  /\ ask' = [q \in Asks |->
       IF ask[q].pc \in {"idle", "done"} THEN ask[q]
       ELSE [NoAsk EXCEPT !.pc = "done", !.out = "aborted"]]
  /\ UNCHANGED offered

\* Circle opens or closes a tier.
Reoffer ==
  /\ offered' \in SUBSET Tiers
  /\ UNCHANGED <<entry, ask>>

\* Mutant: the entry outlives its TTL.
RipenedForEver(e) == [e EXCEPT !.left = e.left - 1]

Ripened(e) ==
  IF e.left <= 1 THEN NoEntry
  ELSE [e EXCEPT !.left = e.left - 1, !.age = IF e.age < FeeLife + 2 THEN e.age + 1 ELSE e.age]

FeesTick ==
  /\ \A q \in Asks : ~ ask[q].old
  /\ entry' = Ripened(entry)
  /\ ask' = [q \in Asks |->
       IF ask[q].pc \in {"idle", "done"} THEN ask[q] ELSE [ask[q] EXCEPT !.old = TRUE]]
  /\ UNCHANGED offered

AskStep(q) == ReadCache(q) \/ (\E t \in Tiers : ProbeTier(q, t)) \/ SetCache(q)

FeesNext ==
  \/ \E q \in Asks, mode \in Tiers : Ask(q, mode)
  \/ \E q \in Asks : AskStep(q) \/ DropAsk(q)
  \/ ForgetQuotes
  \/ Reoffer
  \/ FeesTick

FeesSpec == FeesInit /\ [][FeesNext]_feesVars

\* Requests run on, and time passes.
FeesFairness ==
  /\ \A q \in Asks : WF_feesVars(AskStep(q))
  /\ WF_feesVars(FeesTick)

FeesFairSpec == FeesSpec /\ FeesFairness
-----------------------------------------------------------------------------
\* An entry is there for its TTL and no longer: counted from the arrival of the request that
\* made it, it outlasts the TTL by the tick at most that fell into that request, however
\* requests overlap and whoever is answered from it.
QuotesAreRecent == entry.there => entry.left > 0 /\ entry.age + entry.left <= FeeLife + 1

\* A tier the cache says the route lacks, because Circle lacked it or because one read
\* failed, is not denied for ever: at some moment the entry is gone or has the tier, or
\* Circle does not offer it.  Overlapping requests that each set an entry do not keep it.
MissingTierIsForgotten ==
  \A t \in Tiers :
    (entry.there /\ t \notin entry.tiers) ~>
      (~ entry.there \/ t \in entry.tiers \/ t \notin offered)
=============================================================================
