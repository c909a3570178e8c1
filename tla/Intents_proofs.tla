--------------------------- MODULE Intents_proofs ---------------------------
(***************************************************************************)
(* Proofs about Intents: for any number of requests and deposits, any      *)
(* lifetimes and limits, on Redis and in memory.                           *)
(***************************************************************************)
EXTENDS Intents, TLAPS

\* A request that has begun has a kind and a deposit.
RequestsNamed ==
  \A r \in Requests : req[r].pc # "idle" => req[r].kind \in Kinds /\ req[r].deposit \in Deposits

\* Where an initiation is in put().
Putting == {"claim", "binding", "intent", "store"}

\* An initiation in put() holds the intent it built, and only an initiation claims and stores;
\* only a status request looks at the record.
OwnIntent ==
  \A r \in Requests :
    /\ req[r].pc = "record" => req[r].kind = "status"
    /\ req[r].pc \in {"claim", "store"} => req[r].kind = "initiate"
    /\ req[r].kind = "initiate" /\ req[r].pc \in Putting =>
         intent[r].st = "built" /\ intent[r].deposit = req[r].deposit

\* A binding names an initiation that has built its intent, and does not outlast it less the
\* time between that moment and the claim: at its end the intent is over too.
BindingsLast ==
  \A d \in Deposits : bind[d].id # NoId =>
    /\ req[bind[d].id].pc \notin {"idle", "expire"}
    /\ intent[bind[d].id].st # "none" => intent[bind[d].id].age + bind[d].left >= Lifetime

\* The inductive invariant.
IntentsInv == IntentsTypeOK /\ RequestsNamed /\ OwnIntent /\ BindingsLast
-----------------------------------------------------------------------------
(***************************************************************************)
(* What the steps write.                                                   *)
(***************************************************************************)
\* Into a request.
LEMMA RequestEdits ==
  ASSUME NEW v \in RequestStates, NEW i \in Requests \cup {NoId}, NEW b \in BOOLEAN,
         NEW pc \in {"expire", "claim", "binding", "intent", "store", "record", "probe",
                     "done"},
         NEW out \in {"limited", "refused", "registered", "settled", "no_intent", "attesting",
                      "degraded", "aborted", "unexpired"}
  PROVE  /\ [v EXCEPT !.pc = pc] \in RequestStates
         /\ [v EXCEPT !.pc = pc, !.out = out] \in RequestStates
         /\ [v EXCEPT !.pc = pc, !.found = i] \in RequestStates
         /\ [v EXCEPT !.pc = pc, !.found = i, !.late = b] \in RequestStates
         /\ [v EXCEPT !.pc = pc, !.found = i, !.out = out] \in RequestStates
  <1> USE DEF RequestStates
  <1>1. [v EXCEPT !.pc = pc] \in RequestStates
    OBVIOUS
  <1>2. [v EXCEPT !.pc = pc, !.out = out] \in RequestStates
    OBVIOUS
  <1>3. [v EXCEPT !.pc = pc, !.found = i] \in RequestStates
    OBVIOUS
  <1>4. [v EXCEPT !.pc = pc, !.found = i, !.late = b] \in RequestStates
    OBVIOUS
  <1>5. [v EXCEPT !.pc = pc, !.found = i, !.out = out] \in RequestStates
    OBVIOUS
  <1> QED
    BY <1>1, <1>2, <1>3, <1>4, <1>5

\* An intent's age is a number, and can be compared with the Fast window.
LEMMA AgesAreNumbers ==
  ASSUME IntentsTypeOK, NEW i \in Requests
  PROVE  intent[i].age \in Nat /\ (intent[i].age > FastWindow) \in BOOLEAN
  <1>1. intent[i] \in IntentStates
    BY DEF IntentsTypeOK
  <1>2. intent[i].age \in Nat
    BY <1>1, IntentsAssumption DEF IntentStates
  <1>3. \A m, n \in Nat : (m > n) \in BOOLEAN
    OBVIOUS
  <1> QED
    BY <1>2, <1>3, IntentsAssumption

\* Replacing one request.
LEMMA RequestPut ==
  ASSUME IntentsTypeOK, NEW r \in Requests, NEW w \in RequestStates,
         req' = [req EXCEPT ![r] = w]
  PROVE  /\ req' \in [Requests -> RequestStates]
         /\ req'[r] = w
         /\ \A q \in Requests \ {r} : req'[q] = req[q]
  BY DEF IntentsTypeOK

\* Request r goes on from v to w.
GoesOn(v, w) ==
  /\ w \in RequestStates
  /\ w.kind = v.kind /\ w.deposit = v.deposit
  /\ w.pc \notin {"idle", "expire", "record"}
  /\ w.pc \in {"claim", "store"} => w.kind = "initiate"
  /\ w.kind = "initiate" /\ w.pc \in Putting => v.pc \in Putting

\* A step of one request that touches nothing else.
LEMMA RequestKeeps ==
  ASSUME IntentsInv, NEW r \in Requests, NEW w, req' = [req EXCEPT ![r] = w],
         req[r].pc \notin {"idle", "expire"}, GoesOn(req[r], w),
         UNCHANGED <<backend, bind, intent, window, settled>>
  PROVE  IntentsInv'
  <1> USE DEF IntentsInv, IntentsTypeOK
  <1>1. IntentsTypeOK'
    BY DEF GoesOn
  <1>2. RequestsNamed'
    BY DEF GoesOn, RequestsNamed
  <1>3. OwnIntent'
    BY DEF GoesOn, OwnIntent
  <1>4. BindingsLast'
    BY DEF GoesOn, BindingsLast
  <1> QED
    BY <1>1, <1>2, <1>3, <1>4

\* A new request, and what Goes makes of it.
LEMMA GoesMoves ==
  ASSUME IntentsTypeOK, NEW r \in Requests, NEW new \in RequestStates,
         new.kind \in Kinds, new.deposit \in Deposits, NEW n \in Nat, NEW mode \in ModeNames,
         Goes(r, new, n, mode)
  PROVE  /\ req' \in [Requests -> RequestStates]
         /\ intent' \in [Requests -> IntentStates]
         /\ \A q \in Requests \ {r} : req'[q] = req[q] /\ intent'[q] = intent[q]
         /\ req'[r].kind = new.kind /\ req'[r].deposit = new.deposit
         /\ req'[r].out # "registered" \/ new.out = "registered"
         /\ \/ req'[r].pc = "done"
            \/ req'[r].pc = "record" /\ new.kind = "status"
            \/ /\ req'[r].pc = "claim" /\ new.kind = "initiate"
               /\ intent'[r].st = "built" /\ intent'[r].deposit = new.deposit
  <1> USE DEF IntentsTypeOK
  <1> DEFINE built == [st |-> "built", deposit |-> new.deposit, mode |-> mode, age |-> 0]
  <1>1. built \in IntentStates /\ built.st = "built" /\ built.deposit = new.deposit
    BY IntentsAssumption DEF IntentStates
  <1>2. ASSUME NEW out \in {"limited", "refused"},
               req' = [req EXCEPT ![r] = [new EXCEPT !.pc = "done", !.out = out]],
               UNCHANGED intent
        PROVE  /\ req' \in [Requests -> RequestStates]
               /\ req'[r].kind = new.kind /\ req'[r].deposit = new.deposit
               /\ req'[r].out # "registered" /\ req'[r].pc = "done"
               /\ \A q \in Requests \ {r} : req'[q] = req[q]
    BY <1>2 DEF RequestStates
  <1>3. ASSUME NEW pc \in {"claim", "record"},
               req' = [req EXCEPT ![r] = [new EXCEPT !.pc = pc]]
        PROVE  /\ req' \in [Requests -> RequestStates]
               /\ req'[r].kind = new.kind /\ req'[r].deposit = new.deposit
               /\ req'[r].out = new.out /\ req'[r].pc = pc
               /\ \A q \in Requests \ {r} : req'[q] = req[q]
    BY <1>3 DEF RequestStates
  <1>4. CASE \E out \in {"limited", "refused"} :
               /\ req' = [req EXCEPT ![r] = [new EXCEPT !.pc = "done", !.out = out]]
               /\ UNCHANGED intent
    BY <1>2, <1>4
  <1>5. CASE /\ new.kind = "initiate"
             /\ req' = [req EXCEPT ![r] = [new EXCEPT !.pc = "claim"]]
             /\ intent' = [intent EXCEPT ![r] = built]
    BY <1>1, <1>3, <1>5
  <1>6. CASE /\ new.kind = "status"
             /\ req' = [req EXCEPT ![r] = [new EXCEPT !.pc = "record"]]
             /\ UNCHANGED intent
    BY <1>3, <1>6
  <1> QED
    BY <1>4, <1>5, <1>6, Zenon DEF Goes

\* Nobody has claimed anything for a request that has not come to put().
LEMMA GoesKeeps ==
  ASSUME IntentsInv, NEW r \in Requests, NEW new \in RequestStates,
         new.kind \in Kinds, new.deposit \in Deposits, NEW n \in Nat, NEW mode \in ModeNames,
         Goes(r, new, n, mode), req[r].pc \in {"idle", "expire"},
         UNCHANGED <<backend, bind, settled>>,
         window' \in [Kinds -> [count : Nat, left : 0..Window]]
  PROVE  IntentsInv'
  <1>1. /\ req' \in [Requests -> RequestStates]
        /\ intent' \in [Requests -> IntentStates]
        /\ \A q \in Requests \ {r} : req'[q] = req[q] /\ intent'[q] = intent[q]
        /\ req'[r].kind = new.kind /\ req'[r].deposit = new.deposit
        /\ \/ req'[r].pc = "done"
           \/ req'[r].pc = "record" /\ new.kind = "status"
           \/ /\ req'[r].pc = "claim" /\ new.kind = "initiate"
              /\ intent'[r].st = "built" /\ intent'[r].deposit = new.deposit
    BY GoesMoves DEF IntentsInv
  <1>2. IntentsTypeOK'
    BY <1>1 DEF IntentsInv, IntentsTypeOK
  <1>3. RequestsNamed'
    BY <1>1 DEF IntentsInv, RequestsNamed
  <1>4. OwnIntent'
    <2> SUFFICES ASSUME NEW q \in Requests
                 PROVE  /\ req'[q].pc = "record" => req'[q].kind = "status"
                        /\ req'[q].pc \in {"claim", "store"} => req'[q].kind = "initiate"
                        /\ req'[q].kind = "initiate" /\ req'[q].pc \in Putting =>
                             /\ intent'[q].st = "built"
                             /\ intent'[q].deposit = req'[q].deposit
      BY DEF OwnIntent
    <2>1. CASE q = r
      BY <1>1, <2>1 DEF Putting
    <2>2. CASE q # r
      BY <1>1, <2>2 DEF IntentsInv, OwnIntent
    <2> QED
      BY <2>1, <2>2
  <1>5. BindingsLast'
    <2>1. \A d \in Deposits : bind[d].id # NoId => bind[d].id \in Requests \ {r}
      BY DEF IntentsInv, IntentsTypeOK, BindingsLast
    <2> QED
      BY <1>1, <2>1 DEF IntentsInv, BindingsLast
  <1> QED
    BY <1>2, <1>3, <1>4, <1>5 DEF IntentsInv
-----------------------------------------------------------------------------
(***************************************************************************)
(* The steps.                                                              *)
(***************************************************************************)
LEMMA NewRequests ==
  ASSUME NEW kind \in Kinds, NEW d \in Deposits
  PROVE  LET new == [NewRequest EXCEPT !.kind = kind, !.deposit = d] IN
         /\ new \in RequestStates /\ new.kind = kind /\ new.deposit = d /\ new.out = "none"
  <1>1. NewRequest \in RequestStates /\ NewRequest.out = "none"
    BY DEF NewRequest, RequestStates
  <1>2. \A v \in RequestStates :
          LET w == [v EXCEPT !.kind = kind, !.deposit = d] IN
          w \in RequestStates /\ w.kind = kind /\ w.deposit = d /\ w.out = v.out
    BY DEF RequestStates
  <1> QED
    BY <1>1, <1>2

\* A request that arrives is nobody's intent yet.
LEMMA HitsKeep ==
  ASSUME IntentsInv, NEW r \in Requests, NEW kind \in Kinds, NEW d \in Deposits,
         NEW mode \in ModeNames, HitRedis(r, kind, d, mode) \/ HitMemory(r, kind, d, mode)
  PROVE  IntentsInv'
  <1> DEFINE new == [NewRequest EXCEPT !.kind = kind, !.deposit = d]
             n == window[kind].count + 1
  <1>0. new \in RequestStates /\ new.kind = kind /\ new.deposit = d
    BY NewRequests
  <1>1. n \in Nat
    BY DEF IntentsInv, IntentsTypeOK
  <1>2. req[r].pc = "idle" /\ UNCHANGED <<backend, bind, settled>>
    BY DEF HitRedis, HitMemory
  <1>3. window' \in [Kinds -> [count : Nat, left : 0..Window]]
    BY <1>1, IntentsAssumption DEF HitRedis, HitMemory, IntentsInv, IntentsTypeOK
  <1>4. \/ Goes(r, new, n, mode)
        \/ req' = [req EXCEPT ![r] = [new EXCEPT !.pc = "expire"]] /\ UNCHANGED intent
    BY DEF HitRedis, HitMemory
  <1> HIDE DEF new, n
  <1>5. CASE Goes(r, new, n, mode)
    BY <1>0, <1>1, <1>2, <1>3, <1>5, GoesKeeps
  <1>6. CASE req' = [req EXCEPT ![r] = [new EXCEPT !.pc = "expire"]] /\ UNCHANGED intent
    <2> USE DEF IntentsInv, IntentsTypeOK
    <2>1. /\ req' \in [Requests -> RequestStates]
          /\ req'[r].kind = kind /\ req'[r].deposit = d /\ req'[r].pc = "expire"
          /\ \A q \in Requests \ {r} : req'[q] = req[q]
      BY <1>0, <1>6 DEF RequestStates
    <2>2. IntentsTypeOK'
      BY <1>2, <1>3, <1>6, <2>1
    <2>3. RequestsNamed'
      BY <2>1 DEF RequestsNamed
    <2>4. OwnIntent'
      BY <1>6, <2>1 DEF OwnIntent, Putting
    <2>5. BindingsLast'
      <3>1. \A e \in Deposits : bind[e].id # NoId => bind[e].id \in Requests \ {r}
        BY <1>2 DEF BindingsLast
      <3> QED
        BY <1>2, <1>6, <2>1, <3>1 DEF BindingsLast
    <2> QED
      BY <2>2, <2>3, <2>4, <2>5
  <1> QED
    BY <1>4, <1>5, <1>6

\* The TTL of a new window, and what the request does next.
LEMMA SetExpiryKeeps ==
  ASSUME IntentsInv, NEW r \in Requests, NEW mode \in ModeNames, SetExpiry(r, mode)
  PROVE  IntentsInv'
  <1>1. /\ req[r].pc = "expire" /\ Goes(r, req[r], 1, mode)
        /\ UNCHANGED <<backend, bind, settled>>
        /\ window' = [window EXCEPT ![req[r].kind].left = Window]
    BY DEF SetExpiry
  <1>2. req[r] \in RequestStates /\ req[r].kind \in Kinds /\ req[r].deposit \in Deposits
    BY <1>1 DEF IntentsInv, IntentsTypeOK, RequestsNamed
  <1>3. window' \in [Kinds -> [count : Nat, left : 0..Window]]
    <2>1. \A w \in [count : Nat, left : 0..Window] :
            [w EXCEPT !.left = Window] \in [count : Nat, left : 0..Window]
      BY IntentsAssumption
    <2>2. window' = [window EXCEPT ![req[r].kind] = [window[req[r].kind] EXCEPT !.left = Window]]
      BY <1>1
    <2> QED
      BY <1>2, <2>1, <2>2 DEF IntentsInv, IntentsTypeOK
  <1> QED
    BY <1>1, <1>2, <1>3, GoesKeeps

\* The claim of a deposit, on Redis and in memory, up to what becomes of the request.
LEMMA ClaimedKeeps ==
  ASSUME IntentsInv, NEW r \in Requests, NEW d \in Deposits,
         req[r].pc \notin {"idle", "expire"},
         bind' = [bind EXCEPT ![d] = [id |-> r, left |-> Lifetime]],
         \A q \in Requests :
           /\ req[q].pc \notin {"idle", "expire"} => req'[q].pc \notin {"idle", "expire"}
           /\ intent'[q].age = intent[q].age
           /\ intent'[q].st # "none" => intent[q].st # "none",
         intent' \in [Requests -> IntentStates]
  PROVE  /\ BindingsLast'
         /\ bind' \in [Deposits -> [id : Requests \cup {NoId}, left : 0..Lifetime]]
  <1> USE DEF IntentsInv, IntentsTypeOK
  <1>1. bind' \in [Deposits -> [id : Requests \cup {NoId}, left : 0..Lifetime]]
    BY IntentsAssumption
  <1>2. ASSUME NEW e \in Deposits, bind'[e].id # NoId
        PROVE  /\ req'[bind'[e].id].pc \notin {"idle", "expire"}
               /\ intent'[bind'[e].id].st # "none" =>
                    intent'[bind'[e].id].age + bind'[e].left >= Lifetime
    <2>1. CASE e = d
      <3>1. bind'[e].id = r /\ bind'[e].left = Lifetime
        BY <2>1
      <3>2. intent'[r].age \in Nat
        BY IntentsAssumption DEF IntentStates
      <3> QED
        BY <3>1, <3>2, IntentsAssumption
    <2>2. CASE e # d
      <3>1. bind'[e] = bind[e]
        BY <2>2
      <3>2. bind[e].id \in Requests
        BY <1>2, <3>1
      <3> QED
        BY <1>2, <3>1, <3>2 DEF BindingsLast
    <2> QED
      BY <2>1, <2>2
  <1>3. BindingsLast'
    BY <1>2 DEF BindingsLast
  <1> QED
    BY <1>1, <1>3

\* A claim binds the deposit to an intent that is already built.
LEMMA ClaimKeeps ==
  ASSUME IntentsInv, NEW r \in Requests, Claim(r)
  PROVE  IntentsInv'
  <1> USE DEF IntentsInv, IntentsTypeOK
  <1>0. req[r].pc = "claim" /\ UNCHANGED <<backend, intent, window, settled>>
        /\ req[r].kind = "initiate" /\ req[r].deposit \in Deposits /\ req[r] \in RequestStates
    BY DEF Claim, OwnIntent, RequestsNamed
  <1>1. CASE bind[req[r].deposit] # Unbound
    <2>1. req' = [req EXCEPT ![r] = [req[r] EXCEPT !.pc = "binding"]] /\ UNCHANGED bind
      BY <1>1 DEF Claim, Stage
    <2>2. GoesOn(req[r], [req[r] EXCEPT !.pc = "binding"])
      BY <1>0 DEF GoesOn, RequestStates, Putting
    <2> QED
      BY <1>0, <2>1, <2>2, RequestKeeps
  <1>2. CASE bind[req[r].deposit] = Unbound
    <2>1. /\ req' = [req EXCEPT ![r] = [req[r] EXCEPT !.pc = "store"]]
          /\ bind' = [bind EXCEPT ![req[r].deposit] = [id |-> r, left |-> Lifetime]]
      BY <1>2 DEF Claim, Stage
    <2>2. /\ req' \in [Requests -> RequestStates]
          /\ \A q \in Requests \ {r} : req'[q] = req[q]
          /\ req'[r].pc = "store" /\ req'[r].kind = "initiate"
          /\ req'[r].deposit = req[r].deposit
      BY <1>0, <2>1 DEF RequestStates
    <2>3. /\ BindingsLast'
          /\ bind' \in [Deposits -> [id : Requests \cup {NoId}, left : 0..Lifetime]]
      BY <1>0, <2>1, <2>2, ClaimedKeeps
    <2>4. IntentsTypeOK'
      BY <1>0, <2>2, <2>3
    <2>5. RequestsNamed' /\ OwnIntent'
      BY SMTT(20), <1>0, <2>2 DEF RequestsNamed, OwnIntent, Putting, Kinds
    <2> QED
      BY <2>3, <2>4, <2>5
  <1> QED
    BY <1>1, <1>2

\* find() reads the binding.
LEMMA ReadBindingKeeps ==
  ASSUME IntentsInv, NEW r \in Requests, ReadBinding(r)
  PROVE  IntentsInv'
  <1> USE DEF IntentsInv, IntentsTypeOK
  <1>0. req[r].pc = "binding" /\ UNCHANGED <<backend, bind, intent, window, settled>>
        /\ req[r] \in RequestStates /\ req[r].deposit \in Deposits
    BY DEF ReadBinding, RequestsNamed
  <1>1. CASE /\ bind[req[r].deposit].id # NoId
             /\ req' = [req EXCEPT ![r].pc = "intent", ![r].found = bind[req[r].deposit].id]
    <2>1. bind[req[r].deposit].id \in Requests
      BY <1>0, <1>1
    <2>2. GoesOn(req[r], [req[r] EXCEPT !.pc = "intent", !.found = bind[req[r].deposit].id])
      BY <1>0, <2>1 DEF GoesOn, RequestStates, Putting
    <2>3. req' = [req EXCEPT ![r] =
                   [req[r] EXCEPT !.pc = "intent", !.found = bind[req[r].deposit].id]]
      BY <1>1
    <2> QED
      BY <1>0, <2>2, <2>3, RequestKeeps
  <1>2. CASE req[r].kind = "initiate" /\ req' = Stage(r, "store")
    <2>1. GoesOn(req[r], [req[r] EXCEPT !.pc = "store"])
      BY <1>0, <1>2 DEF GoesOn, RequestStates, Putting
    <2> QED
      BY <1>0, <1>2, <2>1, RequestKeeps DEF Stage
  <1>3. CASE req' = Answer(r, "no_intent")
    <2>1. GoesOn(req[r], [req[r] EXCEPT !.pc = "done", !.out = "no_intent"])
      BY <1>0 DEF GoesOn, RequestStates, Putting
    <2> QED
      BY <1>0, <1>3, <2>1, RequestKeeps DEF Answer
  <1> QED
    BY <1>1, <1>2, <1>3, Zenon DEF ReadBinding

\* A status request that has its intent, or a request that gets its answer.
LEMMA AnsweredKeeps ==
  ASSUME IntentsInv, NEW r \in Requests, req[r].pc \notin {"idle", "expire"},
         UNCHANGED <<backend, bind, intent, window, settled>>,
         \/ \E out \in {"registered", "settled", "no_intent", "attesting", "degraded"} :
              req' = Answer(r, out)
         \/ \E i \in Requests : req' = Measured(r, i)
         \/ \E i \in Requests \cup {NoId} :
              req' = [req EXCEPT ![r].pc = "done", ![r].found = i, ![r].out = "registered"]
  PROVE  IntentsInv'
  <1> req[r] \in RequestStates
    BY DEF IntentsInv, IntentsTypeOK
  <1>1. ASSUME NEW out \in {"registered", "settled", "no_intent", "attesting", "degraded"},
               req' = Answer(r, out)
        PROVE  IntentsInv'
    <2>1. GoesOn(req[r], [req[r] EXCEPT !.pc = "done", !.out = out])
      BY DEF GoesOn, RequestStates, Putting
    <2>2. req' = [req EXCEPT ![r] = [req[r] EXCEPT !.pc = "done", !.out = out]]
      BY <1>1 DEF Answer
    <2> QED
      BY <2>1, <2>2, RequestKeeps
  <1>2. ASSUME NEW i \in Requests, req' = Measured(r, i)
        PROVE  IntentsInv'
    <2> DEFINE late == intent[i].age > FastWindow
    <2>1. GoesOn(req[r], [req[r] EXCEPT !.pc = "probe", !.found = i, !.late = late])
      <3>1. late \in BOOLEAN
        BY AgesAreNumbers DEF IntentsInv
      <3> HIDE DEF late
      <3> QED
        BY <3>1 DEF GoesOn, RequestStates, Putting
    <2>2. req' = [req EXCEPT ![r] =
                   [req[r] EXCEPT !.pc = "probe", !.found = i, !.late = late]]
      BY <1>2 DEF Measured
    <2> HIDE DEF late
    <2> QED
      BY <2>1, <2>2, RequestKeeps
  <1>3. ASSUME NEW i \in Requests \cup {NoId},
               req' = [req EXCEPT ![r].pc = "done", ![r].found = i, ![r].out = "registered"]
        PROVE  IntentsInv'
    <2>1. GoesOn(req[r], [req[r] EXCEPT !.pc = "done", !.found = i, !.out = "registered"])
      BY DEF GoesOn, RequestStates, Putting
    <2>2. req' = [req EXCEPT ![r] =
                   [req[r] EXCEPT !.pc = "done", !.found = i, !.out = "registered"]]
      BY <1>3
    <2> QED
      BY <2>1, <2>2, RequestKeeps
  <1> QED
    BY <1>1, <1>2, <1>3

\* find() reads the intent the binding named.
LEMMA ReadIntentKeeps ==
  ASSUME IntentsInv, NEW r \in Requests, ReadIntent(r)
  PROVE  IntentsInv'
  <1>0. req[r].pc = "intent" /\ UNCHANGED <<backend, bind, intent, window, settled>>
        /\ req[r] \in RequestStates /\ req[r].found \in Requests \cup {NoId}
    BY DEF ReadIntent, IntentsInv, IntentsTypeOK, RequestStates
  <1>1. CASE req' = Answer(r, "registered") \/ req' = Answer(r, "no_intent")
    BY <1>0, <1>1, AnsweredKeeps
  <1>2. CASE Readable(req[r].found, req[r].deposit) /\ req' = Measured(r, req[r].found)
    BY <1>0, <1>2, AnsweredKeeps DEF Readable
  <1>3. CASE req[r].kind = "initiate" /\ req' = Stage(r, "store")
    <2>1. GoesOn(req[r], [req[r] EXCEPT !.pc = "store"])
      BY <1>0, <1>3 DEF GoesOn, RequestStates, Putting
    <2> QED
      BY <1>0, <1>3, <2>1, RequestKeeps DEF Stage
  <1> QED
    BY <1>1, <1>2, <1>3 DEF ReadIntent

\* An intent stored, by its own request, which is over.
LEMMA StoredKeeps ==
  ASSUME IntentsInv, NEW r \in Requests, req[r].pc \in {"claim", "store"},
         intent' = [intent EXCEPT ![r].st = "stored"],
         req' = [req EXCEPT ![r].pc = "done", ![r].found = r, ![r].out = "registered"],
         UNCHANGED <<backend, window, settled>>
  PROVE  /\ intent' \in [Requests -> IntentStates] /\ req' \in [Requests -> RequestStates]
         /\ \A q \in Requests \ {r} : req'[q] = req[q] /\ intent'[q] = intent[q]
         /\ req'[r].pc = "done" /\ req'[r].kind = req[r].kind
         /\ req'[r].deposit = req[r].deposit /\ req'[r].found = r
         /\ intent'[r].st = "stored" /\ intent'[r].age = intent[r].age
         /\ intent'[r].deposit = intent[r].deposit
         /\ RequestsNamed' /\ OwnIntent'
  <1> USE DEF IntentsInv, IntentsTypeOK
  <1>1. /\ intent' \in [Requests -> IntentStates]
        /\ \A q \in Requests \ {r} : intent'[q] = intent[q]
        /\ intent'[r].st = "stored" /\ intent'[r].age = intent[r].age
        /\ intent'[r].deposit = intent[r].deposit
    BY DEF IntentStates
  <1>2. /\ req' \in [Requests -> RequestStates]
        /\ \A q \in Requests \ {r} : req'[q] = req[q]
        /\ req'[r].pc = "done" /\ req'[r].kind = req[r].kind
        /\ req'[r].deposit = req[r].deposit /\ req'[r].found = r
    <2> DEFINE W(v) == [v EXCEPT !.pc = "done", !.found = r, !.out = "registered"]
    <2>1. ASSUME NEW v \in RequestStates
          PROVE  /\ W(v) \in RequestStates /\ W(v).pc = "done" /\ W(v).found = r
                 /\ W(v).kind = v.kind /\ W(v).deposit = v.deposit
      <3>1. W(v) \in RequestStates
        BY DEF RequestStates
      <3>2. /\ W(v).pc = "done" /\ W(v).found = r
            /\ W(v).kind = v.kind /\ W(v).deposit = v.deposit
        BY DEF RequestStates
      <3> QED
        BY <3>1, <3>2
    <2>2. req' = [req EXCEPT ![r] = W(req[r])] /\ req[r] \in RequestStates
      OBVIOUS
    <2> HIDE DEF W
    <2> QED
      BY <2>1, <2>2, RequestPut
  <1>3. RequestsNamed'
    BY <1>2 DEF RequestsNamed
  <1>4. OwnIntent'
    BY <1>1, <1>2 DEF OwnIntent, Putting
  <1> QED
    BY <1>1, <1>2, <1>3, <1>4

\* An initiation stores its intent.
LEMMA StoreKeeps ==
  ASSUME IntentsInv, NEW r \in Requests, Store(r)
  PROVE  IntentsInv'
  <1>1. /\ req[r].pc = "store" /\ UNCHANGED <<backend, bind, window, settled>>
        /\ intent' = [intent EXCEPT ![r].st = "stored"]
        /\ req' = [req EXCEPT ![r].pc = "done", ![r].found = r, ![r].out = "registered"]
    BY DEF Store
  <1>2. /\ intent' \in [Requests -> IntentStates] /\ req' \in [Requests -> RequestStates]
        /\ \A q \in Requests \ {r} : req'[q] = req[q] /\ intent'[q] = intent[q]
        /\ req'[r].pc = "done" /\ intent'[r].age = intent[r].age
        /\ RequestsNamed' /\ OwnIntent'
    BY <1>1, StoredKeeps
  <1>3. intent[r].st = "built"
    BY <1>1 DEF IntentsInv, OwnIntent, Putting
  <1>4. BindingsLast'
    <2>1. \A d \in Deposits : bind[d].id # NoId => bind[d].id \in Requests
      BY DEF IntentsInv, IntentsTypeOK
    <2> QED
      BY <1>1, <1>2, <1>3, <2>1 DEF IntentsInv, BindingsLast
  <1> QED
    BY <1>1, <1>2, <1>4 DEF IntentsInv, IntentsTypeOK

\* put() in memory claims and stores at once.
LEMMA PutInMemoryKeeps ==
  ASSUME IntentsInv, NEW r \in Requests, PutInMemory(r)
  PROVE  IntentsInv'
  <1> DEFINE d == req[r].deposit
  <1>0. req[r].pc = "claim" /\ UNCHANGED <<backend, window, settled>> /\ d \in Deposits
    BY DEF PutInMemory, IntentsInv, RequestsNamed
  <1>1. CASE /\ req' = [req EXCEPT ![r].pc = "done", ![r].found = Bound(d),
                                   ![r].out = "registered"]
             /\ UNCHANGED <<bind, intent>>
    <2>1. Bound(d) \in Requests \cup {NoId}
      BY <1>0 DEF Bound, IntentsInv, IntentsTypeOK
    <2> QED
      BY <1>0, <1>1, <2>1, AnsweredKeeps
  <1>2. CASE /\ bind' = [bind EXCEPT ![d] = [id |-> r, left |-> Lifetime]]
             /\ intent' = [intent EXCEPT ![r].st = "stored"]
             /\ req' = [req EXCEPT ![r].pc = "done", ![r].found = r, ![r].out = "registered"]
    <2>1. /\ intent' \in [Requests -> IntentStates] /\ req' \in [Requests -> RequestStates]
          /\ \A q \in Requests \ {r} : req'[q] = req[q] /\ intent'[q] = intent[q]
          /\ req'[r].pc = "done" /\ intent'[r].age = intent[r].age
          /\ RequestsNamed' /\ OwnIntent'
      BY <1>0, <1>2, StoredKeeps
    <2>2. intent[r].st = "built"
      BY <1>0 DEF IntentsInv, OwnIntent, Putting
    <2>3. \A q \in Requests :
            /\ req[q].pc \notin {"idle", "expire"} => req'[q].pc \notin {"idle", "expire"}
            /\ intent'[q].age = intent[q].age
            /\ intent'[q].st # "none" => intent[q].st # "none"
      BY <2>1, <2>2
    <2>4. /\ BindingsLast'
          /\ bind' \in [Deposits -> [id : Requests \cup {NoId}, left : 0..Lifetime]]
      BY <1>0, <1>2, <2>1, <2>3, ClaimedKeeps
    <2> QED
      BY <1>0, <2>1, <2>4 DEF IntentsInv, IntentsTypeOK
  <1> QED
    BY <1>1, <1>2 DEF PutInMemory

\* The steps of a status request outside Redis' intent keys.
LEMMA StatusKeeps ==
  ASSUME IntentsInv, NEW r \in Requests, FindInMemory(r) \/ ReadRecord(r) \/ Probe(r)
  PROVE  IntentsInv'
  <1>0. req[r] \in RequestStates /\ UNCHANGED <<backend, bind, intent, window, settled>>
        /\ req[r].pc \in {"binding", "record", "probe"} /\ req[r].deposit \in Deposits
    BY DEF FindInMemory, ReadRecord, Probe, IntentsInv, IntentsTypeOK, RequestsNamed
  <1>1. CASE FindInMemory(r)
    <2>1. Bound(req[r].deposit) \in Requests \cup {NoId}
      BY <1>0 DEF Bound, IntentsInv, IntentsTypeOK
    <2>2. CASE Bound(req[r].deposit) # NoId /\ req' = Measured(r, Bound(req[r].deposit))
      BY <1>0, <2>1, <2>2, AnsweredKeeps
    <2>3. CASE req' = Answer(r, "no_intent")
      BY <1>0, <2>3, AnsweredKeeps
    <2> QED
      BY <1>1, <2>2, <2>3 DEF FindInMemory
  <1>2. CASE ReadRecord(r) /\ req' = Answer(r, "settled")
    BY <1>0, <1>2, AnsweredKeeps
  <1>3. CASE ReadRecord(r) /\ req' = Stage(r, "binding")
    <2>1. req[r].kind # "initiate"
      BY <1>3 DEF ReadRecord, IntentsInv, OwnIntent
    <2>2. GoesOn(req[r], [req[r] EXCEPT !.pc = "binding"])
      BY <1>0, <2>1 DEF GoesOn, RequestStates, Putting
    <2> QED
      BY <1>0, <1>3, <2>2, RequestKeeps DEF Stage
  <1>4. CASE Probe(r)
    BY <1>0, <1>4, AnsweredKeeps DEF Probe
  <1> QED
    BY <1>1, <1>2, <1>3, <1>4 DEF ReadRecord

\* An invocation that fails takes the intent it had only built with it.
LEMMA AbortKeeps ==
  ASSUME IntentsInv, NEW r \in Requests, Abort(r)
  PROVE  IntentsInv'
  <1> USE DEF IntentsInv, IntentsTypeOK
  <1>a. PICK out \in {"aborted", "unexpired"} : req' = Answer(r, out)
    BY DEF Abort
  <1> DEFINE W(v) == [v EXCEPT !.pc = "done", !.out = out]
  <1>0. /\ req[r].pc \notin {"idle", "done"} /\ UNCHANGED <<backend, bind, window, settled>>
        /\ req' = [req EXCEPT ![r] = W(req[r])]
    BY <1>a DEF Abort, Live, Answer
  <1>1. ASSUME NEW v \in RequestStates
        PROVE  /\ W(v) \in RequestStates /\ W(v).pc = "done"
               /\ W(v).kind = v.kind /\ W(v).deposit = v.deposit
    <2>1. W(v) \in RequestStates
      BY DEF RequestStates
    <2>2. W(v).pc = "done" /\ W(v).kind = v.kind /\ W(v).deposit = v.deposit
      BY DEF RequestStates
    <2> QED
      BY <2>1, <2>2
  <1> HIDE DEF W
  <1>2. /\ req' \in [Requests -> RequestStates]
        /\ \A q \in Requests \ {r} : req'[q] = req[q]
        /\ req'[r].pc = "done" /\ req'[r].kind = req[r].kind
        /\ req'[r].deposit = req[r].deposit
    BY <1>0, <1>1
  <1>3. NoIntent \in IntentStates /\ NoIntent.st = "none"
    BY IntentsAssumption DEF NoIntent, IntentStates
  <1>4. /\ intent' \in [Requests -> IntentStates]
        /\ \A q \in Requests \ {r} : intent'[q] = intent[q]
        /\ intent'[r] = intent[r] \/ intent'[r].st = "none"
    BY <1>3 DEF Abort
  <1>5. IntentsTypeOK'
    BY <1>0, <1>2, <1>4
  <1>6. RequestsNamed'
    BY <1>0, <1>2 DEF RequestsNamed
  <1>7. OwnIntent'
    BY <1>2, <1>4 DEF OwnIntent, Putting
  <1>8. BindingsLast'
    <2>1. \A d \in Deposits : bind[d].id # NoId => bind[d].id \in Requests
      OBVIOUS
    <2> QED
      BY <1>0, <1>2, <1>4, <2>1 DEF BindingsLast
  <1> QED
    BY <1>5, <1>6, <1>7, <1>8

\* A restart of the local server forgets everything but what clients were told.
LEMMA RestartKeeps ==
  ASSUME IntentsInv, Restart
  PROVE  IntentsInv'
  <1> USE DEF IntentsInv, IntentsTypeOK
  <1> DEFINE W(v) == [v EXCEPT !.pc = "done", !.out = "aborted"]
  <1>1. ASSUME NEW v \in RequestStates
        PROVE  /\ W(v) \in RequestStates /\ W(v).pc = "done"
               /\ W(v).kind = v.kind /\ W(v).deposit = v.deposit
    <2>1. W(v) \in RequestStates
      BY DEF RequestStates
    <2>2. W(v).pc = "done" /\ W(v).kind = v.kind /\ W(v).deposit = v.deposit
      BY DEF RequestStates
    <2> QED
      BY <2>1, <2>2
  <1>0. req' = [q \in Requests |-> IF Live(q) THEN W(req[q]) ELSE req[q]]
    BY DEF Restart
  <1> HIDE DEF W
  <1>2. /\ req' \in [Requests -> RequestStates]
        /\ \A q \in Requests : /\ req'[q].pc \in {"idle", "done"}
                               /\ req'[q].pc # "idle" => req[q].pc # "idle"
                               /\ req'[q].kind = req[q].kind
                               /\ req'[q].deposit = req[q].deposit
    BY <1>0, <1>1 DEF Live
  <1>3. /\ NoIntent \in IntentStates
        /\ Unbound \in [id : Requests \cup {NoId}, left : 0..Lifetime] /\ Unbound.id = NoId
        /\ Closed \in [count : Nat, left : 0..Window]
    BY IntentsAssumption DEF NoIntent, IntentStates, Unbound, Closed
  <1>4. IntentsTypeOK'
    BY <1>2, <1>3 DEF Restart
  <1>5. RequestsNamed'
    BY <1>2 DEF RequestsNamed
  <1>6. OwnIntent'
    BY <1>2 DEF OwnIntent, Putting
  <1>7. BindingsLast'
    BY <1>3 DEF Restart, BindingsLast
  <1> QED
    BY <1>4, <1>5, <1>6, <1>7

\* What a tick makes of a binding, of an intent and of a window.
LEMMA Ticked ==
  /\ \A b \in [id : Requests \cup {NoId}, left : 0..Lifetime] :
       /\ Aged(b) \in [id : Requests \cup {NoId}, left : 0..Lifetime]
       /\ Aged(b).id # NoId => Aged(b).id = b.id /\ Aged(b).left + 1 = b.left
       /\ b.left > 1 => Aged(b).id = b.id
  /\ \A i \in IntentStates :
       /\ Older(i) \in IntentStates
       /\ Older(i).st = i.st /\ Older(i).deposit = i.deposit
       /\ i.st # "none" => Older(i).age = i.age + 1 \/ (i.age = Lifetime /\ Older(i).age = i.age)
  /\ \A w \in [count : Nat, left : 0..Window] :
       Elapsed(w) \in [count : Nat, left : 0..Window]
  <1>1. ASSUME NEW b \in [id : Requests \cup {NoId}, left : 0..Lifetime]
        PROVE  /\ Aged(b) \in [id : Requests \cup {NoId}, left : 0..Lifetime]
               /\ Aged(b).id # NoId => Aged(b).id = b.id /\ Aged(b).left + 1 = b.left
               /\ b.left > 1 => Aged(b).id = b.id
    <2>1. CASE b.left <= 1
      <3>1. Aged(b) = Unbound
        BY <2>1 DEF Aged
      <3>2. Unbound \in [id : Requests \cup {NoId}, left : 0..Lifetime] /\ Unbound.id = NoId
        BY IntentsAssumption DEF Unbound
      <3> QED
        BY <2>1, <3>1, <3>2, IntentsAssumption
    <2>2. CASE ~ b.left <= 1
      <3>1. Aged(b) = [b EXCEPT !.left = b.left - 1]
        BY <2>2 DEF Aged
      <3>2. b.left - 1 \in 0..Lifetime /\ b.left \in Nat
        BY <2>2, IntentsAssumption
      <3> QED
        BY <3>1, <3>2
    <2> QED
      BY <2>1, <2>2
  <1>2. ASSUME NEW i \in IntentStates
        PROVE  /\ Older(i) \in IntentStates
               /\ Older(i).st = i.st /\ Older(i).deposit = i.deposit
               /\ i.st # "none" =>
                    Older(i).age = i.age + 1 \/ (i.age = Lifetime /\ Older(i).age = i.age)
    BY IntentsAssumption DEF Older, IntentStates
  <1>3. ASSUME NEW w \in [count : Nat, left : 0..Window]
        PROVE  Elapsed(w) \in [count : Nat, left : 0..Window]
    BY IntentsAssumption DEF Elapsed, Closed
  <1> QED
    BY <1>1, <1>2, <1>3

\* Time ages a binding and its intent together.
LEMMA TickKeeps ==
  ASSUME IntentsInv, Tick
  PROVE  IntentsInv'
  <1> USE DEF IntentsInv, IntentsTypeOK
  <1>1. IntentsTypeOK'
    BY Ticked DEF Tick
  <1>2. RequestsNamed'
    BY DEF Tick, RequestsNamed
  <1>3. OwnIntent'
    BY Ticked DEF Tick, OwnIntent
  <1>4. ASSUME NEW d \in Deposits, bind'[d].id # NoId
        PROVE  /\ req'[bind'[d].id].pc \notin {"idle", "expire"}
               /\ intent'[bind'[d].id].st # "none" =>
                    intent'[bind'[d].id].age + bind'[d].left >= Lifetime
    <2> DEFINE i == bind[d].id
    <2>1. bind'[d].id = i /\ bind'[d].left + 1 = bind[d].left /\ i # NoId
      BY <1>4, Ticked DEF Tick
    <2>2. i \in Requests /\ bind[d].left \in Nat /\ bind'[d].left \in Nat
      BY <1>1, <2>1
    <2>3. req'[i] = req[i]
      BY DEF Tick
    <2>4. /\ intent[i].st # "none" => intent[i].age + bind[d].left >= Lifetime
          /\ req[i].pc \notin {"idle", "expire"}
      BY <2>1 DEF BindingsLast
    <2>5. /\ intent'[i].st = intent[i].st
          /\ intent[i].st # "none" => \/ intent'[i].age = intent[i].age + 1
                                      \/ intent[i].age = Lifetime /\ intent'[i].age = Lifetime
          /\ intent[i].age \in Nat
      <3>1. intent[i] \in IntentStates /\ intent'[i] = Older(intent[i])
        BY <2>2 DEF Tick
      <3>2. intent[i].age \in Nat
        BY <3>1, IntentsAssumption DEF IntentStates
      <3> QED
        BY <3>1, <3>2, Ticked
    <2> HIDE DEF i
    <2> QED
      BY <2>1, <2>2, <2>3, <2>4, <2>5, IntentsAssumption
  <1>5. BindingsLast'
    BY <1>4 DEF BindingsLast
  <1> QED
    BY <1>1, <1>2, <1>3, <1>5

\* A settle request elsewhere writes the record only.
LEMMA SettlesKeeps ==
  ASSUME IntentsInv, NEW d \in Deposits, Settles(d)
  PROVE  IntentsInv'
  <1> USE DEF IntentsInv, IntentsTypeOK, Settles
  <1>1. IntentsTypeOK'
    OBVIOUS
  <1>2. RequestsNamed' /\ OwnIntent' /\ BindingsLast'
    BY DEF RequestsNamed, OwnIntent, BindingsLast
  <1> QED
    BY <1>1, <1>2

\* The stores are empty and nobody has asked for anything.
LEMMA IntentsInitInv ==
  ASSUME IntentsInit
  PROVE  IntentsInv
  <1> USE DEF IntentsInit
  <1>1. /\ NoIntent \in IntentStates
        /\ Unbound \in [id : Requests \cup {NoId}, left : 0..Lifetime] /\ Unbound.id = NoId
        /\ Closed \in [count : Nat, left : 0..Window]
        /\ NewRequest \in RequestStates /\ NewRequest.pc = "idle"
    BY IntentsAssumption
    DEF NoIntent, IntentStates, Unbound, Closed, NewRequest, RequestStates
  <1>2. IntentsTypeOK
    BY <1>1 DEF IntentsTypeOK
  <1>3. RequestsNamed /\ BindingsLast
    BY <1>1 DEF RequestsNamed, BindingsLast
  <1>4. OwnIntent
    BY <1>1 DEF OwnIntent, Putting
  <1> QED
    BY <1>2, <1>3, <1>4 DEF IntentsInv

\* Every step keeps the invariant.
LEMMA IntentsNextInv ==
  ASSUME IntentsInv, [IntentsNext]_intentsVars
  PROVE  IntentsInv'
  <1>1. ASSUME NEW r \in Requests, NEW kind \in Kinds, NEW d \in Deposits,
               NEW mode \in ModeNames, HitRedis(r, kind, d, mode) \/ HitMemory(r, kind, d, mode)
        PROVE  IntentsInv'
    BY <1>1, HitsKeep
  <1>2. ASSUME NEW r \in Requests, ServeStep(r)
        PROVE  IntentsInv'
    BY <1>2, SetExpiryKeeps, ClaimKeeps, ReadBindingKeeps, ReadIntentKeeps, StoreKeeps,
       PutInMemoryKeeps, StatusKeeps DEF ServeStep
  <1>3. ASSUME NEW r \in Requests, Abort(r)
        PROVE  IntentsInv'
    BY <1>3, AbortKeeps
  <1>4. CASE Restart
    BY <1>4, RestartKeeps
  <1>5. ASSUME NEW d \in Deposits, Settles(d)
        PROVE  IntentsInv'
    BY <1>5, SettlesKeeps
  <1>6. CASE Tick
    BY <1>6, TickKeeps
  <1>7. CASE UNCHANGED intentsVars
    <2> USE DEF IntentsInv, IntentsTypeOK, intentsVars
    <2>1. IntentsTypeOK'
      BY <1>7
    <2>2. RequestsNamed' /\ OwnIntent' /\ BindingsLast'
      BY <1>7 DEF RequestsNamed, OwnIntent, BindingsLast
    <2> QED
      BY <2>1, <2>2
  <1> QED
    BY <1>1, <1>2, <1>3, <1>4, <1>5, <1>6, <1>7 DEF IntentsNext
-----------------------------------------------------------------------------
(***************************************************************************)
(* The theorems.                                                           *)
(***************************************************************************)
\* Intents, windows and requests keep their types; an initiation in put() holds the intent it
\* built; and a binding's intent is over when the binding ends (put, find, parse of kv.ts).
THEOREM IntentsInvCorrect == IntentsSpec => []IntentsInv
  <1>1. IntentsInit => IntentsInv
    BY IntentsInitInv
  <1>2. IntentsInv /\ [IntentsNext]_intentsVars => IntentsInv'
    BY IntentsNextInv
  <1> QED
    BY <1>1, <1>2, PTL DEF IntentsSpec

\* The type invariant of the runs.
THEOREM IntentsTypeCorrect == IntentsSpec => []IntentsTypeOK
  <1>1. IntentsInv => IntentsTypeOK
    BY DEF IntentsInv
  <1> QED
    BY <1>1, IntentsInvCorrect, PTL

\* A hit that goes on leaves bindings alone.
LEMMA HitsBindNothing ==
  ASSUME NEW r \in Requests, NEW kind \in Kinds, NEW d \in Deposits, NEW mode \in ModeNames,
         HitRedis(r, kind, d, mode) \/ HitMemory(r, kind, d, mode)
  PROVE  UNCHANGED bind
  BY DEF HitRedis, HitMemory

\* The binding of a deposit whose intent can be read, before and after the step, stays.
LEMMA BindingsStay ==
  ASSUME IntentsInv, [IntentsNext]_intentsVars, NEW d \in Deposits, NEW i \in Requests,
         Bound(d) = i, Readable(i, d)'
  PROVE  bind'[d].id = i
  <1> USE DEF IntentsInv, IntentsTypeOK
  <1>0. bind[d].id = i /\ Readable(i, d) /\ i # NoId
    BY IntentsAssumption DEF Bound
  <1>1. CASE UNCHANGED bind
    BY <1>0, <1>1
  <1>2. ASSUME NEW r \in Requests, Claim(r)
        PROVE  bind'[d].id = i
    <2>1. CASE bind[req[r].deposit] = Unbound
      <3>1. req[r].deposit # d
        BY <1>0, <2>1 DEF Unbound
      <3>2. bind' = [bind EXCEPT ![req[r].deposit] = [id |-> r, left |-> Lifetime]]
        BY <1>2, <2>1 DEF Claim
      <3> QED
        BY <1>0, <3>1, <3>2
    <2>2. CASE bind[req[r].deposit] # Unbound
      BY <1>1, <1>2, <2>2 DEF Claim
    <2> QED
      BY <2>1, <2>2
  <1>3. ASSUME NEW r \in Requests, PutInMemory(r)
        PROVE  bind'[d].id = i
    <2>1. CASE Bound(req[r].deposit) # NoId
      BY <1>1, <1>3, <2>1 DEF PutInMemory
    <2>2. CASE Bound(req[r].deposit) = NoId
      <3>1. req[r].deposit # d
        BY <1>0, <2>2
      <3>2. bind' = [bind EXCEPT ![req[r].deposit] = [id |-> r, left |-> Lifetime]]
        BY <1>3, <2>2 DEF PutInMemory
      <3> QED
        BY <1>0, <3>1, <3>2
    <2> QED
      BY <2>1, <2>2
  <1>4. CASE Restart
    <2>1. intent'[i].st = "none"
      BY <1>4 DEF Restart, NoIntent
    <2> QED
      BY <2>1 DEF Readable
  <1>5. CASE Tick
    <2>1. /\ intent[i] \in IntentStates /\ intent'[i] = Older(intent[i])
          /\ bind'[d] = Aged(bind[d])
          /\ bind[d] \in [id : Requests \cup {NoId}, left : 0..Lifetime]
      BY <1>5 DEF Tick
    <2>2. /\ intent[i].age \in Nat /\ intent[i].st = "stored" /\ intent[i].age < Lifetime
          /\ intent'[i].age < Lifetime
      BY <1>0, <2>1, IntentsAssumption DEF Readable, IntentStates
    <2>3. intent'[i].age = intent[i].age + 1
      BY <2>1, <2>2, Ticked, IntentsAssumption
    <2>4. intent[i].age + bind[d].left >= Lifetime
      BY <1>0, <2>2 DEF BindingsLast
    <2>5. bind[d].left > 1
      <3>1. bind[d].left \in Nat
        BY <2>1
      <3> QED
        BY <2>2, <2>3, <2>4, <3>1, IntentsAssumption
    <2> QED
      BY <1>0, <2>1, <2>5, Ticked
  <1>6. ASSUME NEW r \in Requests, ServeStep(r)
        PROVE  bind'[d].id = i
    <2>1. CASE Claim(r) \/ PutInMemory(r)
      BY <1>2, <1>3, <2>1
    <2>2. CASE \/ \E mode \in ModeNames : SetExpiry(r, mode)
               \/ ReadBinding(r) \/ ReadIntent(r) \/ Store(r)
               \/ FindInMemory(r) \/ ReadRecord(r) \/ Probe(r)
      BY <1>1, <2>2 DEF SetExpiry, ReadBinding, ReadIntent, Store, FindInMemory, ReadRecord, Probe
    <2> QED
      BY <1>6, <2>1, <2>2 DEF ServeStep
  <1>7. ASSUME NEW r \in Requests, Abort(r)
        PROVE  bind'[d].id = i
    BY <1>1, <1>7 DEF Abort
  <1>8. ASSUME NEW e \in Deposits, Settles(e)
        PROVE  bind'[d].id = i
    BY <1>1, <1>8 DEF Settles
  <1>9. CASE UNCHANGED intentsVars
    BY <1>1, <1>9 DEF intentsVars
  <1> QED
    BY <1>1, <1>4, <1>5, <1>6, <1>7, <1>8, <1>9, HitsBindNothing DEF IntentsNext

\* First-claimer wins, for any number of initiations and whatever fails (kv.ts, put and find).
THEOREM FirstClaimHolds == IntentsSpec => FirstClaimWins
  <1>1. IntentsInv /\ [IntentsNext]_intentsVars =>
          [\A d \in Deposits, i \in Requests :
             Bound(d) = i /\ Readable(i, d)' => Bound(d)' = i]_intentsVars
    <2> SUFFICES ASSUME IntentsInv, [IntentsNext]_intentsVars,
                        NEW d \in Deposits, NEW i \in Requests, Bound(d) = i, Readable(i, d)'
                 PROVE  Bound(d)' = i
      OBVIOUS
    <2>1. bind'[d].id = i
      BY BindingsStay
    <2> QED
      BY <2>1 DEF Bound
  <1> QED
    BY <1>1, IntentsInvCorrect, PTL DEF IntentsSpec, FirstClaimWins

\* The answer a step of request r leaves it with.
LEMMA AnswersGiven ==
  ASSUME IntentsTypeOK, NEW r \in Requests
  PROVE  /\ \A pc : req' = Stage(r, pc) => req'[r].out = req[r].out
         /\ \A out : req' = Answer(r, out) => req'[r].out = out
         /\ \A i : req' = Measured(r, i) => req'[r].out = req[r].out
         /\ \A i : req' = [req EXCEPT ![r].pc = "intent", ![r].found = i] =>
                     req'[r].out = req[r].out
  <1> USE DEF IntentsTypeOK
  <1>0. \A v \in RequestStates : \A pc, i, b, out :
          /\ [v EXCEPT !.pc = pc].out = v.out
          /\ [v EXCEPT !.pc = pc, !.out = out].out = out
          /\ [v EXCEPT !.pc = pc, !.found = i, !.late = b].out = v.out
          /\ [v EXCEPT !.pc = pc, !.found = i].out = v.out
    BY DEF RequestStates
  <1>1. req[r] \in RequestStates
    OBVIOUS
  <1>2. ASSUME NEW pc, req' = Stage(r, pc)
        PROVE  req'[r].out = req[r].out
    <2>1. req'[r] = [req[r] EXCEPT !.pc = pc]
      BY <1>2 DEF Stage
    <2> QED
      BY <1>0, <1>1, <2>1
  <1>3. ASSUME NEW out, req' = Answer(r, out)
        PROVE  req'[r].out = out
    <2>1. req'[r] = [req[r] EXCEPT !.pc = "done", !.out = out]
      BY <1>3 DEF Answer
    <2> QED
      BY <1>0, <1>1, <2>1
  <1>4. ASSUME NEW i, req' = Measured(r, i)
        PROVE  req'[r].out = req[r].out
    <2> DEFINE late == intent[i].age > FastWindow
    <2>1. req'[r] = [req[r] EXCEPT !.pc = "probe", !.found = i, !.late = late]
      BY <1>4 DEF Measured
    <2> HIDE DEF late
    <2> QED
      BY <1>0, <1>1, <2>1
  <1>5. ASSUME NEW i, req' = [req EXCEPT ![r].pc = "intent", ![r].found = i]
        PROVE  req'[r].out = req[r].out
    <2>1. req'[r] = [req[r] EXCEPT !.pc = "intent", !.found = i]
      BY <1>5
    <2> QED
      BY <1>0, <1>1, <2>1
  <1> QED
    BY <1>2, <1>3, <1>4, <1>5

\* A step of request q leaves the others as they are.
LEMMA OthersUntouched ==
  ASSUME IntentsTypeOK, NEW q \in Requests, NEW r \in Requests, q # r,
         \/ ServeStep(q) \/ Abort(q)
         \/ \E kind \in Kinds, d \in Deposits, mode \in ModeNames :
              HitRedis(q, kind, d, mode) \/ HitMemory(q, kind, d, mode)
  PROVE  req'[r] = req[r]
  <1> USE DEF IntentsTypeOK
  <1>1. ASSUME NEW new, NEW n, NEW mode, Goes(q, new, n, mode)
        PROVE  req'[r] = req[r]
    <2>1. \E w : req' = [req EXCEPT ![q] = w]
      BY <1>1, Zenon DEF Goes
    <2> QED
      BY <2>1
  <1>2. ASSUME NEW kind \in Kinds, NEW d \in Deposits, NEW mode \in ModeNames,
               HitRedis(q, kind, d, mode) \/ HitMemory(q, kind, d, mode)
        PROVE  req'[r] = req[r]
    <2> DEFINE new == [NewRequest EXCEPT !.kind = kind, !.deposit = d]
               n == window[kind].count + 1
    <2>1. Goes(q, new, n, mode) \/ req' = [req EXCEPT ![q] = [new EXCEPT !.pc = "expire"]]
      BY <1>2 DEF HitRedis, HitMemory
    <2> HIDE DEF new, n
    <2> QED
      BY <1>1, <2>1
  <1>3. ASSUME NEW mode \in ModeNames, SetExpiry(q, mode)
        PROVE  req'[r] = req[r]
    BY <1>1, <1>3 DEF SetExpiry
  <1>4. CASE \/ Claim(q) \/ ReadBinding(q) \/ ReadIntent(q) \/ Store(q) \/ PutInMemory(q)
             \/ FindInMemory(q) \/ ReadRecord(q) \/ Probe(q) \/ Abort(q)
    <2>1. ASSUME NEW w, req' = [req EXCEPT ![q] = w]
          PROVE  req'[r] = req[r]
      BY <2>1
    <2>2. \E w : req' = [req EXCEPT ![q] = w]
      BY <1>4, ZenonT(30) DEF Claim, ReadBinding, ReadIntent, Store, PutInMemory, FindInMemory,
         ReadRecord, Probe, Abort, Stage, Answer, Measured
    <2> QED
      BY <2>1, <2>2
  <1> QED
    BY <1>2, <1>3, <1>4 DEF ServeStep

\* An initiation is registered by the steps of put() that end it, and by no other.
LEMMA RegisteredByPut ==
  ASSUME IntentsInv, [IntentsNext]_intentsVars, NEW r \in Requests,
         req[r].out # "registered", req'[r].out = "registered"
  PROVE  ReadIntent(r) \/ Store(r) \/ PutInMemory(r)
  <1> USE DEF IntentsInv
  <1>0. req'[r] # req[r] /\ req[r] \in RequestStates
    BY DEF IntentsTypeOK
  <1>1. ASSUME NEW kind \in Kinds, NEW d \in Deposits, NEW mode \in ModeNames,
               HitRedis(r, kind, d, mode) \/ HitMemory(r, kind, d, mode)
        PROVE  FALSE
    <2> DEFINE new == [NewRequest EXCEPT !.kind = kind, !.deposit = d]
               n == window[kind].count + 1
    <2>0. n \in Nat
      BY DEF IntentsTypeOK
    <2>1. new \in RequestStates /\ new.kind = kind /\ new.deposit = d /\ new.out = "none"
      BY ZenonT(30), NewRequests
    <2>2. Goes(r, new, n, mode) \/ req' = [req EXCEPT ![r] = [new EXCEPT !.pc = "expire"]]
      BY <1>1 DEF HitRedis, HitMemory
    <2> HIDE DEF new, n
    <2>3. CASE Goes(r, new, n, mode)
      BY <2>0, <2>1, <2>3, GoesMoves
    <2>4. CASE req' = [req EXCEPT ![r] = [new EXCEPT !.pc = "expire"]]
      <3>1. \A v \in RequestStates : [v EXCEPT !.pc = "expire"].out = v.out
        BY DEF RequestStates
      <3>2. req'[r] = [new EXCEPT !.pc = "expire"]
        BY <2>4 DEF IntentsTypeOK
      <3> QED
        BY <2>1, <3>1, <3>2
    <2> QED
      BY <2>2, <2>3, <2>4
  <1>2. ASSUME NEW mode \in ModeNames, SetExpiry(r, mode)
        PROVE  FALSE
    <2>1. /\ req[r].kind \in Kinds /\ req[r].deposit \in Deposits
          /\ Goes(r, req[r], 1, mode)
      BY <1>2 DEF SetExpiry, RequestsNamed
    <2> QED
      BY <1>0, <2>1, GoesMoves
  <1>3. CASE Claim(r) \/ ReadRecord(r)
    BY <1>3, AnswersGiven DEF Claim, ReadRecord
  <1>4. CASE ReadBinding(r) \/ FindInMemory(r)
    BY <1>4, AnswersGiven DEF ReadBinding, FindInMemory
  <1>5. CASE Probe(r) \/ Abort(r)
    BY <1>5, AnswersGiven DEF Probe, Abort
  <1>6. CASE Restart
    <2>1. ~ Live(r) => req'[r] = req[r]
      BY <1>6 DEF Restart
    <2>2. Live(r) => req'[r] = [req[r] EXCEPT !.pc = "done", !.out = "aborted"]
      BY <1>6 DEF Restart
    <2>3. \A v \in RequestStates : [v EXCEPT !.pc = "done", !.out = "aborted"].out = "aborted"
      BY DEF RequestStates
    <2> QED
      BY <1>0, <2>1, <2>2, <2>3
  <1>7. CASE Tick \/ (\E d \in Deposits : Settles(d)) \/ UNCHANGED intentsVars
    BY <1>0, <1>7 DEF Tick, Settles, intentsVars
  <1>8. ASSUME NEW q \in Requests, q # r,
               \/ ServeStep(q) \/ Abort(q)
               \/ \E kind \in Kinds, d \in Deposits, mode \in ModeNames :
                    HitRedis(q, kind, d, mode) \/ HitMemory(q, kind, d, mode)
        PROVE  FALSE
    BY <1>0, <1>8, OthersUntouched
  <1> QED
    BY <1>1, <1>2, <1>3, <1>4, <1>5, <1>6, <1>7, <1>8 DEF IntentsNext, ServeStep

\* An initiation is told of an intent that is in the store and was made for its deposit, on
\* Redis and in memory, whoever won and whatever failed (put() of kv.ts).
THEOREM RegisteredHolds == IntentsSpec => RegisteredIntentsExist
  <1>1. IntentsInv /\ [IntentsNext]_intentsVars =>
          [\A r \in Requests : req[r].out # "registered" /\ req'[r].out = "registered" =>
             LET i == intent'[req'[r].found] IN
             i.st = "stored" /\ i.deposit = req'[r].deposit]_intentsVars
    <2> SUFFICES ASSUME IntentsInv, [IntentsNext]_intentsVars, NEW r \in Requests,
                        req[r].out # "registered", req'[r].out = "registered"
                 PROVE  /\ intent'[req'[r].found].st = "stored"
                        /\ intent'[req'[r].found].deposit = req'[r].deposit
      OBVIOUS
    <2>0. req[r] \in RequestStates
      BY DEF IntentsInv, IntentsTypeOK
    <2>1. CASE ReadIntent(r)
      <3>1. req' = Answer(r, "registered") /\ Readable(req[r].found, req[r].deposit)
        BY <2>1, AnswersGiven DEF IntentsInv, ReadIntent
      <3>2. req'[r] = [req[r] EXCEPT !.pc = "done", !.out = "registered"]
        BY <3>1 DEF Answer, IntentsInv, IntentsTypeOK
      <3>3. req'[r].found = req[r].found /\ req'[r].deposit = req[r].deposit
        <4>1. \A v \in RequestStates :
                LET w == [v EXCEPT !.pc = "done", !.out = "registered"] IN
                w.found = v.found /\ w.deposit = v.deposit
          BY DEF RequestStates
        <4> QED
          BY <2>0, <3>2, <4>1
      <3>4. UNCHANGED intent
        BY <2>1 DEF ReadIntent
      <3> QED
        BY <3>1, <3>3, <3>4 DEF Readable
    <2>2. ASSUME req[r].pc \in {"claim", "store"}, req[r].kind = "initiate",
                 intent' = [intent EXCEPT ![r].st = "stored"],
                 req' = [req EXCEPT ![r].pc = "done", ![r].found = r, ![r].out = "registered"],
                 UNCHANGED <<backend, window, settled>>
          PROVE  /\ intent'[req'[r].found].st = "stored"
                 /\ intent'[req'[r].found].deposit = req'[r].deposit
      <3>1. /\ req'[r].found = r /\ req'[r].deposit = req[r].deposit
            /\ intent'[r].st = "stored" /\ intent'[r].deposit = intent[r].deposit
        BY <2>2, StoredKeeps
      <3>2. intent[r].deposit = req[r].deposit
        BY <2>2 DEF IntentsInv, OwnIntent, Putting
      <3> QED
        BY <3>1, <3>2
    <2>3. CASE Store(r)
      BY <2>2, <2>3 DEF Store, IntentsInv, OwnIntent
    <2>4. CASE PutInMemory(r) /\ Bound(req[r].deposit) = NoId
      BY <2>2, <2>4 DEF PutInMemory, IntentsInv, OwnIntent
    <2>5. CASE PutInMemory(r) /\ Bound(req[r].deposit) # NoId
      <3> DEFINE b == Bound(req[r].deposit)
      <3>1. UNCHANGED intent /\ Readable(b, req[r].deposit)
        BY <2>5 DEF PutInMemory, Bound
      <3>2. req' = [req EXCEPT ![r].pc = "done", ![r].found = b, ![r].out = "registered"]
        BY <2>5 DEF PutInMemory
      <3> HIDE DEF b
      <3>3. req'[r] = [req[r] EXCEPT !.pc = "done", !.found = b, !.out = "registered"]
        BY <3>2 DEF IntentsInv, IntentsTypeOK
      <3>4. req'[r].found = b /\ req'[r].deposit = req[r].deposit
        <4>1. \A v \in RequestStates : \A i :
                LET w == [v EXCEPT !.pc = "done", !.found = i, !.out = "registered"] IN
                w.found = i /\ w.deposit = v.deposit
          BY DEF RequestStates
        <4> QED
          BY <2>0, <3>3, <4>1
      <3> QED
        BY <3>1, <3>4 DEF Readable
    <2> QED
      BY <2>1, <2>3, <2>4, <2>5, RegisteredByPut
  <1> QED
    BY <1>1, IntentsInvCorrect, PTL DEF IntentsSpec, RegisteredIntentsExist
=============================================================================
