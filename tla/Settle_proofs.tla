---------------------------- MODULE Settle_proofs ----------------------------
(***************************************************************************)
(* Proofs about Settle: for any number of burns, requests and instances.   *)
(* What holds of receive() and of the ledger is taken from Receive_proofs: *)
(* a step of the handlers is a step of the SDK or leaves it alone.         *)
(***************************************************************************)
EXTENDS Settle, Receive_proofs

(***************************************************************************)
(* The moves of a request.                                                 *)
(***************************************************************************)
LEMMA AnsweredMoves ==
  ASSUME req \in [Requests -> RequestStates], NEW r \in Requests,
         NEW b \in Burns, NEW answer \in Answers, NEW t \in Requests \cup {None},
         Answered(r, b, answer, t)
  PROVE  /\ req' \in [Requests -> RequestStates]
         /\ \A s \in Requests \ {r} : req'[s] = req[s]
         /\ req'[r].pc = "done"
         /\ req'[r].burn = b
         /\ req'[r].answer = answer
         /\ req'[r].tx = t
  BY DEF Answered, RequestStates, RequestStages

\* What a request keeps on its way to the release of its lock.
LEMMA ReleasingMoves ==
  ASSUME req \in [Requests -> RequestStates], NEW r \in Requests,
         NEW answer \in Answers, NEW t \in Requests \cup {None}, Releasing(r, answer, t)
  PROVE  /\ req' \in [Requests -> RequestStates]
         /\ \A s \in Requests \ {r} : req'[s] = req[s]
         /\ req'[r].pc = "releasing"
         /\ req'[r].burn = req[r].burn
         /\ req'[r].inst = req[r].inst
         /\ req'[r].answer = answer
         /\ req'[r].tx = t
  <1>1. [req[r] EXCEPT !.pc = "releasing", !.answer = answer, !.tx = t] \in RequestStates
    BY DEF RequestStates, RequestStages
  <1> QED
    BY <1>1 DEF Releasing, RequestStates

\* A request that only moves on keeps its burn, instance and answer.
LEMMA PcMoves ==
  ASSUME req \in [Requests -> RequestStates], NEW r \in Requests,
         NEW stage \in RequestStages, req' = [req EXCEPT ![r].pc = stage]
  PROVE  /\ req' \in [Requests -> RequestStates]
         /\ \A s \in Requests \ {r} : req'[s] = req[s]
         /\ req'[r].pc = stage
         /\ req'[r].burn = req[r].burn
         /\ req'[r].inst = req[r].inst
         /\ req'[r].answer = req[r].answer
         /\ req'[r].tx = req[r].tx
  <1>1. [req[r] EXCEPT !.pc = stage] \in RequestStates
    BY DEF RequestStates
  <1> QED
    BY <1>1 DEF RequestStates

\* A kill ends the requests of its instance and touches no other.
LEMMA KillMoves ==
  ASSUME req \in [Requests -> RequestStates], NEW i \in Clients, KillInstance(i)
  PROVE  /\ req' \in [Requests -> RequestStates]
         /\ \A r \in Requests :
              \/ req[r].inst # i /\ req'[r] = req[r]
              \/ /\ req[r].inst = i
                 /\ req'[r].pc = "done"
                 /\ req'[r].burn = req[r].burn
                 /\ req'[r].answer = "killed"
  <1>1. ASSUME NEW r \in Requests
        PROVE  [req[r] EXCEPT !.pc = "done", !.inst = None, !.answer = "killed", !.tx = None]
                 \in RequestStates
    BY DEF RequestStates, RequestStages, Answers
  <1>2. req' \in [Requests -> RequestStates]
    BY <1>1 DEF KillInstance
  <1> QED
    BY ZenonT(30), <1>2 DEF KillInstance, RequestStates

\* A SET of the durable record touches the record of its burn only.
LEMMA PersistMoves ==
  ASSUME req \in [Requests -> RequestStates], record \in [Burns -> Records],
         NEW r \in Requests, BurnOf(r) \in Burns, NEW rec \in Records,
         NEW answer \in Answers, NEW t \in Requests \cup {None},
         Persist(r, rec, answer, t)
  PROVE  /\ req' \in [Requests -> RequestStates]
         /\ record' \in [Burns -> Records]
         /\ \A s \in Requests \ {r} : req'[s] = req[s]
         /\ \A b \in Burns \ {BurnOf(r)} : record'[b] = record[b]
         /\ req'[r].pc = "releasing"
         /\ req'[r].burn = req[r].burn
         /\ req'[r].inst = req[r].inst
         /\ \/ /\ record'[BurnOf(r)] = rec
               /\ req'[r].answer = answer
               /\ req'[r].tx = t
            \/ /\ record'[BurnOf(r)] \in {rec, record[BurnOf(r)]}
               /\ req'[r].answer = "internal"
               /\ req'[r].tx = None
  <1>1. CASE record' = [record EXCEPT ![BurnOf(r)] = rec] /\ Releasing(r, answer, t)
    BY <1>1, ReleasingMoves
  <1>2. CASE /\ record' \in {record, [record EXCEPT ![BurnOf(r)] = rec]}
             /\ Releasing(r, "internal", None)
    BY <1>2, ReleasingMoves DEF Answers
  <1> QED
    BY <1>1, <1>2 DEF Persist
-----------------------------------------------------------------------------
(***************************************************************************)
(* The inductive invariant, without the lock: what the durable records and *)
(* the answers say has happened.                                           *)
(***************************************************************************)
\* A request knows its burn, and its instance while it runs; the call of receive() it
\* makes is for that burn, on that instance, and over before the request goes on.
RequestInv(r) ==
  /\ req[r].pc # "idle" => BurnOf(r) \in Burns
  /\ req[r].pc \notin {"idle", "done"} => req[r].inst \in Clients
  /\ req[r].inst # None => req[r].pc # "idle"
  /\ req[r].pc = "receiving" => call[r].pc # "idle" /\ call[r].burn = BurnOf(r)
  /\ Live(r) => req[r].pc = "receiving" /\ call[r].client = req[r].inst
  /\ req[r].answer = "receipt" => /\ req[r].pc # "idle"
                                  /\ req[r].tx \in Requests
                                  /\ MintedBy(req[r].tx, BurnOf(r))
  /\ req[r].answer = "unconfirmed" => req[r].pc # "idle" /\ record[BurnOf(r)] # NoRecord

DurableInv(b) ==
  /\ record[b] # NoRecord => record[b].tx \in Requests
  /\ record[b].status = "settled" => MintedBy(record[b].tx, b)
  /\ record[b].status = "submitted" => /\ tx[record[b].tx].st # "none"
                                       /\ tx[record[b].tx].burn = b

SettleInv ==
  /\ TypeOK
  /\ ReceiveInv
  /\ \A r \in Requests : RequestInv(r)
  /\ \A b \in Burns : DurableInv(b)
-----------------------------------------------------------------------------
(***************************************************************************)
(* Every step of the handlers keeps the invariant.                         *)
(***************************************************************************)
LEMMA ReceiveSide ==
  ASSUME SettleInv, Next
  PROVE  /\ [ReceiveNext]_receiveVars
         /\ ReceiveInv'
         /\ ChainKeeps
  <1>1. [ReceiveNext]_receiveVars
    <2>1. ASSUME NEW r \in Requests, RequestStep(r) PROVE [ReceiveNext]_receiveVars
      <3>1. CASE CallReceive(r)
        <4>1. req[r].inst \in Clients /\ BurnOf(r) \in Burns
          BY <3>1 DEF CallReceive, SettleInv, RequestInv
        <4> QED
          BY <3>1, <4>1 DEF CallReceive, ReceiveNext, Requests
      <3>2. CASE CallStep(r)
        BY <3>2 DEF ReceiveNext, Requests
      <3>3. CASE UNCHANGED receiveVars
        BY <3>3
      <3> QED
        BY <2>1, <3>1, <3>2, <3>3
           DEF RequestStep, Refuse, Acquire, Preflight, PersistSettled, PersistUnconfirmed,
               ReplayRefused, ReceiveFailed, ReleaseGet, ReleaseDel
    <2> QED
      BY <2>1 DEF Next, Arrive, ExpireLock, KillInstance, ReceiveNext
  <1>2. CASE ReceiveNext
    BY <1>2, InvStep, CreditStep DEF SettleInv, ReceiveInv
  <1>3. CASE UNCHANGED receiveVars
    <2>1. ReceiveInv'
      BY <1>3, InvStutter DEF SettleInv
    <2> QED
      BY <1>1, <1>3, <2>1 DEF ChainKeeps, ReceiveInv, MintedBy, receiveVars
  <1> QED
    BY <1>1, <1>2, <1>3

RecordsKept == \A b \in Burns : record[b] # NoRecord => record'[b] # NoRecord

\* A durable record that is not written stays true.
LEMMA DurableKept ==
  ASSUME NEW b \in Burns, DurableInv(b), ChainKeeps, record \in [Burns -> Records],
         record'[b] = record[b]
  PROVE  DurableInv(b)'
  <1>1. record[b] = NoRecord => record[b].status = "none"
    BY DEF NoRecord
  <1> QED
    BY <1>1 DEF DurableInv, ChainKeeps, Requests

\* What holds of a request holds on while neither it nor its call moves.
LEMMA RequestKept ==
  ASSUME NEW r \in Requests, RequestInv(r), ChainKeeps, RecordsKept,
         req'[r] = req[r], call'[r] = call[r]
  PROVE  RequestInv(r)'
  BY DEF RequestInv, ChainKeeps, RecordsKept, Live, BurnOf, Requests

\* What a step of request r establishes besides ReceiveInv.
StepKeeps(r) ==
  /\ req' \in [Requests -> RequestStates]
  /\ record' \in [Burns -> Records]
  /\ lock' \in [Burns -> Requests \cup {None}]
  /\ RecordsKept
  /\ RequestInv(r)'
  /\ \A b \in Burns : DurableInv(b)'
  /\ \A s \in Requests \ {r} : req'[s] = req[s] /\ call'[s] = call[s]

\* A step that only answers, or only prepares an answer.
LEMMA AnswerKeeps ==
  ASSUME SettleInv, ChainKeeps, NEW r \in Requests, NEW b \in Burns,
         NEW answer \in Answers, NEW t \in Requests \cup {None},
         UNCHANGED <<receiveVars, record>>, lock' \in [Burns -> Requests \cup {None}],
         ~ Live(r),
         \/ Answered(r, b, answer, t)
         \/ Releasing(r, answer, t) /\ BurnOf(r) = b /\ req[r].inst \in Clients,
         answer = "receipt" => t \in Requests /\ MintedBy(t, b),
         answer = "unconfirmed" => record[b] # NoRecord
  PROVE  StepKeeps(r)
  <1> USE DEF SettleInv, TypeOK
  <1>1. /\ req' \in [Requests -> RequestStates]
        /\ \A s \in Requests \ {r} : req'[s] = req[s]
        /\ req'[r].pc \in {"done", "releasing"}
        /\ req'[r].pc = "releasing" => req'[r].inst \in Clients
        /\ req'[r].burn = b
        /\ req'[r].answer = answer
        /\ req'[r].tx = t
    <2>1. CASE Answered(r, b, answer, t)
      BY <2>1, AnsweredMoves
    <2>2. CASE Releasing(r, answer, t) /\ BurnOf(r) = b /\ req[r].inst \in Clients
      BY <2>2, ReleasingMoves DEF BurnOf
    <2> QED
      BY <2>1, <2>2
  <1>2. RequestInv(r)'
    BY <1>1 DEF RequestInv, BurnOf, Live, MintedBy, receiveVars
  <1>3. \A e \in Burns : DurableInv(e)'
    BY DurableKept
  <1> QED
    BY <1>1, <1>2, <1>3 DEF StepKeeps, RecordsKept, receiveVars

\* The arrival, which reads the durable record and may be answered from it.
LEMMA ArriveKeeps ==
  ASSUME SettleInv, ChainKeeps, NEW r \in Requests, NEW b \in Burns, NEW i \in Clients,
         Arrive(r, b, i)
  PROVE  StepKeeps(r)
  <1> USE DEF SettleInv, TypeOK
  <1>1. ~ Live(r) /\ req[r].pc = "idle"
    BY DEF Arrive, RequestInv
  <1>2. CASE /\ record[b] = NoRecord
             /\ req' = [req EXCEPT ![r] = [NoRequest EXCEPT !.pc = "checked", !.burn = b,
                                                           !.inst = i]]
    <2>1. [NoRequest EXCEPT !.pc = "checked", !.burn = b, !.inst = i] \in RequestStates
      BY DEF NoRequest, RequestStates, RequestStages, Answers
    <2>2. /\ req'[r].pc = "checked" /\ req'[r].burn = b /\ req'[r].inst = i
          /\ req'[r].answer = "none"
      BY <1>2 DEF NoRequest
    <2>3. RequestInv(r)'
      BY <1>1, <2>2 DEF Arrive, RequestInv, BurnOf, Live, receiveVars
    <2> QED
      BY <1>2, <2>1, <2>3, DurableKept DEF Arrive, StepKeeps, RecordsKept, receiveVars
  <1>3. ASSUME NEW answer, NEW t, Answered(r, b, answer, t),
               \/ answer = "receipt" /\ t = record[b].tx /\ record[b].status = "settled"
               \/ answer = "unconfirmed" /\ t = None /\ record[b].status = "submitted"
               \/ answer = "internal" /\ t = None
        PROVE  StepKeeps(r)
    <2>1. record[b].status \in {"settled", "submitted"} => record[b] # NoRecord
      BY DEF NoRecord
    <2>2. answer = "receipt" => t \in Requests /\ MintedBy(t, b)
      BY <1>3, <2>1 DEF DurableInv
    <2> QED
      BY <1>1, <1>3, <2>1, <2>2, AnswerKeeps DEF Arrive, Answers
  <1> QED
    BY <1>2, <1>3 DEF Arrive

\* A refusal after the record was read.
LEMMA RefuseKeeps ==
  ASSUME SettleInv, ChainKeeps, NEW r \in Requests, Refuse(r)
  PROVE  StepKeeps(r)
  <1>1. ~ Live(r) /\ BurnOf(r) \in Burns
    BY DEF Refuse, SettleInv, RequestInv
  <1>2. lock' \in [Burns -> Requests \cup {None}]
    BY DEF Refuse, SettleInv, TypeOK
  <1> QED
    BY <1>1, <1>2, AnswerKeeps DEF Refuse, Answers

\* SET NX EX of the lock, won, lost or failed.
LEMMA AcquireKeeps ==
  ASSUME SettleInv, ChainKeeps, NEW r \in Requests, Acquire(r)
  PROVE  StepKeeps(r)
  <1> USE DEF SettleInv, TypeOK
  <1>1. ~ Live(r) /\ BurnOf(r) \in Burns /\ req[r].pc = "checked"
    BY DEF Acquire, RequestInv
  <1>2. lock' \in [Burns -> Requests \cup {None}]
    BY DEF Acquire
  <1>3. CASE req' = [req EXCEPT ![r].pc = "locked"]
    <2>1. /\ req' \in [Requests -> RequestStates]
          /\ \A s \in Requests \ {r} : req'[s] = req[s]
          /\ req'[r].pc = "locked"
          /\ req'[r].burn = req[r].burn /\ req'[r].inst = req[r].inst
          /\ req'[r].answer = req[r].answer /\ req'[r].tx = req[r].tx
      BY <1>3, PcMoves DEF RequestStages
    <2>2. RequestInv(r)'
      BY <1>1, <2>1 DEF Acquire, RequestInv, BurnOf, Live, MintedBy, receiveVars
    <2> QED
      BY <1>2, <2>1, <2>2, DurableKept DEF Acquire, StepKeeps, RecordsKept, receiveVars
  <1>4. CASE Answered(r, BurnOf(r), "internal", None)
    BY <1>1, <1>2, <1>4, AnswerKeeps DEF Acquire, Answers
  <1>5. CASE Answered(r, BurnOf(r), "busy", None)
    BY <1>1, <1>2, <1>5, AnswerKeeps DEF Acquire, Answers
  <1> QED
    BY <1>3, <1>4, <1>5 DEF Acquire

\* The probe of the attestation under the lock.
LEMMA PreflightKeeps ==
  ASSUME SettleInv, ChainKeeps, NEW r \in Requests, Preflight(r)
  PROVE  StepKeeps(r)
  <1>1. ~ Live(r) /\ BurnOf(r) \in Burns /\ req[r].inst \in Clients
    BY DEF Preflight, SettleInv, RequestInv
  <1>2. lock' \in [Burns -> Requests \cup {None}]
    BY DEF Preflight, SettleInv, TypeOK
  <1> QED
    BY <1>1, <1>2, AnswerKeeps DEF Preflight, Answers

\* The call of receive() begins.
LEMMA CallReceiveKeeps ==
  ASSUME SettleInv, ChainKeeps, NEW r \in Requests, CallReceive(r)
  PROVE  StepKeeps(r)
  <1> USE DEF SettleInv, TypeOK
  <1>1. /\ BurnOf(r) \in Burns /\ req[r].inst \in Clients
        /\ req[r].pc = "locked" /\ Begin(r, req[r].inst, BurnOf(r))
    BY DEF CallReceive, RequestInv
  <1>2. /\ req' \in [Requests -> RequestStates]
        /\ \A s \in Requests \ {r} : req'[s] = req[s]
        /\ req'[r].pc = "receiving"
        /\ req'[r].burn = req[r].burn /\ req'[r].inst = req[r].inst
        /\ req'[r].answer = req[r].answer /\ req'[r].tx = req[r].tx
    BY PcMoves DEF CallReceive, RequestStages
  <1>3. /\ \A s \in Requests \ {r} : call'[s] = call[s]
        /\ call'[r].burn = BurnOf(r)
        /\ call'[r].pc # "idle"
        /\ call'[r].pc # "done" => call'[r].client = req[r].inst
    BY <1>1, BeginMoves DEF ReceiveTypeOK, Requests
  <1>4. RequestInv(r)'
    BY <1>1, <1>2, <1>3
       DEF CallReceive, Begin, RequestInv, BurnOf, Live, MintedBy, chainVars
  <1> QED
    BY <1>2, <1>3, <1>4, DurableKept DEF CallReceive, StepKeeps, RecordsKept

\* receive() runs on beneath the request.
LEMMA CallStepKeeps ==
  ASSUME SettleInv, ChainKeeps, NEW r \in Requests, CallStep(r),
         UNCHANGED <<req, record, lock>>
  PROVE  StepKeeps(r)
  <1> USE DEF SettleInv, TypeOK
  <1>1. /\ Live(r) /\ req[r].pc = "receiving"
        /\ call'[r].pc # "idle" /\ call'[r].burn = call[r].burn
        /\ \A s \in Requests \ {r} : call'[s] = call[s]
    BY CallStepMoves DEF RequestInv, ReceiveTypeOK, Requests
  <1>2. Live(r)' => call'[r].client = call[r].client
    BY GotoMoves, EndsMoves
       DEF CallStep, Live, Prepare, Simulate, SendRejected, SendAccepted, SendAnswerLost,
           ConfirmSeen, ConfirmWindowElapses, MarkSubmitted, MarkSettled, PostMintFails,
           ReceiveTypeOK, Requests
  <1>3. RequestInv(r)'
    BY <1>1, <1>2 DEF RequestInv, BurnOf, ChainKeeps, Requests
  <1> QED
    BY <1>1, <1>3, DurableKept DEF StepKeeps, RecordsKept

\* Writing a record and answering, after receive() returned.
LEMMA PersistKeeps ==
  ASSUME SettleInv, ChainKeeps, NEW r \in Requests, UNCHANGED <<receiveVars, lock>>,
         NEW outcome, Returned(r, outcome), NEW rec \in Records,
         NEW answer \in Answers, NEW t \in Requests \cup {None},
         Persist(r, rec, answer, t),
         \/ rec = Settled(r) /\ answer = "receipt" /\ t = r /\ MintedBy(r, BurnOf(r))
         \/ /\ rec = Submitted(r) /\ answer = "unconfirmed" /\ t = None
            /\ tx[r].st # "none" /\ tx[r].burn = BurnOf(r)
  PROVE  StepKeeps(r)
  <1> USE DEF SettleInv, TypeOK
  <1>1. ~ Live(r) /\ BurnOf(r) \in Burns /\ req[r].inst \in Clients
    BY DEF Returned, RequestInv, Live
  <1> DEFINE b == BurnOf(r)
  <1>2. /\ req' \in [Requests -> RequestStates]
        /\ record' \in [Burns -> Records]
        /\ \A s \in Requests \ {r} : req'[s] = req[s]
        /\ \A e \in Burns \ {b} : record'[e] = record[e]
        /\ req'[r].pc = "releasing"
        /\ req'[r].burn = req[r].burn
        /\ req'[r].inst = req[r].inst
        /\ record'[b] \in {rec, record[b]}
        /\ \/ record'[b] = rec /\ req'[r].answer = answer /\ req'[r].tx = t
           \/ req'[r].answer = "internal"
    BY <1>1, PersistMoves
  <1>3. rec # NoRecord /\ RecordsKept
    BY <1>2 DEF RecordsKept, NoRecord, Settled, Submitted
  <1>4. RequestInv(r)'
    BY <1>1, <1>2, <1>3 DEF RequestInv, BurnOf, Live, MintedBy, receiveVars
  <1>5. ASSUME NEW e \in Burns PROVE DurableInv(e)'
    <2>1. CASE record'[e] = record[e]
      BY <2>1, DurableKept
    <2>2. CASE e = b /\ record'[e] = rec
      BY <2>2 DEF DurableInv, MintedBy, receiveVars, Settled, Submitted
    <2> QED
      BY <1>2, <2>1, <2>2
  <1> QED
    BY <1>2, <1>3, <1>4, <1>5 DEF StepKeeps, receiveVars

\* receive() settled and the receipt is made durable.
LEMMA PersistSettledKeeps ==
  ASSUME SettleInv, ChainKeeps, NEW r \in Requests, PersistSettled(r)
  PROVE  StepKeeps(r)
  <1>1. MintedBy(r, BurnOf(r))
    BY DEF PersistSettled, Returned, SettleInv, RequestInv, ReceiveInv, HoldsMint, Holds,
           Requests
  <1>2. Settled(r) \in Records
    BY DEF Settled, Records, Requests
  <1> QED
    BY <1>1, <1>2, PersistKeeps DEF PersistSettled, Answers

\* receive() could not confirm and the mint is recorded as submitted.
LEMMA PersistUnconfirmedKeeps ==
  ASSUME SettleInv, ChainKeeps, NEW r \in Requests, PersistUnconfirmed(r)
  PROVE  StepKeeps(r)
  <1>1. tx[r].st # "none" /\ tx[r].burn = BurnOf(r)
    BY DEF PersistUnconfirmed, Returned, SettleInv, RequestInv, ReceiveInv, ConfirmsItsOwn,
           Sent, Requests
  <1>2. Submitted(r) \in Records
    BY DEF Submitted, Records, Requests
  <1> QED
    BY <1>1, <1>2, PersistKeeps DEF PersistUnconfirmed, Answers

\* The instance's own store refused the call.
LEMMA ReplayRefusedKeeps ==
  ASSUME SettleInv, ChainKeeps, NEW r \in Requests, ReplayRefused(r)
  PROVE  StepKeeps(r)
  <1>1. ~ Live(r) /\ BurnOf(r) \in Burns /\ req[r].inst \in Clients
    BY DEF ReplayRefused, Returned, SettleInv, RequestInv, Live
  <1>2. lock' \in [Burns -> Requests \cup {None}]
    BY DEF ReplayRefused, SettleInv, TypeOK
  <1>3. record[BurnOf(r)].status = "settled" =>
          /\ record[BurnOf(r)].tx \in Requests
          /\ MintedBy(record[BurnOf(r)].tx, BurnOf(r))
    BY <1>1 DEF SettleInv, DurableInv, NoRecord
  <1> QED
    BY <1>1, <1>2, <1>3, AnswerKeeps DEF ReplayRefused, Answers

\* receive() failed in a way the handler only answers.
LEMMA ReceiveFailedKeeps ==
  ASSUME SettleInv, ChainKeeps, NEW r \in Requests, ReceiveFailed(r)
  PROVE  StepKeeps(r)
  <1>1. ~ Live(r) /\ BurnOf(r) \in Burns /\ req[r].inst \in Clients
    BY DEF ReceiveFailed, Returned, SettleInv, RequestInv, Live
  <1>2. lock' \in [Burns -> Requests \cup {None}]
    BY DEF ReceiveFailed, SettleInv, TypeOK
  <1> QED
    BY <1>1, <1>2, AnswerKeeps DEF ReceiveFailed, Answers

\* The end of the finally block, with the answer or without it.
LEMMA ReleasedKeeps ==
  ASSUME SettleInv, ChainKeeps, NEW r \in Requests,
         req[r].pc \in {"releasing", "deleting"}, Released(r) \/ ReleaseFailed(r),
         UNCHANGED <<receiveVars, record>>, lock' \in [Burns -> Requests \cup {None}]
  PROVE  StepKeeps(r)
  <1>1. /\ ~ Live(r) /\ BurnOf(r) \in Burns
        /\ req[r].answer \in Answers /\ req[r].tx \in Requests \cup {None}
        /\ req[r].answer = "receipt" => /\ req[r].tx \in Requests
                                        /\ MintedBy(req[r].tx, BurnOf(r))
        /\ req[r].answer = "unconfirmed" => record[BurnOf(r)] # NoRecord
    BY DEF SettleInv, TypeOK, RequestInv, RequestStates
  <1>2. CASE Released(r)
    BY <1>1, <1>2, AnswerKeeps DEF Released
  <1>3. CASE ReleaseFailed(r)
    BY <1>1, <1>3, AnswerKeeps DEF ReleaseFailed, Answers
  <1> QED
    BY <1>2, <1>3

\* The first request of the release, the GET.
LEMMA ReleaseGetKeeps ==
  ASSUME SettleInv, ChainKeeps, NEW r \in Requests, ReleaseGet(r)
  PROVE  StepKeeps(r)
  <1> USE DEF SettleInv, TypeOK
  <1>1. CASE req' = [req EXCEPT ![r].pc = "deleting"]
    <2>1. /\ req' \in [Requests -> RequestStates]
          /\ \A s \in Requests \ {r} : req'[s] = req[s]
          /\ req'[r].pc = "deleting"
          /\ req'[r].burn = req[r].burn /\ req'[r].inst = req[r].inst
          /\ req'[r].answer = req[r].answer /\ req'[r].tx = req[r].tx
      BY <1>1, PcMoves DEF RequestStages
    <2>2. RequestInv(r)'
      BY <2>1 DEF ReleaseGet, RequestInv, BurnOf, Live, MintedBy, receiveVars
    <2> QED
      BY <2>1, <2>2, DurableKept DEF ReleaseGet, StepKeeps, RecordsKept, receiveVars
  <1>2. CASE Released(r) \/ ReleaseFailed(r)
    BY <1>2, ReleasedKeeps DEF ReleaseGet
  <1> QED
    BY <1>1, <1>2 DEF ReleaseGet

\* The second request of the release, the DEL.
LEMMA ReleaseDelKeeps ==
  ASSUME SettleInv, ChainKeeps, NEW r \in Requests, ReleaseDel(r)
  PROVE  StepKeeps(r)
  <1>1. lock' \in [Burns -> Requests \cup {None}]
    BY DEF ReleaseDel, SettleInv, TypeOK
  <1> QED
    BY <1>1, ReleasedKeeps DEF ReleaseDel

\* Any step of a request.
LEMMA RequestStepKeeps ==
  ASSUME SettleInv, ChainKeeps, NEW r \in Requests, RequestStep(r)
  PROVE  StepKeeps(r)
  BY RefuseKeeps, AcquireKeeps, PreflightKeeps, CallReceiveKeeps, CallStepKeeps,
     PersistSettledKeeps, PersistUnconfirmedKeeps, ReplayRefusedKeeps, ReceiveFailedKeeps,
     ReleaseGetKeeps, ReleaseDelKeeps
     DEF RequestStep

\* No request has arrived.
LEMMA SettleInvInit == Init => SettleInv
  <1> SUFFICES ASSUME Init PROVE SettleInv
    OBVIOUS
  <1>1. ReceiveInv
    BY InvInit DEF Init
  <1>2. TypeOK
    BY <1>1, TypeInit
       DEF Init, TypeOK, ReceiveInv, RequestStates, RequestStages, Answers, NoRequest,
           NoRecord, Records
  <1>3. ASSUME NEW r \in Requests PROVE RequestInv(r)
    BY DEF Init, ReceiveInit, Idle, NoRequest, RequestInv, Live, Requests
  <1>4. ASSUME NEW b \in Burns PROVE DurableInv(b)
    BY DEF Init, DurableInv, NoRecord
  <1> QED
    BY <1>1, <1>2, <1>3, <1>4 DEF SettleInv

\* Every step of the handlers, of the SDK and of the network.
LEMMA SettleInvStep == SettleInv /\ Next => SettleInv'
  <1> SUFFICES ASSUME SettleInv, Next PROVE SettleInv'
    OBVIOUS
  <1> USE DEF TypeOK
  <1>1. ReceiveInv' /\ ChainKeeps /\ ReceiveTypeOK'
    BY ReceiveSide DEF ReceiveInv
  <1>2. ASSUME NEW r \in Requests, StepKeeps(r) PROVE SettleInv'
    <2>1. \A s \in Requests : RequestInv(s)'
      BY <1>1, <1>2, RequestKept DEF StepKeeps, SettleInv
    <2> QED
      BY <1>1, <1>2, <2>1 DEF StepKeeps, SettleInv
  <1>3. ASSUME NEW r \in Requests, NEW b \in Burns, NEW i \in Clients, Arrive(r, b, i)
        PROVE  SettleInv'
    BY <1>1, <1>2, <1>3, ArriveKeeps
  <1>4. ASSUME NEW r \in Requests, RequestStep(r) PROVE SettleInv'
    BY <1>1, <1>2, <1>4, RequestStepKeeps
  <1>5. ASSUME UNCHANGED <<call, req, record>>, lock' \in [Burns -> Requests \cup {None}]
        PROVE  SettleInv'
    <2>1. RecordsKept
      BY <1>5 DEF RecordsKept
    <2>2. \A r \in Requests : RequestInv(r)'
      BY <1>1, <1>5, <2>1, RequestKept DEF SettleInv
    <2>3. \A b \in Burns : DurableInv(b)'
      BY <1>1, <1>5, DurableKept DEF SettleInv
    <2> QED
      BY <1>1, <1>5, <2>2, <2>3 DEF SettleInv
  <1>6. ASSUME NEW b \in Burns, ExpireLock(b) PROVE SettleInv'
    BY <1>5, <1>6 DEF ExpireLock, receiveVars, SettleInv
  <1>7. ASSUME NEW i \in Clients, KillInstance(i) PROVE SettleInv'
    <2>1. RecordsKept
      BY <1>7 DEF KillInstance, RecordsKept
    <2>2. ASSUME NEW r \in Requests PROVE RequestInv(r)'
      <3>0. RequestInv(r) /\ None \notin Clients
        BY ReceiveAssumption DEF SettleInv
      <3>1. \/ call'[r] = call[r] /\ (call[r].client # i \/ ~ Live(r))
            \/ Live(r) /\ call[r].client = i /\ call'[r].pc = "done"
        BY <1>7, CrashMoves DEF KillInstance, SettleInv, ReceiveTypeOK, Requests
      <3>2. CASE req[r].inst # i /\ req'[r] = req[r]
        <4>1. call'[r] = call[r]
          BY <3>0, <3>1, <3>2 DEF RequestInv
        <4> QED
          BY <1>1, <2>1, <3>2, <4>1, RequestKept DEF SettleInv
      <3>3. CASE /\ req[r].inst = i /\ req'[r].pc = "done"
                 /\ req'[r].burn = req[r].burn /\ req'[r].answer = "killed"
        <4>1. ~ Live(r)'
          BY <3>0, <3>1, <3>3 DEF RequestInv, Live
        <4>2. req'[r].burn \in Burns
          BY <3>0, <3>3 DEF RequestInv, BurnOf
        <4> QED
          BY <3>3, <4>1, <4>2 DEF RequestInv, BurnOf
      <3> QED
        BY <1>7, <3>2, <3>3, KillMoves DEF SettleInv
    <2>3. \A b \in Burns : DurableInv(b)'
      BY <1>1, <1>7, DurableKept DEF KillInstance, SettleInv
    <2> QED
      BY <1>1, <1>7, <2>2, <2>3, KillMoves DEF KillInstance, SettleInv
  <1>8. CASE ChainStep /\ UNCHANGED <<call, store, req, record, lock>>
    BY <1>5, <1>8 DEF SettleInv
  <1> QED
    BY <1>3, <1>4, <1>6, <1>7, <1>8 DEF Next
-----------------------------------------------------------------------------
\* Stuttering keeps the invariant.
LEMMA SettleInvStutter == SettleInv /\ UNCHANGED settleVars => SettleInv'
  <1> SUFFICES ASSUME SettleInv, UNCHANGED settleVars PROVE SettleInv'
    OBVIOUS
  <1>1. ReceiveInv'
    BY InvStutter DEF SettleInv, settleVars, receiveVars
  <1> QED
    BY <1>1 DEF SettleInv, TypeOK, ReceiveInv, RequestInv, DurableInv, BurnOf, Live, MintedBy,
                settleVars

\* The inductive invariant of the handlers: what a request waits for, answers and records
\* agrees with the call of receive() it made and with the ledger.
THEOREM SettleInvCorrect == Spec => []SettleInv
  BY SettleInvInit, SettleInvStep, SettleInvStutter, PTL DEF Spec

\* Requests, records and locks are always what the handlers make them.
THEOREM SettleTypeCorrect == Spec => []TypeOK
  <1>1. SettleInv => TypeOK
    BY DEF SettleInv
  <1> QED
    BY SettleInvCorrect, <1>1, PTL

\* No durable record says that something happened which did not, with or without a lock
\* that expires early.
THEOREM RecordsTrue == Spec => []RecordsAreTrue
  <1>1. SettleInv => RecordsAreTrue
    BY DEF SettleInv, DurableInv, RecordsAreTrue
  <1> QED
    BY SettleInvCorrect, <1>1, PTL

\* All receipts given for a burn, by any instance, are the same and name its mint.
THEOREM ReceiptsTrue == Spec => []ReceiptsAgree
  <1>1. SettleInv => ReceiptsAgree
    BY DEF SettleInv, RequestInv, ReceiptsAgree, ReceiveInv, CreditOnce, Requests
  <1> QED
    BY SettleInvCorrect, <1>1, PTL

\* Only its arrival, which reads the durable record, takes a request out of "idle".
LEMMA LeavesIdle ==
  ASSUME SettleInv, Next, NEW s \in Requests, req[s].pc = "idle", req'[s].pc # "idle"
  PROVE  \E b \in Burns, i \in Clients : Arrive(s, b, i)
  <1> USE DEF SettleInv, TypeOK
  <1>0. ChainKeeps
    BY ReceiveSide
  <1>1. ASSUME NEW r \in Requests, NEW b \in Burns, NEW i \in Clients, Arrive(r, b, i)
        PROVE  r = s
    BY <1>0, <1>1, ArriveKeeps DEF StepKeeps
  <1>2. ASSUME NEW r \in Requests, RequestStep(r) PROVE FALSE
    <2>1. r = s
      BY <1>0, <1>2, RequestStepKeeps DEF StepKeeps
    <2>2. ~ Live(s)
      BY DEF RequestInv
    <2>3. ~ CallStep(s)
      BY <2>2, CallStepMoves DEF ReceiveTypeOK, Requests
    <2> QED
      BY <1>2, <2>1, <2>3
         DEF RequestStep, Refuse, Acquire, Preflight, CallReceive, PersistSettled,
             PersistUnconfirmed, ReplayRefused, ReceiveFailed, ReleaseGet, ReleaseDel, Returned
  <1>3. ASSUME NEW b \in Burns, ExpireLock(b) PROVE FALSE
    BY <1>3 DEF ExpireLock
  <1>4. ASSUME NEW i \in Clients, KillInstance(i) PROVE FALSE
    <2>1. req[s].inst # i
      BY ReceiveAssumption DEF RequestInv
    <2> QED
      BY <1>4, <2>1, KillMoves
  <1> QED
    BY <1>1, <1>2, <1>3, <1>4 DEF Next

\* Where a burn has a durable record, its next request is answered at once.
LEMMA RecordedIsAnswered ==
  ASSUME SettleInv, NEW s \in Requests, NEW b \in Burns, NEW i \in Clients, Arrive(s, b, i),
         record[req'[s].burn] # NoRecord
  PROVE  req'[s].pc = "done" /\ req'[s].answer \in {"receipt", "unconfirmed", "internal"}
  <1> USE DEF SettleInv, TypeOK
  <1>1. CASE /\ record[b] = NoRecord
             /\ req' = [req EXCEPT ![s] = [NoRequest EXCEPT !.pc = "checked", !.burn = b,
                                                           !.inst = i]]
    BY <1>1 DEF NoRequest
  <1>2. ASSUME NEW answer \in {"receipt", "unconfirmed", "internal"}, NEW t,
               Answered(s, b, answer, t)
        PROVE  req'[s].pc = "done" /\ req'[s].answer = answer
    BY <1>2 DEF Answered
  <1> QED
    BY <1>1, <1>2 DEF Arrive

UnconfirmedStep ==
  \A r, s \in Requests :
    /\ req[r].answer = "unconfirmed"
    /\ req[s].pc = "idle"
    /\ req'[s].pc # "idle"
    /\ req'[s].burn = req[r].burn
    => /\ req'[s].pc = "done"
       /\ req'[s].answer \in {"receipt", "unconfirmed", "internal"}

\* After a request was told that its mint is unconfirmed, no later one sends another.
THEOREM UnconfirmedStops == Spec => UnconfirmedStopsRetries
  <1>1. SettleInv /\ Next => UnconfirmedStep
    BY LeavesIdle, RecordedIsAnswered DEF UnconfirmedStep, SettleInv, RequestInv, BurnOf
  <1>2. SettleInv /\ [Next]_settleVars =>
          [\A r, s \in Requests :
             /\ req[r].answer = "unconfirmed"
             /\ req[s].pc = "idle"
             /\ req'[s].pc # "idle"
             /\ req'[s].burn = req[r].burn
             => /\ req'[s].pc = "done"
                /\ req'[s].answer \in {"receipt", "unconfirmed", "internal"}]_settleVars
    BY <1>1 DEF UnconfirmedStep
  <1> QED
    BY SettleInvCorrect, <1>2, PTL DEF Spec, UnconfirmedStopsRetries
-----------------------------------------------------------------------------
(***************************************************************************)
(* The lock, while a holder finishes within its TTL.                       *)
(***************************************************************************)
\* A request between acquire and release holds the lock of its burn.
HeldInv == \A r \in Requests : Critical(r) => lock[BurnOf(r)] = r

\* What a step of a request does to the lock.
LEMMA LockMoves ==
  ASSUME SettleInv, NEW r \in Requests, RequestStep(r)
  PROVE  \/ /\ UNCHANGED lock
            /\ Critical(r)' => Critical(r) /\ req'[r].burn = req[r].burn
         \/ Acquire(r)
         \/ ReleaseDel(r)
  <1> USE DEF SettleInv, TypeOK, Critical
  <1>1. CASE Refuse(r)
    BY <1>1, AnsweredMoves DEF Refuse, RequestInv, Answers
  <1>2. CASE Preflight(r)
    BY <1>2, ReleasingMoves DEF Preflight, Answers
  <1>3. CASE CallReceive(r)
    BY <1>3, PcMoves DEF CallReceive, RequestStages
  <1>4. ASSUME Returned(r, "settled") \/ Returned(r, "MintUnconfirmed"),
               NEW rec, NEW answer, NEW t, Persist(r, rec, answer, t), UNCHANGED lock
        PROVE  UNCHANGED lock /\ Critical(r) /\ req'[r].burn = req[r].burn
    BY ZenonT(30), <1>4 DEF Persist, Releasing, Returned, RequestStates
  <1>5. CASE PersistSettled(r) \/ PersistUnconfirmed(r)
    BY <1>4, <1>5 DEF PersistSettled, PersistUnconfirmed
  <1>6. ASSUME NEW answer, NEW t, Releasing(r, answer, t)
        PROVE  req'[r].burn = req[r].burn
    BY <1>6 DEF Releasing, RequestStates
  <1>7. CASE ReplayRefused(r) \/ ReceiveFailed(r)
    <2>1. /\ UNCHANGED lock
          /\ req[r].pc = "receiving"
          /\ \E answer \in Answers, t \in Requests \cup {None} : Releasing(r, answer, t)
      <3>1. CASE ReplayRefused(r)
        <4>1. BurnOf(r) \in Burns
          BY <3>1 DEF ReplayRefused, Returned, RequestInv
        <4>2. record[BurnOf(r)].tx \in Requests \cup {None}
          BY <4>1 DEF Records, Requests
        <4> QED
          BY <3>1, <4>2 DEF ReplayRefused, Returned, Answers
      <3>2. CASE ReceiveFailed(r)
        BY <3>2 DEF ReceiveFailed, Returned, Answers
      <3> QED
        BY <1>7, <3>1, <3>2
    <2> QED
      BY <1>6, <2>1
  <1>8. CASE ReleaseGet(r)
    BY <1>8 DEF ReleaseGet, Released, ReleaseFailed, Answered, RequestStates
  <1>9. CASE CallStep(r) /\ UNCHANGED <<req, record, lock>>
    BY <1>9
  <1> QED
    BY <1>1, <1>2, <1>3, <1>5, <1>7, <1>8, <1>9 DEF RequestStep

\* A request whose token is in a lock is of that lock's burn, and either still to release it
\* or over without having been able to.
Owns(r, b) ==
  /\ BurnOf(r) = b
  /\ Critical(r) \/ (req[r].pc = "done" /\ req[r].answer \in {"killed", "internal"})

OwnedInv == \A b \in Burns : lock[b] # None => Owns(lock[b], b)

\* A step of the owner that leaves the lock as it is leaves its owner one.
LEMMA OwnerSteps ==
  ASSUME SettleInv, NEW r \in Requests, RequestStep(r), NEW b \in Burns,
         lock[b] = r, lock'[b] = r, Owns(r, b)
  PROVE  Owns(r, b)'
  <1> USE DEF SettleInv, TypeOK
  <1>1. ASSUME NEW answer, NEW t, Releasing(r, answer, t) PROVE Owns(r, b)'
    BY <1>1 DEF Releasing, Owns, Critical, BurnOf, RequestStates
  <1>2. ASSUME ReleaseFailed(r) PROVE Owns(r, b)'
    BY <1>2 DEF ReleaseFailed, Answered, Owns, Critical, BurnOf
  <1>3. ~ (Refuse(r) \/ Acquire(r))
    BY DEF Owns, Critical, Refuse, Acquire
  <1>4. CASE Preflight(r) \/ ReplayRefused(r) \/ ReceiveFailed(r)
    BY <1>1, <1>4 DEF Preflight, ReplayRefused, ReceiveFailed
  <1>5. CASE PersistSettled(r) \/ PersistUnconfirmed(r)
    BY <1>1, <1>5 DEF PersistSettled, PersistUnconfirmed, Persist
  <1>6. CASE CallReceive(r)
    BY <1>6 DEF CallReceive, Owns, Critical, BurnOf, RequestStates
  <1>7. CASE ReleaseGet(r)
    <2>1. CASE req' = [req EXCEPT ![r].pc = "deleting"]
      BY <2>1 DEF Owns, Critical, BurnOf, RequestStates
    <2> QED
      BY <1>2, <1>7, <2>1 DEF ReleaseGet, Owns
  <1>8. CASE ReleaseDel(r)
    <2>1. lock' # [lock EXCEPT ![BurnOf(r)] = None]
      BY NoneAssumption DEF Owns, Requests
    <2> QED
      BY <1>2, <1>8, <2>1 DEF ReleaseDel
  <1>9. CASE CallStep(r) /\ UNCHANGED <<req, record, lock>>
    BY <1>9 DEF Owns, Critical, BurnOf
  <1> QED
    BY <1>3, <1>4, <1>5, <1>6, <1>7, <1>8, <1>9 DEF RequestStep

\* Every path of the handler gives the lock back, unless Redis fails or it is killed.
LEMMA OwnedStep ==
  ASSUME SettleInv, OwnedInv, Next
  PROVE  OwnedInv'
  <1> USE DEF SettleInv, TypeOK, OwnedInv
  <1>0. ChainKeeps
    BY ReceiveSide
  <1>1. SUFFICES ASSUME NEW b \in Burns, NEW s \in Requests, lock'[b] = s
                 PROVE  Owns(s, b)'
    <2>1. lock' \in [Burns -> Requests \cup {None}]
      BY SettleInvStep DEF SettleInv, TypeOK
    <2> QED
      BY <1>1, <2>1 DEF OwnedInv
  <1>2. s # None /\ (lock[b] = s => Owns(s, b))
    BY NoneAssumption DEF Requests
  <1>3. ASSUME lock[b] = s, req'[s] = req[s]
        PROVE  Owns(s, b)'
    BY <1>2, <1>3 DEF Owns, Critical, BurnOf
  <1>4. ASSUME NEW r \in Requests, NEW e \in Burns, NEW i \in Clients, Arrive(r, e, i)
        PROVE  Owns(s, b)'
    <2>1. UNCHANGED lock /\ req[r].pc = "idle" /\ StepKeeps(r)
      BY <1>0, <1>4, ArriveKeeps DEF Arrive
    <2>2. s # r
      BY <1>1, <1>2, <2>1 DEF Owns, Critical
    <2> QED
      BY <1>1, <1>3, <2>1, <2>2 DEF StepKeeps
  <1>5. ASSUME NEW r \in Requests, RequestStep(r)
        PROVE  Owns(s, b)'
    <2>1. StepKeeps(r)
      BY <1>0, <1>5, RequestStepKeeps
    <2>2. CASE lock[b] = s /\ s # r
      BY <1>3, <2>1, <2>2 DEF StepKeeps
    <2>3. CASE lock[b] = s /\ s = r
      BY <1>1, <1>2, <1>5, <2>3, OwnerSteps
    <2>4. CASE lock[b] # s
      <3>1. Acquire(r)
        BY <1>1, <1>2, <1>5, <2>4, LockMoves DEF ReleaseDel
      <3>2. /\ BurnOf(r) = b /\ s = r
            /\ \/ req' = [req EXCEPT ![r].pc = "locked"]
               \/ Answered(r, b, "internal", None)
        BY <1>1, <2>4, <3>1 DEF Acquire
      <3> QED
        BY <3>2 DEF Answered, Owns, Critical, BurnOf, RequestStates
    <2> QED
      BY <2>2, <2>3, <2>4
  <1>6. ASSUME NEW e \in Burns, ExpireLock(e)
        PROVE  Owns(s, b)'
    BY <1>1, <1>2, <1>3, <1>6 DEF ExpireLock
  <1>7. ASSUME NEW i \in Clients, KillInstance(i)
        PROVE  Owns(s, b)'
    <2>1. UNCHANGED lock
      BY <1>7 DEF KillInstance
    <2>2. \/ req'[s] = req[s]
          \/ req'[s].pc = "done" /\ req'[s].burn = req[s].burn /\ req'[s].answer = "killed"
      BY <1>7, KillMoves
    <2> QED
      BY <1>1, <1>2, <1>3, <2>1, <2>2 DEF Owns, Critical, BurnOf
  <1>8. CASE ChainStep /\ UNCHANGED <<call, store, req, record, lock>>
    BY <1>1, <1>3, <1>8
  <1> QED
    BY <1>4, <1>5, <1>6, <1>7, <1>8 DEF Next

\* A lock outlives its request only if that was killed or failed by Redis.
THEOREM LocksReleased == Spec => []LocksAreReleased
  <1>1. Init => OwnedInv
    BY DEF Init, OwnedInv
  <1>2. SettleInv /\ OwnedInv /\ [Next]_settleVars => OwnedInv'
    <2>1. OwnedInv /\ UNCHANGED settleVars => OwnedInv'
      BY DEF OwnedInv, Owns, Critical, BurnOf, settleVars
    <2> QED
      BY <2>1, OwnedStep
  <1>3. OwnedInv => LocksAreReleased
    BY DEF OwnedInv, Owns, LocksAreReleased
  <1> QED
    BY SettleInvCorrect, <1>1, <1>2, <1>3, PTL DEF Spec

\* While no lock expires under its holder, holders stay single.
LEMMA HeldStep ==
  ASSUME ~ EarlyExpiry, SettleInv, HeldInv, Next
  PROVE  HeldInv'
  <1> USE DEF SettleInv, TypeOK, HeldInv
  <1>0. ChainKeeps
    BY ReceiveSide
  <1>1. ASSUME NEW r \in Requests, NEW b \in Burns, NEW i \in Clients, Arrive(r, b, i)
        PROVE  HeldInv'
    <2>1. StepKeeps(r)
      BY <1>0, <1>1, ArriveKeeps
    <2>2. ~ Critical(r)'
      <3>1. CASE req' = [req EXCEPT ![r] = [NoRequest EXCEPT !.pc = "checked", !.burn = b,
                                                           !.inst = i]]
        BY <3>1 DEF NoRequest, Critical
      <3>2. ASSUME NEW answer, NEW t, Answered(r, b, answer, t) PROVE ~ Critical(r)'
        BY <3>2 DEF Answered, Critical
      <3> QED
        BY <1>1, <3>1, <3>2 DEF Arrive
    <2> QED
      BY <1>1, <2>1, <2>2 DEF Arrive, StepKeeps, Critical, BurnOf
  <1>2. ASSUME NEW r \in Requests, RequestStep(r) PROVE HeldInv'
    <2>1. StepKeeps(r)
      BY <1>0, <1>2, RequestStepKeeps
    <2>2. CASE UNCHANGED lock /\ (Critical(r)' => Critical(r) /\ req'[r].burn = req[r].burn)
      BY <2>1, <2>2 DEF StepKeeps, Critical, BurnOf
    <2>3. CASE Acquire(r) /\ ~ UNCHANGED lock
      <3>1. /\ BurnOf(r) \in Burns /\ lock[BurnOf(r)] = None
            /\ lock' = [lock EXCEPT ![BurnOf(r)] = r]
        BY <2>3 DEF Acquire, RequestInv
      <3>2. Critical(r)' => req'[r].burn = BurnOf(r)
        BY <2>3 DEF Acquire, Answered, Critical, BurnOf, RequestStates
      <3>3. \A s \in Requests \ {r} : Critical(s) => BurnOf(s) # BurnOf(r)
        BY <3>1, NoneAssumption DEF Requests
      <3> QED
        BY <2>1, <3>1, <3>2, <3>3 DEF StepKeeps, Critical, BurnOf
    <2>4. CASE Acquire(r) /\ UNCHANGED lock
      <3>1. ~ Critical(r)'
        BY <2>4, NoneAssumption DEF Acquire, Answered, Critical, RequestInv, Requests
      <3> QED
        BY <2>1, <2>4, <3>1 DEF StepKeeps, Critical, BurnOf
    <2>5. CASE ReleaseDel(r)
      <3>1. /\ BurnOf(r) \in Burns /\ lock[BurnOf(r)] = r /\ ~ Critical(r)'
            /\ \A b \in Burns \ {BurnOf(r)} : lock'[b] = lock[b]
        BY <2>5 DEF ReleaseDel, Released, ReleaseFailed, Answered, Critical, RequestInv
      <3>2. \A s \in Requests \ {r} : Critical(s) => BurnOf(s) # BurnOf(r)
        BY <3>1
      <3>3. \A s \in Requests : Critical(s) => BurnOf(s) \in Burns
        BY DEF Critical, RequestInv
      <3> QED
        BY <2>1, <3>1, <3>2, <3>3 DEF StepKeeps, Critical, BurnOf
    <2> QED
      BY <1>2, <2>2, <2>3, <2>4, <2>5, LockMoves
  <1>3. ASSUME NEW b \in Burns, ExpireLock(b) PROVE HeldInv'
    BY <1>3 DEF ExpireLock, Critical, BurnOf, RequestInv
  <1>4. ASSUME NEW i \in Clients, KillInstance(i) PROVE HeldInv'
    <2>1. ASSUME NEW r \in Requests, Critical(r)' PROVE req'[r] = req[r]
      BY <1>4, <2>1, KillMoves DEF Critical
    <2> QED
      BY <1>4, <2>1 DEF KillInstance, Critical, BurnOf
  <1>5. CASE ChainStep /\ UNCHANGED <<call, store, req, record, lock>>
    BY <1>5 DEF Critical, BurnOf
  <1> QED
    BY <1>1, <1>2, <1>3, <1>4, <1>5 DEF Next

\* A request that is still in receive() when its burn is settled got there too late to
\* send a mint: the ledger, and so the simulation, knows the nonce is used.
LateInv ==
  \A r \in Requests :
    req[r].pc = "receiving" /\ record[BurnOf(r)].status = "settled"
      => call[r].pc # "simulated" /\ ~ Sent(r)

\* The receipts are written by PersistSettled alone.
LEMMA RecordMoves ==
  ASSUME SettleInv, Next, NEW b \in Burns, record'[b] # record[b]
  PROVE  /\ UNCHANGED <<receiveVars, lock>>
         /\ \E r \in Requests :
              /\ b = BurnOf(r)
              /\ req'[r].pc = "releasing"
              /\ \A s \in Requests \ {r} : req'[s] = req[s]
              /\ \/ PersistSettled(r) /\ record'[b] = Settled(r)
                 \/ PersistUnconfirmed(r) /\ record'[b] = Submitted(r)
  <1> USE DEF SettleInv, TypeOK
  <1>1. PICK r \in Requests : PersistSettled(r) \/ PersistUnconfirmed(r)
    BY DEF Next, Arrive, RequestStep, Refuse, Acquire, Preflight, CallReceive, ReplayRefused,
           ReceiveFailed, ReleaseGet, ReleaseDel, ExpireLock, KillInstance
  <1>2. BurnOf(r) \in Burns
    BY <1>1 DEF PersistSettled, PersistUnconfirmed, Returned, RequestInv
  <1>3. CASE PersistSettled(r)
    <2>1. Settled(r) \in Records
      BY DEF Settled, Records, Requests
    <2> QED
      BY <1>2, <1>3, <2>1, PersistMoves DEF PersistSettled, Answers
  <1>4. CASE PersistUnconfirmed(r)
    <2>1. Submitted(r) \in Records
      BY DEF Submitted, Records, Requests
    <2> QED
      BY <1>2, <1>4, <2>1, PersistMoves DEF PersistUnconfirmed, Answers
  <1> QED
    BY <1>1, <1>3, <1>4

\* While a request is in receive(), only itself can settle its burn.
LEMMA SettlesItself ==
  ASSUME SettleInv, HeldInv, Next, NEW r \in Requests,
         req[r].pc = "receiving", req'[r].pc = "receiving",
         record'[BurnOf(r)].status = "settled"
  PROVE  record[BurnOf(r)].status = "settled"
  <1>1. BurnOf(r) \in Burns
    BY DEF SettleInv, RequestInv
  <1>2. SUFFICES ASSUME record'[BurnOf(r)] # record[BurnOf(r)] PROVE FALSE
    OBVIOUS
  <1>3. PICK s \in Requests :
          /\ BurnOf(r) = BurnOf(s)
          /\ req'[s].pc = "releasing"
          /\ PersistSettled(s) \/ PersistUnconfirmed(s)
    BY <1>1, <1>2, RecordMoves
  <1>4. Critical(r) /\ Critical(s)
    BY <1>3 DEF PersistSettled, PersistUnconfirmed, Returned, Critical
  <1> QED
    BY <1>3, <1>4 DEF HeldInv

\* Only CallReceive, and the call itself, leave a request in receive().
LEMMA LeavesReceive ==
  ASSUME req \in [Requests -> RequestStates], NEW r \in Requests, RequestStep(r),
         ~ CallReceive(r), ~ (CallStep(r) /\ UNCHANGED <<req, record, lock>>)
  PROVE  req'[r].pc # "receiving"
  <1>1. ASSUME NEW b, NEW answer, NEW t, Answered(r, b, answer, t)
        PROVE  req'[r].pc # "receiving"
    BY <1>1 DEF Answered
  <1>2. ASSUME NEW answer, NEW t, Releasing(r, answer, t)
        PROVE  req'[r].pc # "receiving"
    BY <1>2 DEF Releasing, RequestStates
  <1>3. ASSUME NEW stage, stage # "receiving", req' = [req EXCEPT ![r].pc = stage]
        PROVE  req'[r].pc # "receiving"
    BY <1>3 DEF RequestStates
  <1>4. CASE Refuse(r) \/ Preflight(r)
    BY <1>1, <1>2, <1>4 DEF Refuse, Preflight
  <1>5. CASE Acquire(r)
    BY <1>1, <1>3, <1>5 DEF Acquire
  <1>6. CASE PersistSettled(r) \/ PersistUnconfirmed(r)
    BY <1>2, <1>6 DEF PersistSettled, PersistUnconfirmed, Persist
  <1>7. CASE ReplayRefused(r)
    BY <1>2, <1>7 DEF ReplayRefused
  <1>8. CASE ReceiveFailed(r)
    BY <1>2, <1>8 DEF ReceiveFailed
  <1>9. CASE ReleaseGet(r)
    BY <1>1, <1>3, <1>9 DEF ReleaseGet, Released, ReleaseFailed
  <1>10. CASE ReleaseDel(r)
    BY <1>1, <1>10 DEF ReleaseDel, Released, ReleaseFailed
  <1> QED
    BY <1>4, <1>5, <1>6, <1>7, <1>8, <1>9, <1>10 DEF RequestStep

\* Whoever is in receive() for a settled burn stays too late to send.
LEMMA LateStep ==
  ASSUME SettleInv, HeldInv, LateInv, Next
  PROVE  LateInv'
  <1> USE DEF SettleInv, TypeOK, ReceiveTypeOK, Requests
  <1>0. ChainKeeps
    BY ReceiveSide
  <1>1. SUFFICES ASSUME NEW r \in Requests, req'[r].pc = "receiving",
                        record'[req'[r].burn].status = "settled"
                 PROVE  call'[r].pc # "simulated" /\ ~ Sent(r)'
    BY DEF LateInv, BurnOf
  <1>2. CASE CallReceive(r)
    <2>1. req[r].inst \in Clients /\ BurnOf(r) \in Burns
      BY <1>2 DEF CallReceive, RequestInv
    <2> QED
      BY <1>2, <2>1, BeginMoves DEF CallReceive, Sent
  <1>3. CASE CallStep(r) /\ UNCHANGED <<req, record, lock>>
    <2>1. /\ Live(r) /\ req[r].pc = "receiving" /\ call[r].burn = BurnOf(r)
          /\ BurnOf(r) \in Burns /\ record[BurnOf(r)].status = "settled"
      BY <1>1, <1>3, CallStepMoves DEF RequestInv, BurnOf
    <2>2. call[r].pc # "simulated" /\ ~ Sent(r)
      BY <2>1 DEF LateInv
    <2>3. Minted(call[r].burn)
      <3>1. record[BurnOf(r)] # NoRecord
        BY <2>1 DEF NoRecord
      <3> QED
        BY <2>1, <3>1 DEF DurableInv, Minted
    <2>4. CASE Prepare(r)
      BY <2>2, <2>4, GotoMoves, EndsMoves, ReceiveAssumption DEF Prepare, Sent
    <2>5. CASE Simulate(r)
      BY <2>3, <2>5, EndsMoves DEF Simulate, Sent
    <2>6. CASE SendRejected(r) \/ SendAccepted(r) \/ SendAnswerLost(r)
      BY <2>2, <2>6 DEF SendRejected, SendAccepted, SendAnswerLost
    <2>7. CASE ConfirmSeen(r) \/ ConfirmWindowElapses(r)
      BY <2>2, <2>7 DEF ConfirmSeen, ConfirmWindowElapses, Sent
    <2>8. CASE MarkSubmitted(r)
      BY <2>2, <2>8, GotoMoves DEF MarkSubmitted, Sent
    <2>9. CASE MarkSettled(r)
      BY <2>9, EndsMoves DEF MarkSettled, Sent
    <2>10. CASE PostMintFails(r)
      BY <2>10, EndsMoves DEF PostMintFails, Sent
    <2> QED
      BY <1>3, <2>4, <2>5, <2>6, <2>7, <2>8, <2>9, <2>10 DEF CallStep
  <1>4. CASE req'[r] = req[r] /\ call'[r] = call[r]
    <2>1. record[BurnOf(r)].status = "settled"
      BY <1>1, <1>4, SettlesItself DEF BurnOf
    <2> QED
      BY <1>1, <1>4, <2>1 DEF LateInv, Sent
  <1>5. ASSUME NEW s \in Requests, RequestStep(s)
        PROVE  call'[r].pc # "simulated" /\ ~ Sent(r)'
    <2>1. CASE s # r
      BY <1>0, <1>4, <1>5, <2>1, RequestStepKeeps DEF StepKeeps
    <2>2. CASE s = r
      <3>1. CASE CallReceive(r) \/ (CallStep(r) /\ UNCHANGED <<req, record, lock>>)
        BY <1>2, <1>3, <3>1
      <3>2. CASE ~ CallReceive(r) /\ ~ (CallStep(r) /\ UNCHANGED <<req, record, lock>>)
        <4>1. req'[r].pc # "receiving"
          BY <1>5, <2>2, <3>2, LeavesReceive
        <4> QED
          BY <1>1, <4>1
      <3> QED
        BY <3>1, <3>2
    <2> QED
      BY <2>1, <2>2
  <1>6. ASSUME NEW s \in Requests, NEW b \in Burns, NEW i \in Clients, Arrive(s, b, i)
        PROVE  call'[r].pc # "simulated" /\ ~ Sent(r)'
    <2>1. CASE s # r
      BY <1>0, <1>4, <1>6, <2>1, ArriveKeeps DEF StepKeeps
    <2>2. CASE s = r
      <3>1. req'[r].pc # "receiving"
        <4>1. CASE req' = [req EXCEPT ![r] = [NoRequest EXCEPT !.pc = "checked", !.burn = b,
                                                               !.inst = i]]
          BY <4>1 DEF NoRequest
        <4>2. ASSUME NEW answer, NEW t, Answered(r, b, answer, t)
              PROVE  req'[r].pc # "receiving"
          BY <4>2 DEF Answered
        <4> QED
          BY <1>6, <2>2, <4>1, <4>2 DEF Arrive
      <3> QED
        BY <1>1, <3>1
    <2> QED
      BY <2>1, <2>2
  <1>7. ASSUME NEW b \in Burns, ExpireLock(b)
        PROVE  call'[r].pc # "simulated" /\ ~ Sent(r)'
    BY <1>4, <1>7 DEF ExpireLock, receiveVars
  <1>8. ASSUME NEW i \in Clients, KillInstance(i)
        PROVE  call'[r].pc # "simulated" /\ ~ Sent(r)'
    <2>1. req[r].inst # i /\ req'[r] = req[r]
      BY <1>1, <1>8, KillMoves
    <2>2. call'[r] = call[r] \/ (call'[r].pc = "done" /\ call'[r].out = "Crashed")
      BY <1>8, CrashMoves DEF KillInstance
    <2> QED
      BY <1>4, <2>1, <2>2 DEF Sent
  <1>9. CASE ChainStep /\ UNCHANGED <<call, store, req, record, lock>>
    BY <1>4, <1>9
  <1> QED
    BY <1>5, <1>6, <1>7, <1>8, <1>9 DEF Next
-----------------------------------------------------------------------------
(***************************************************************************)
(* What the lock is for.                                                   *)
(***************************************************************************)
LockedInv == SettleInv /\ HeldInv /\ LateInv

\* The invariants that need the lock hold at the start.
LEMMA LockedInit == Init => LockedInv
  <1> SUFFICES ASSUME Init PROVE HeldInv /\ LateInv
    BY SettleInvInit DEF LockedInv
  <1> QED
    BY DEF Init, HeldInv, LateInv, Critical, NoRequest, Requests

\* Every step keeps them while no lock expires early.
LEMMA LockedStep ==
  ASSUME ~ EarlyExpiry
  PROVE  LockedInv /\ [Next]_settleVars => LockedInv'
  <1>1. LockedInv /\ Next => LockedInv'
    BY SettleInvStep, HeldStep, LateStep DEF LockedInv
  <1>2. LockedInv /\ UNCHANGED settleVars => LockedInv'
    <2>1. SettleInv /\ UNCHANGED settleVars => SettleInv'
      BY SettleInvStutter
    <2>2. HeldInv /\ UNCHANGED settleVars => HeldInv'
      BY DEF HeldInv, Critical, BurnOf, settleVars
    <2>3. LateInv /\ UNCHANGED settleVars => LateInv'
      BY DEF LateInv, BurnOf, Sent, settleVars
    <2> QED
      BY <2>1, <2>2, <2>3 DEF LockedInv
  <1> QED
    BY <1>1, <1>2

\* While a holder finishes within the lock's TTL, every request in its critical section
\* holds the lock of its burn, and one still in receive() for a settled burn can send nothing.
THEOREM LockedInvCorrect == ASSUME ~ EarlyExpiry PROVE Spec => []LockedInv
  BY LockedInit, LockedStep, PTL DEF Spec

\* While a holder finishes within the lock's TTL, a burn is settled by one request at a
\* time, on all instances together.
THEOREM LockExcludes == ASSUME ~ EarlyExpiry PROVE Spec => []SingleFlight
  <1>1. LockedInv => SingleFlight
    BY DEF LockedInv, HeldInv, SingleFlight, Critical
  <1> QED
    BY LockedInvCorrect, <1>1, PTL

\* A step that changes a record gives its burn a receipt it did not have, for the
\* transaction that credited it, or marks it as submitted without taking a receipt back.
LEMMA RecordStep ==
  ASSUME LockedInv, Next, NEW b \in Burns, record'[b] # record[b]
  PROVE  /\ record[b].status # "settled"
         /\ \/ record'[b].status = "submitted"
            \/ record'[b].status = "settled" /\ MintedBy(record'[b].tx, b)
         /\ record'[b].tx \in Requests
  <1> USE DEF LockedInv, SettleInv
  <1>1. PICK r \in Requests :
          /\ b = BurnOf(r)
          /\ \/ PersistSettled(r) /\ record'[b] = Settled(r)
             \/ PersistUnconfirmed(r) /\ record'[b] = Submitted(r)
    BY RecordMoves
  <1>2. req[r].pc = "receiving" /\ call[r].burn = b
    BY <1>1 DEF PersistSettled, PersistUnconfirmed, Returned, RequestInv
  <1>3. CASE PersistSettled(r) /\ record'[b] = Settled(r)
    <2>1. MintedBy(r, b)
      BY <1>2, <1>3 DEF PersistSettled, Returned, ReceiveInv, HoldsMint, Holds, Requests
    <2>2. ASSUME record[b].status = "settled" PROVE FALSE
      <3>1. record[b].tx = r
        BY <2>1, <2>2 DEF DurableInv, ReceiveInv, CreditOnce, Requests, NoRecord
      <3>2. record[b] = Settled(r)
        BY <2>2, <3>1 DEF TypeOK, Records, Settled
      <3> QED
        BY <1>3, <3>2
    <2> QED
      BY <1>3, <2>1, <2>2 DEF Settled
  <1>4. CASE PersistUnconfirmed(r) /\ record'[b] = Submitted(r)
    <2>1. Sent(r)
      BY <1>4 DEF PersistUnconfirmed, Returned, Sent
    <2> QED
      BY <1>1, <1>2, <1>4, <2>1 DEF LateInv, Submitted
  <1> QED
    BY <1>1, <1>3, <1>4

\* While a holder finishes within the lock's TTL, a settled receipt is permanent.
THEOREM ReceiptPermanent == ASSUME ~ EarlyExpiry PROVE Spec => SettledIsPermanent
  <1>1. LockedInv /\ [Next]_settleVars =>
          [\A b \in Burns : record[b].status = "settled" => record'[b] = record[b]]_settleVars
    BY RecordStep
  <1> QED
    BY LockedInvCorrect, <1>1, PTL DEF Spec, SettledIsPermanent
-----------------------------------------------------------------------------
(***************************************************************************)
(* Settle implements Settlement while the lock outlives its holders.       *)
(***************************************************************************)
LEMMA HandlersImplementInit == Init => HandlerSettlement!Init
  BY DEF Init, ReceiveInit, ChainInit, NoTx, HandlerSettlement!Init, CreditOf, Minted,
         MintedBy, ReceiptOf, NoRecord

\* A step that is not one of the network leaves every credit alone; one that is leaves
\* every record alone.
LEMMA CreditOrRecord ==
  ASSUME LockedInv, Next
  PROVE  \/ UNCHANGED tx
         \/ \A b \in Burns : record'[b] = record[b]
  BY RecordMoves DEF LockedInv, receiveVars

\* At most one burn gets its record changed.
LEMMA OneRecord ==
  ASSUME LockedInv, Next, NEW b \in Burns, NEW e \in Burns, b # e, record'[b] # record[b]
  PROVE  record'[e] = record[e]
  <1> USE DEF LockedInv, SettleInv
  <1>1. PICK r \in Requests :
          /\ b = BurnOf(r) /\ req[r].pc = "receiving" /\ req'[r].pc = "releasing"
    BY RecordMoves DEF PersistSettled, PersistUnconfirmed, Returned
  <1>2. SUFFICES ASSUME record'[e] # record[e] PROVE FALSE
    OBVIOUS
  <1>3. PICK s \in Requests :
          e = BurnOf(s) /\ \A o \in Requests \ {s} : req'[o] = req[o]
    BY <1>2, RecordMoves
  <1> QED
    BY <1>1, <1>3

\* Every step of the handlers is a step of Settlement or none.
LEMMA HandlersImplementStep ==
  ASSUME LockedInv, Next
  PROVE  [HandlerSettlement!Next]_HandlerSettlement!vars
  <1> USE DEF HandlerSettlement!vars
  <1>0. CreditIsMint
    BY CreditIs DEF LockedInv, SettleInv, ReceiveInv
  <1>1. UNCHANGED tx => \A b \in Burns : CreditOf(b)' = CreditOf(b)
    BY DEF CreditOf, Minted, MintedBy
  <1>2. \A b \in Burns : record'[b] = record[b] => ReceiptOf(b)' = ReceiptOf(b)
    BY DEF ReceiptOf
  <1>3. CASE /\ \A b \in Burns : CreditOf(b)' = CreditOf(b)
             /\ \A b \in Burns : ReceiptOf(b)' = ReceiptOf(b)
    BY <1>3
  <1>4. ASSUME \A b \in Burns : record'[b] = record[b], ReceiveNext
        PROVE  [HandlerSettlement!Next]_HandlerSettlement!vars
    <2>1. ASSUME NEW b \in Burns, NEW c \in Calls,
                 CreditOf(b) = None, CreditOf(b)' = c,
                 \A e \in Burns \ {b} : CreditOf(e)' = CreditOf(e)
          PROVE  HandlerSettlement!Credit(b, c)
      BY <1>2, <1>4, <2>1 DEF HandlerSettlement!Credit
    <2> QED
      BY <1>2, <1>3, <1>4, <2>1, CreditMoves
         DEF HandlerSettlement!Next, LockedInv, SettleInv
  <1>5. ASSUME UNCHANGED tx, NEW b \in Burns, record'[b] # record[b]
        PROVE  [HandlerSettlement!Next]_HandlerSettlement!vars
    <2>1. \A e \in Burns \ {b} : ReceiptOf(e)' = ReceiptOf(e)
      BY <1>2, <1>5, OneRecord
    <2>2. ReceiptOf(b) = None
      BY <1>5, RecordStep DEF ReceiptOf
    <2>3. CASE record'[b].status = "submitted"
      BY <1>1, <1>3, <1>5, <2>1, <2>2, <2>3 DEF ReceiptOf
    <2>4. CASE record'[b].status = "settled" /\ MintedBy(record'[b].tx, b)
      <3>1. CreditOf(b) = record'[b].tx /\ record'[b].tx # None
        BY <1>0, <1>5, <2>4, RecordStep, NoneAssumption DEF CreditIsMint, Requests
      <3>2. ReceiptOf(b)' = CreditOf(b)
        BY <2>4, <3>1 DEF ReceiptOf
      <3>3. HandlerSettlement!GiveReceipt(b)
        BY <1>1, <1>5, <2>1, <2>2, <3>1, <3>2 DEF HandlerSettlement!GiveReceipt
      <3> QED
        BY <3>3 DEF HandlerSettlement!Next
    <2> QED
      BY <1>5, <2>3, <2>4, RecordStep
  <1>6. ReceiveNext \/ UNCHANGED tx
    BY ReceiveSide DEF LockedInv, receiveVars
  <1> QED
    BY <1>1, <1>2, <1>3, <1>4, <1>5, <1>6, CreditOrRecord

\* While a holder finishes within the lock's TTL, the handlers implement Settlement:
\* kills, Redis failures, lost answers and any number of instances notwithstanding.
THEOREM HandlersImplement == ASSUME ~ EarlyExpiry PROVE Spec => SettleImplementsSettlement
  <1>1. UNCHANGED settleVars => UNCHANGED HandlerSettlement!vars
    BY DEF settleVars, HandlerSettlement!vars, CreditOf, Minted, MintedBy, ReceiptOf
  <1>2. LockedInv /\ [Next]_settleVars => [HandlerSettlement!Next]_HandlerSettlement!vars
    BY <1>1, HandlersImplementStep
  <1> QED
    BY HandlersImplementInit, LockedInvCorrect, <1>2, PTL
       DEF Spec, SettleImplementsSettlement, HandlerSettlement!Spec
=============================================================================
