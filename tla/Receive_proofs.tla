--------------------------- MODULE Receive_proofs ---------------------------
(***************************************************************************)
(* Proofs about Receive: for any number of burns, calls and processes.     *)
(***************************************************************************)
EXTENDS Receive, TLAPS

-----------------------------------------------------------------------------
\* The type invariant is inductive.
LEMMA TypeInit == ReceiveInit => ReceiveTypeOK
  BY ReceiveAssumption, NoneAssumption
     DEF ReceiveInit, ChainInit, ReceiveTypeOK, ChainTypeOK, NoTx, TxStates, Idle,
         NoRecord, Records, Stages, Outcomes, CallStates

\* A call that moves on is still a call.
LEMMA GotoType ==
  ASSUME NEW c \in Calls, NEW stage \in Stages, call \in [Calls -> CallStates],
         Goto(c, stage)
  PROVE  call' \in [Calls -> CallStates]
  <1>1. [call[c] EXCEPT !.pc = stage] \in CallStates
    BY DEF CallStates
  <1> QED
    BY <1>1 DEF Goto

\* A call that ends is still a call.
LEMMA EndsType ==
  ASSUME NEW c \in Calls, NEW outcome \in Outcomes, call \in [Calls -> CallStates],
         Ends(c, outcome)
  PROVE  call' \in [Calls -> CallStates]
  <1>1. [call[c] EXCEPT !.pc = "done", !.out = outcome, !.client = None, !.seq = 0]
          \in CallStates
    BY DEF CallStates, Stages
  <1> QED
    BY <1>1 DEF Ends

\* markProcessed writes a record.
LEMMA MarkType ==
  ASSUME NEW c \in Calls, NEW record \in Records, Mark(c, record),
         store \in [Stores -> [Burns -> Records]]
  PROVE  store' \in [Stores -> [Burns -> Records]]
  BY DEF Mark

\* A crash leaves calls and stores well typed.
LEMMA CrashType ==
  ASSUME NEW cl \in Clients, ReceiveTypeOK, CrashClient(cl)
  PROVE  ReceiveTypeOK'
  <1>1. ASSUME NEW c \in Calls
        PROVE  [call[c] EXCEPT !.pc = "done", !.out = "Crashed", !.client = None, !.seq = 0]
                 \in CallStates
    BY DEF ReceiveTypeOK, CallStates, Stages, Outcomes
  <1>2. call' \in [Calls -> CallStates]
    BY <1>1 DEF CrashClient, ReceiveTypeOK
  <1>3. [b \in Burns |-> NoRecord] \in [Burns -> Records]
    BY DEF NoRecord, Records
  <1>4. store' \in [Stores -> [Burns -> Records]]
    BY <1>3 DEF CrashClient, ReceiveTypeOK
  <1> QED
    BY <1>2, <1>4 DEF CrashClient, ReceiveTypeOK, ChainTypeOK, chainVars

\* A broadcast leaves the ledger well typed.
LEMMA BroadcastType ==
  ASSUME NEW c \in Calls, NEW b \in Burns \cup {None}, NEW n \in Nat, ChainTypeOK,
         Broadcast(c, b, n)
  PROVE  ChainTypeOK'
  BY DEF ChainTypeOK, Broadcast, TxStates

\* Every step of the SDK and of the network keeps the types.
LEMMA TypeStep == ReceiveTypeOK /\ ReceiveNext => ReceiveTypeOK'
  <1> SUFFICES ASSUME ReceiveTypeOK, ReceiveNext PROVE ReceiveTypeOK'
    OBVIOUS
  <1> USE DEF ReceiveTypeOK
  <1>1. ASSUME NEW c \in Calls, NEW cl \in Clients, NEW b \in Burns, Begin(c, cl, b)
        PROVE  ReceiveTypeOK'
    <2>1. /\ [Idle EXCEPT !.pc = "done", !.burn = b, !.out = "Replay"] \in CallStates
          /\ [Idle EXCEPT !.pc = "attesting", !.burn = b, !.client = cl, !.seq = sequence]
               \in CallStates
      BY DEF Idle, CallStates, Stages, Outcomes, ChainTypeOK
    <2> QED
      BY <1>1, <2>1 DEF Begin, ChainTypeOK, chainVars
  <1>2. ASSUME NEW c \in Calls, CallStep(c) PROVE ReceiveTypeOK'
    <2>0. /\ call[c] \in CallStates
          /\ call[c].burn \in Burns \cup {None}
          /\ call[c].seq \in Nat
      BY DEF CallStates
    <2>1. CASE Prepare(c)
      <3>1. call' \in [Calls -> CallStates]
        BY <2>1, GotoType, EndsType, ReceiveAssumption DEF Prepare, Stages, Outcomes
      <3> QED
        BY <2>1, <3>1 DEF Prepare, ChainTypeOK, chainVars
    <2>2. CASE Simulate(c)
      <3>1. call' \in [Calls -> CallStates]
        BY <2>2, GotoType, EndsType DEF Simulate, Stages, Outcomes
      <3> QED
        BY <2>2, <3>1 DEF Simulate, ChainTypeOK, chainVars
    <2>3. CASE SendRejected(c)
      <3>1. call' \in [Calls -> CallStates]
        BY <2>3, EndsType DEF SendRejected, Outcomes
      <3> QED
        BY <2>3, <3>1 DEF SendRejected, ChainTypeOK, chainVars
    <2>4. CASE SendAccepted(c)
      <3>1. ChainTypeOK'
        BY <2>4, <2>0, BroadcastType DEF SendAccepted
      <3>2. call' \in [Calls -> CallStates]
        BY <2>4, GotoType DEF SendAccepted, Stages
      <3> QED
        BY <2>4, <3>1, <3>2 DEF SendAccepted
    <2>5. CASE SendAnswerLost(c)
      <3>1. ChainTypeOK'
        BY <2>5, <2>0, BroadcastType DEF SendAnswerLost
      <3>2. call' \in [Calls -> CallStates]
        BY <2>5, EndsType DEF SendAnswerLost, Outcomes
      <3> QED
        BY <2>5, <3>1, <3>2 DEF SendAnswerLost
    <2>6. CASE ConfirmSeen(c)
      <3>1. call' \in [Calls -> CallStates]
        BY <2>6, GotoType, EndsType DEF ConfirmSeen, Stages, Outcomes
      <3> QED
        BY <2>6, <3>1 DEF ConfirmSeen, ChainTypeOK, chainVars
    <2>7. CASE ConfirmWindowElapses(c)
      <3>1. call' \in [Calls -> CallStates]
        BY <2>7, EndsType DEF ConfirmWindowElapses, Outcomes
      <3> QED
        BY <2>7, <3>1 DEF ConfirmWindowElapses, ChainTypeOK, chainVars
    <2>8. CASE MarkSubmitted(c)
      <3>1. call' \in [Calls -> CallStates]
        BY <2>8, GotoType DEF MarkSubmitted, Stages
      <3>2. store' \in [Stores -> [Burns -> Records]]
        BY <2>8, MarkType DEF MarkSubmitted, Submitted, Records
      <3> QED
        BY <2>8, <3>1, <3>2 DEF MarkSubmitted, ChainTypeOK, chainVars
    <2>9. CASE MarkSettled(c)
      <3>1. call' \in [Calls -> CallStates]
        BY <2>9, EndsType DEF MarkSettled, Outcomes
      <3>2. store' \in [Stores -> [Burns -> Records]]
        BY <2>9, MarkType DEF MarkSettled, Settled, Records
      <3> QED
        BY <2>9, <3>1, <3>2 DEF MarkSettled, ChainTypeOK, chainVars
    <2>10. CASE PostMintFails(c)
      <3>1. call' \in [Calls -> CallStates]
        BY <2>10, EndsType DEF PostMintFails, Outcomes
      <3> QED
        BY <2>10, <3>1 DEF PostMintFails, ChainTypeOK, chainVars
    <2> QED
      BY <1>2, <2>1, <2>2, <2>3, <2>4, <2>5, <2>6, <2>7, <2>8, <2>9, <2>10 DEF CallStep
  <1>3. ASSUME NEW cl \in Clients, CrashClient(cl) PROVE ReceiveTypeOK'
    BY <1>3, CrashType
  <1>4. CASE ChainStep /\ UNCHANGED <<call, store>>
    BY <1>4 DEF ChainStep, Apply, Expire, ChainTypeOK, TxStates
  <1> QED
    BY <1>1, <1>2, <1>3, <1>4 DEF ReceiveNext

\* Calls, records and transactions are always what receive() and the network make them.
THEOREM TypeCorrect == ReceiveSpec => []ReceiveTypeOK
  <1>1. ReceiveTypeOK /\ UNCHANGED receiveVars => ReceiveTypeOK'
    BY DEF ReceiveTypeOK, ChainTypeOK, receiveVars
  <1> QED
    BY TypeInit, TypeStep, <1>1, PTL DEF ReceiveSpec
-----------------------------------------------------------------------------
(***************************************************************************)
(* The inductive invariant.  What makes a settlement unique is the nonce on*)
(* the ledger (CreditOnce); what makes a receipt true is that a call holds *)
(* a mint only after it saw its own transaction succeed (HoldsMint).       *)
(***************************************************************************)
CreditOnce ==
  \A c, d \in Calls, b \in Burns : MintedBy(c, b) /\ MintedBy(d, b) => c = d

LiveCallsAreBound ==
  \A c \in Calls : Live(c) => call[c].burn \in Burns /\ call[c].client \in Clients

Sent(c) == call[c].pc = "confirming" \/ call[c].out = "MintUnconfirmed"

ConfirmsItsOwn ==
  \A c \in Calls : Sent(c) => tx[c].st # "none" /\ tx[c].burn = call[c].burn

Holds(c) == call[c].pc \in {"minted", "recorded"} \/ call[c].out = "settled"

HoldsMint ==
  \A c \in Calls : Holds(c) => call[c].burn \in Burns /\ MintedBy(c, call[c].burn)

SettledByDone ==
  \A s \in Stores, b \in Burns :
    store[s][b].status = "settled" => call[store[s][b].tx].pc = "done"

ReceiveInv ==
  /\ ReceiveTypeOK
  /\ CreditOnce
  /\ LiveCallsAreBound
  /\ ConfirmsItsOwn
  /\ HoldsMint
  /\ RecordsNameMints
  /\ SettledByDone
-----------------------------------------------------------------------------
\* What a step can do to the transactions.
LEMMA TxStep ==
  ASSUME ReceiveNext
  PROVE  \/ UNCHANGED tx
         \/ \E c \in Calls : SendAccepted(c) \/ SendAnswerLost(c)
         \/ UNCHANGED <<call, store>> /\ \E c \in Calls : Apply(c) \/ Expire(c)
  BY DEF ReceiveNext, CallStep, ChainStep, Begin, Prepare, Simulate, SendRejected,
         ConfirmSeen, ConfirmWindowElapses, MarkSubmitted, MarkSettled, PostMintFails,
         CrashClient, chainVars

\* A mint is final, no second one of its burn appears, and nothing that was sent is
\* ever unsent or redirected.
ChainKeeps ==
  /\ CreditOnce'
  /\ \A c \in Calls, b \in Burns : MintedBy(c, b) => MintedBy(c, b)'
  /\ \A c \in Calls : tx[c].st # "none" => tx'[c].st # "none" /\ tx'[c].burn = tx[c].burn

\* No step credits a burn twice or takes a credit back.
LEMMA CreditStep ==
  ASSUME ReceiveTypeOK, CreditOnce, ReceiveNext
  PROVE  ChainKeeps
  <1> USE DEF ChainKeeps, CreditOnce, MintedBy, ReceiveTypeOK, ChainTypeOK
  <1>1. CASE UNCHANGED tx
    BY <1>1
  <1>2. ASSUME NEW c \in Calls, SendAccepted(c) \/ SendAnswerLost(c) PROVE ChainKeeps
    <2>1. /\ tx[c].st = "none" /\ tx'[c].st = "pending"
          /\ \A d \in Calls \ {c} : tx'[d] = tx[d]
      BY <1>2 DEF SendAccepted, SendAnswerLost, Broadcast
    <2> QED
      BY <2>1
  <1>3. ASSUME NEW c \in Calls, Apply(c) PROVE ChainKeeps
    <2>1. /\ tx[c].st = "pending" /\ tx'[c].burn = tx[c].burn
          /\ \A d \in Calls \ {c} : tx'[d] = tx[d]
          /\ \/ tx'[c].st = "failed"
             \/ \A d \in Calls : ~ MintedBy(d, tx[c].burn)
      BY <1>3 DEF Apply, Minted
    <2>2. tx'[c].st \in {"success", "failed"}
      BY <1>3 DEF Apply
    <2> QED
      BY <2>1, <2>2
  <1>4. ASSUME NEW c \in Calls, Expire(c) PROVE ChainKeeps
    BY <1>4 DEF Expire
  <1> QED
    BY <1>1, <1>2, <1>3, <1>4, TxStep

\* What the two moves of a call change.
LEMMA GotoMoves ==
  ASSUME NEW c \in Calls, NEW stage, call \in [Calls -> CallStates], Goto(c, stage)
  PROVE  /\ \A d \in Calls \ {c} : call'[d] = call[d]
         /\ call'[c].pc = stage
         /\ call'[c].client = call[c].client
         /\ call'[c].burn = call[c].burn
         /\ call'[c].out = call[c].out
  BY DEF Goto, CallStates

\* What the end of a call changes, and what it leaves.
LEMMA EndsMoves ==
  ASSUME NEW c \in Calls, NEW outcome, call \in [Calls -> CallStates], Ends(c, outcome)
  PROVE  /\ \A d \in Calls \ {c} : call'[d] = call[d]
         /\ call'[c].pc = "done"
         /\ call'[c].burn = call[c].burn
         /\ call'[c].out = outcome
  BY DEF Ends, CallStates

\* A step of one call is a step of that call alone, and only while it lives.
LEMMA CallStepMoves ==
  ASSUME NEW c \in Calls, call \in [Calls -> CallStates], CallStep(c)
  PROVE  /\ Live(c)
         /\ call'[c].pc # "idle"
         /\ call'[c].burn = call[c].burn
         /\ \A d \in Calls \ {c} : call'[d] = call[d]
  BY GotoMoves, EndsMoves
     DEF CallStep, Live, Prepare, Simulate, SendRejected, SendAccepted, SendAnswerLost,
         ConfirmSeen, ConfirmWindowElapses, MarkSubmitted, MarkSettled, PostMintFails

\* What the guard lets through, and what it refuses.
LEMMA BeginMoves ==
  ASSUME NEW c \in Calls, NEW cl \in Clients, NEW b \in Burns,
         call \in [Calls -> CallStates], Begin(c, cl, b)
  PROVE  /\ call[c].pc = "idle"
         /\ \A d \in Calls \ {c} : call'[d] = call[d]
         /\ call'[c].burn = b
         /\ \/ /\ call'[c].pc = "done"
               /\ call'[c].out = "Replay"
               /\ store[StoreOf(cl)][b] # NoRecord
            \/ /\ call'[c].pc = "attesting"
               /\ call'[c].client = cl
               /\ call'[c].out = "none"
               /\ store[StoreOf(cl)][b] = NoRecord
  BY DEF Begin, Idle

\* A crash ends the calls of its own process and touches no other.
LEMMA CrashMoves ==
  ASSUME NEW cl \in Clients, call \in [Calls -> CallStates], CrashClient(cl),
         NEW c \in Calls
  PROVE  \/ call'[c] = call[c] /\ (call[c].client # cl \/ ~ Live(c))
         \/ /\ Live(c)
            /\ call[c].client = cl
            /\ call'[c].pc = "done"
            /\ call'[c].burn = call[c].burn
            /\ call'[c].out = "Crashed"
  BY DEF CrashClient, CallStates

\* A call that returned stays as it returned.
LEMMA DoneIsFinal ==
  ASSUME ReceiveTypeOK, ReceiveNext, NEW c \in Calls, call[c].pc = "done"
  PROVE  call'[c] = call[c]
  <1> USE DEF ReceiveTypeOK
  <1>1. ASSUME NEW d \in Calls, NEW cl \in Clients, NEW b \in Burns, Begin(d, cl, b)
        PROVE  call'[c] = call[c]
    BY <1>1, BeginMoves
  <1>2. ASSUME NEW d \in Calls, CallStep(d) PROVE call'[c] = call[c]
    BY <1>2, CallStepMoves DEF Live
  <1>3. ASSUME NEW cl \in Clients, CrashClient(cl) PROVE call'[c] = call[c]
    BY <1>3, CrashMoves DEF Live
  <1> QED
    BY <1>1, <1>2, <1>3 DEF ReceiveNext
-----------------------------------------------------------------------------
\* The parts of the invariant that speak of one call.
CallInv(c) ==
  /\ Live(c) => call[c].burn \in Burns /\ call[c].client \in Clients
  /\ Sent(c) => tx[c].st # "none" /\ tx[c].burn = call[c].burn
  /\ Holds(c) => call[c].burn \in Burns /\ MintedBy(c, call[c].burn)

\* A call that another step leaves alone keeps its part of the invariant.
LEMMA CallInvKept ==
  ASSUME NEW c \in Calls, CallInv(c), ChainKeeps, call'[c] = call[c]
  PROVE  CallInv(c)'
  BY DEF CallInv, ChainKeeps, Live, Holds, Sent

\* The steps of a call keep what holds of it.
LEMMA CallInvStep ==
  ASSUME NEW c \in Calls, ReceiveTypeOK, CallInv(c), ChainKeeps, CallStep(c)
  PROVE  CallInv(c)'
  <1> USE DEF ReceiveTypeOK, CallInv, Live, Holds, Sent
  <1>0. Live(c) /\ call'[c].burn = call[c].burn
    BY CallStepMoves
  <1>1. CASE call'[c].pc = "done" /\ call'[c].out \notin {"settled", "MintUnconfirmed"}
    BY <1>1
  <1>2. CASE Prepare(c)
    BY <1>0, <1>1, <1>2, GotoMoves, EndsMoves, ReceiveAssumption DEF Prepare, ChainKeeps
  <1>3. CASE Simulate(c)
    BY <1>0, <1>1, <1>3, GotoMoves, EndsMoves DEF Simulate, ChainKeeps
  <1>4. CASE SendRejected(c)
    BY <1>1, <1>4, EndsMoves DEF SendRejected
  <1>5. CASE SendAccepted(c)
    <2>1. tx'[c].st = "pending" /\ tx'[c].burn = call[c].burn
      BY <1>5 DEF SendAccepted, Broadcast, ChainTypeOK
    <2> QED
      BY <1>0, <1>5, <2>1, GotoMoves DEF SendAccepted, ChainKeeps
  <1>6. CASE SendAnswerLost(c)
    BY <1>1, <1>6, EndsMoves DEF SendAnswerLost
  <1>7. CASE ConfirmSeen(c)
    BY <1>0, <1>1, <1>7, GotoMoves, EndsMoves DEF ConfirmSeen, ChainKeeps, MintedBy, chainVars
  <1>8. CASE ConfirmWindowElapses(c)
    BY <1>0, <1>8, EndsMoves DEF ConfirmWindowElapses, ChainKeeps
  <1>9. CASE MarkSubmitted(c)
    BY <1>0, <1>9, GotoMoves DEF MarkSubmitted, ChainKeeps
  <1>10. CASE MarkSettled(c)
    BY <1>0, <1>10, EndsMoves DEF MarkSettled, ChainKeeps
  <1>11. CASE PostMintFails(c)
    BY <1>1, <1>11, EndsMoves DEF PostMintFails
  <1> QED
    BY <1>2, <1>3, <1>4, <1>5, <1>6, <1>7, <1>8, <1>9, <1>10, <1>11 DEF CallStep
-----------------------------------------------------------------------------
\* The parts of the invariant that speak of one record.
RecordInv(s, b) ==
  store[s][b] # NoRecord =>
    /\ store[s][b].tx \in Calls
    /\ MintedBy(store[s][b].tx, b)
    /\ store[s][b].status = "settled" => call[store[s][b].tx].pc = "done"

ReceiveInvParts ==
  /\ ReceiveTypeOK
  /\ CreditOnce
  /\ \A c \in Calls : CallInv(c)
  /\ \A s \in Stores, b \in Burns : RecordInv(s, b)

\* The invariant, call by call and record by record.
LEMMA PartsOfInv == ReceiveInv <=> ReceiveInvParts
  BY DEF ReceiveInv, ReceiveInvParts, LiveCallsAreBound, ConfirmsItsOwn, HoldsMint,
         RecordsNameMints, SettledByDone, CallInv, RecordInv, NoRecord

\* What a step can do to the records.
LEMMA StoreStep ==
  ASSUME ReceiveNext
  PROVE  \/ UNCHANGED store
         \/ \E c \in Calls : MarkSubmitted(c) \/ MarkSettled(c)
         \/ \E cl \in Clients : CrashClient(cl)
  BY DEF ReceiveNext, CallStep, ChainStep, Begin, Prepare, Simulate, SendRejected,
         SendAccepted, SendAnswerLost, ConfirmSeen, ConfirmWindowElapses, PostMintFails,
         chainVars

\* A record that a step leaves alone stays true.
LEMMA RecordInvKept ==
  ASSUME NEW s \in Stores, NEW b \in Burns, ReceiveTypeOK, ReceiveNext, ChainKeeps,
         RecordInv(s, b), store'[s][b] = store[s][b]
  PROVE  RecordInv(s, b)'
  BY DoneIsFinal DEF RecordInv, ChainKeeps

\* markProcessed writes the record of its own burn in its own store only.
LEMMA MarkWrites ==
  ASSUME NEW c \in Calls, NEW record, Mark(c, record), Live(c), CallInv(c),
         store \in [Stores -> [Burns -> Records]], NEW s \in Stores, NEW b \in Burns
  PROVE  \/ store'[s][b] = store[s][b]
         \/ /\ store'[s][b] = record
            /\ b = call[c].burn
            /\ s = StoreOf(call[c].client)
  BY DEF Mark, CallInv, Stores, StoreOf

\* What a record says stays true when any call or the network takes a step.
LEMMA RecordInvStep ==
  ASSUME ReceiveInvParts, ReceiveNext, ChainKeeps, NEW s \in Stores, NEW b \in Burns
  PROVE  RecordInv(s, b)'
  <1> USE DEF ReceiveInvParts, ReceiveTypeOK
  <1>1. CASE store'[s][b] = store[s][b]
    BY <1>1, RecordInvKept
  <1>2. ASSUME NEW c \in Calls, MarkSubmitted(c) PROVE RecordInv(s, b)'
    <2>1. \/ store'[s][b] = store[s][b]
          \/ store'[s][b] = Submitted(c) /\ b = call[c].burn
      BY <1>2, MarkWrites DEF MarkSubmitted, Live
    <2>2. tx'[c].st = "success" /\ tx'[c].burn = call[c].burn
      BY <1>2 DEF MarkSubmitted, CallInv, Holds, MintedBy, chainVars
    <2> QED
      BY <1>1, <2>1, <2>2 DEF RecordInv, Submitted, MintedBy
  <1>3. ASSUME NEW c \in Calls, MarkSettled(c) PROVE RecordInv(s, b)'
    <2>1. \/ store'[s][b] = store[s][b]
          \/ store'[s][b] = Settled(c) /\ b = call[c].burn
      BY <1>3, MarkWrites DEF MarkSettled, Live
    <2>2. tx'[c].st = "success" /\ tx'[c].burn = call[c].burn /\ call'[c].pc = "done"
      BY <1>3, EndsMoves DEF MarkSettled, CallInv, Holds, MintedBy, chainVars
    <2> QED
      BY <1>1, <2>1, <2>2 DEF RecordInv, Settled, MintedBy
  <1>4. ASSUME NEW cl \in Clients, CrashClient(cl) PROVE RecordInv(s, b)'
    <2>1. store'[s][b] \in {store[s][b], NoRecord}
      BY <1>4 DEF CrashClient
    <2> QED
      BY <1>1, <2>1 DEF RecordInv
  <1> QED
    BY <1>1, <1>2, <1>3, <1>4, StoreStep
-----------------------------------------------------------------------------
\* The invariant is inductive.
LEMMA InvInit == ReceiveInit => ReceiveInv
  <1> SUFFICES ASSUME ReceiveInit PROVE ReceiveInvParts
    BY PartsOfInv
  <1>1. ReceiveTypeOK
    BY TypeInit
  <1>2. CreditOnce
    BY DEF ReceiveInit, ChainInit, CreditOnce, MintedBy, NoTx
  <1>3. ASSUME NEW c \in Calls PROVE CallInv(c)
    BY DEF ReceiveInit, CallInv, Live, Holds, Sent, Idle
  <1>4. ASSUME NEW s \in Stores, NEW b \in Burns PROVE RecordInv(s, b)
    BY DEF ReceiveInit, RecordInv
  <1> QED
    BY <1>1, <1>2, <1>3, <1>4 DEF ReceiveInvParts

\* Every step keeps the invariant of receive().
LEMMA InvStep == ReceiveInv /\ ReceiveNext => ReceiveInv'
  <1>0. (ReceiveInv <=> ReceiveInvParts)'
    BY PartsOfInv, PTL
  <1> SUFFICES ASSUME ReceiveInvParts, ReceiveNext PROVE ReceiveInvParts'
    BY <1>0, PartsOfInv
  <1> USE DEF ReceiveInvParts
  <1>1. ReceiveTypeOK'
    BY TypeStep
  <1>2. ChainKeeps
    BY CreditStep
  <1>3. ASSUME NEW c \in Calls PROVE CallInv(c)'
    <2> USE DEF ReceiveTypeOK
    <2>1. CASE call'[c] = call[c]
      BY <1>2, <2>1, CallInvKept
    <2>2. ASSUME NEW d \in Calls, NEW cl \in Clients, NEW b \in Burns, Begin(d, cl, b)
          PROVE  CallInv(c)'
      BY <2>1, <2>2, BeginMoves DEF CallInv, Live, Holds, Sent
    <2>3. ASSUME NEW d \in Calls, CallStep(d) PROVE CallInv(c)'
      BY <1>2, <2>1, <2>3, CallStepMoves, CallInvStep
    <2>4. ASSUME NEW cl \in Clients, CrashClient(cl) PROVE CallInv(c)'
      BY <2>1, <2>4, CrashMoves DEF CallInv, Live, Holds, Sent
    <2>5. CASE ChainStep /\ UNCHANGED <<call, store>>
      BY <2>1, <2>5
    <2> QED
      BY <2>2, <2>3, <2>4, <2>5 DEF ReceiveNext
  <1>4. ASSUME NEW s \in Stores, NEW b \in Burns PROVE RecordInv(s, b)'
    BY <1>2, RecordInvStep
  <1>5. CreditOnce'
    BY <1>2 DEF ChainKeeps
  <1> QED
    BY <1>1, <1>3, <1>4, <1>5 DEF Stores

\* So does stuttering.
LEMMA InvStutter == ReceiveInv /\ UNCHANGED receiveVars => ReceiveInv'
  BY DEF ReceiveInv, ReceiveTypeOK, ChainTypeOK, CreditOnce, MintedBy, LiveCallsAreBound,
         Live, ConfirmsItsOwn, Sent, HoldsMint, Holds, RecordsNameMints, SettledByDone, receiveVars

\* The inductive invariant of receive() over the ledger: one credit a burn, a call holds a
\* mint only of its own transaction, and records name mints.
THEOREM InvCorrect == ReceiveSpec => []ReceiveInv
  BY InvInit, InvStep, InvStutter, PTL DEF ReceiveSpec

\* Every record in a replay store names a transaction that minted its burn.
THEOREM RecordsCorrect == ReceiveSpec => []RecordsNameMints
  <1>1. ReceiveInv => RecordsNameMints
    BY DEF ReceiveInv
  <1> QED
    BY InvCorrect, <1>1, PTL

\* At most one call settles a burn, however many pass the replay guard together.
THEOREM SettlementUnique == ReceiveSpec => []AtMostOneSettlement
  <1>1. ReceiveInv => AtMostOneSettlement
    BY DEF ReceiveInv, AtMostOneSettlement, SettlementsOf, HoldsMint, Holds, CreditOnce
  <1> QED
    BY InvCorrect, <1>1, PTL

RefusedInv ==
  \A c \in Calls : call[c].out = "Replay" => call[c].burn \in Burns /\ Minted(call[c].burn)

\* A call is refused only for a burn that is credited, and no credit is taken back.
LEMMA RefusedStep ==
  ASSUME ReceiveInv, RefusedInv, ReceiveNext
  PROVE  RefusedInv'
  <1> USE DEF ReceiveInv, ReceiveTypeOK
  <1>1. ASSUME NEW b \in Burns, Minted(b) PROVE Minted(b)'
    BY <1>1, CreditStep DEF ChainKeeps, Minted
  <1> SUFFICES ASSUME NEW c \in Calls, call'[c].out = "Replay"
               PROVE  call'[c].burn \in Burns /\ Minted(call[c].burn)'
    BY DEF RefusedInv
  <1>2. CASE call'[c].out = call[c].out /\ call'[c].burn = call[c].burn
    <2>1. call[c].burn \in Burns /\ Minted(call[c].burn)
      BY <1>2 DEF RefusedInv
    <2>2. PICK b \in Burns : b = call[c].burn
      BY <2>1
    <2> QED
      BY <1>1, <1>2, <2>1, <2>2 DEF Minted, MintedBy
  <1>3. ASSUME NEW d \in Calls, NEW cl \in Clients, NEW b \in Burns, Begin(d, cl, b), c = d
        PROVE  call'[c].burn \in Burns /\ Minted(call[c].burn)'
    <2>1. call'[c].burn = b /\ store[StoreOf(cl)][b] # NoRecord
      BY <1>3, BeginMoves
    <2>2. StoreOf(cl) \in Stores
      BY DEF StoreOf, Stores
    <2>3. Minted(b)
      BY <2>1, <2>2 DEF RecordsNameMints, Minted
    <2> QED
      BY <1>1, <2>1, <2>3 DEF Minted, MintedBy
  <1>4. ASSUME NEW d \in Calls, CallStep(d)
        PROVE  call'[c].out = call[c].out /\ call'[c].burn = call[c].burn
    <2>1. CASE d # c
      BY <1>4, <2>1, CallStepMoves
    <2>2. CASE d = c
      <3>1. call'[c].burn = call[c].burn
        BY <1>4, <2>2, CallStepMoves
      <3>2. ASSUME NEW stage, Goto(c, stage) PROVE call'[c].out = call[c].out
        BY <3>2, GotoMoves
      <3>3. ASSUME NEW outcome, Ends(c, outcome) PROVE outcome = "Replay"
        BY <3>3, EndsMoves
      <3> QED
        BY <1>4, <2>2, <3>1, <3>2, <3>3, ReceiveAssumption
           DEF CallStep, Prepare, Simulate, SendRejected, SendAccepted, SendAnswerLost,
               ConfirmSeen, ConfirmWindowElapses, MarkSubmitted, MarkSettled, PostMintFails
    <2> QED
      BY <2>1, <2>2
  <1>5. ASSUME NEW cl \in Clients, CrashClient(cl) PROVE call'[c] = call[c]
    BY <1>5, CrashMoves
  <1>6. ASSUME NEW d \in Calls, NEW cl \in Clients, NEW b \in Burns, Begin(d, cl, b), c # d
        PROVE  call'[c] = call[c]
    BY <1>6, BeginMoves
  <1> QED
    BY <1>2, <1>3, <1>4, <1>5, <1>6 DEF ReceiveNext, ChainStep

\* A call is turned away as a replay only after its burn was credited.
THEOREM RefusedCredited == ReceiveSpec => []RefusedIsCredited
  <1>1. ReceiveInit => RefusedInv
    BY DEF ReceiveInit, RefusedInv, Idle
  <1>2. ReceiveInv /\ RefusedInv /\ [ReceiveNext]_receiveVars => RefusedInv'
    <2>1. ReceiveInv /\ RefusedInv /\ ReceiveNext => RefusedInv'
      BY RefusedStep
    <2>2. RefusedInv /\ UNCHANGED receiveVars => RefusedInv'
      BY DEF RefusedInv, Minted, MintedBy, receiveVars
    <2> QED
      BY <2>1, <2>2
  <1>3. RefusedInv => RefusedIsCredited
    BY DEF RefusedInv, RefusedIsCredited
  <1> QED
    BY InvCorrect, <1>1, <1>2, <1>3, PTL DEF ReceiveSpec
-----------------------------------------------------------------------------
(***************************************************************************)
(* Receive implements Settlement.                                          *)
(***************************************************************************)
\* The credit of a burn is its only mint, if there is one.
CreditIsMint ==
  \A b \in Burns :
    /\ \A c \in Calls : MintedBy(c, b) => CreditOf(b) = c
    /\ ~ Minted(b) => CreditOf(b) = None

\* With one mint a burn, the credit is that mint.
LEMMA CreditIs == CreditOnce => CreditIsMint
  <1> SUFFICES ASSUME CreditOnce, NEW b \in Burns, NEW c \in Calls, MintedBy(c, b)
               PROVE  CreditOf(b) = c
    BY DEF CreditIsMint, CreditOf
  <1>1. Minted(b)
    BY DEF Minted
  <1>2. MintedBy(CHOOSE d \in Calls : MintedBy(d, b), b)
    OBVIOUS
  <1>3. (CHOOSE d \in Calls : MintedBy(d, b)) = c
    BY <1>2 DEF CreditOnce
  <1> QED
    BY <1>1, <1>3 DEF CreditOf

\* A step credits at most one burn, which was not credited before, and then does
\* nothing else.
LEMMA CreditMoves ==
  ASSUME ReceiveInv, ReceiveNext
  PROVE  \/ \A b \in Burns : CreditOf(b)' = CreditOf(b)
         \/ /\ UNCHANGED store
            /\ \E b \in Burns, c \in Calls :
                 /\ CreditOf(b) = None
                 /\ CreditOf(b)' = c
                 /\ \A e \in Burns \ {b} : CreditOf(e)' = CreditOf(e)
  <1>0. CreditOnce /\ ReceiveTypeOK /\ CreditIsMint
    BY CreditIs DEF ReceiveInv
  <1>1. CreditOnce'
    BY InvStep DEF ReceiveInv
  <1>2. CreditIsMint'
    BY <1>1, CreditIs, PTL
  <1>3. ASSUME NEW b \in Burns, \A c \in Calls : MintedBy(c, b)' <=> MintedBy(c, b)
        PROVE  CreditOf(b)' = CreditOf(b)
    BY <1>0, <1>2, <1>3 DEF CreditIsMint, Minted
  <1>4. CASE UNCHANGED tx
    BY <1>3, <1>4 DEF MintedBy
  <1>5. ASSUME NEW c \in Calls, SendAccepted(c) \/ SendAnswerLost(c),
               NEW b \in Burns
        PROVE  CreditOf(b)' = CreditOf(b)
    <2>1. /\ tx[c].st = "none" /\ tx'[c].st = "pending"
          /\ \A d \in Calls \ {c} : tx'[d] = tx[d]
      BY <1>0, <1>5 DEF SendAccepted, SendAnswerLost, Broadcast, ReceiveTypeOK, ChainTypeOK
    <2> QED
      BY <1>3, <2>1 DEF MintedBy
  <1>6. ASSUME NEW c \in Calls, Expire(c), NEW b \in Burns
        PROVE  CreditOf(b)' = CreditOf(b)
    <2>1. /\ tx[c].st = "pending" /\ tx'[c].st = "expired"
          /\ \A d \in Calls \ {c} : tx'[d] = tx[d]
      BY <1>0, <1>6 DEF Expire, ReceiveTypeOK, ChainTypeOK
    <2> QED
      BY <1>3, <2>1 DEF MintedBy
  <1>7. ASSUME NEW c \in Calls, Apply(c), NEW b \in Burns, b # tx[c].burn
        PROVE  CreditOf(b)' = CreditOf(b)
    BY <1>0, <1>3, <1>7 DEF Apply, MintedBy, ReceiveTypeOK, ChainTypeOK
  <1>8. ASSUME NEW c \in Calls, Apply(c), NEW b \in Burns, b = tx[c].burn
        PROVE  \/ CreditOf(b)' = CreditOf(b)
               \/ CreditOf(b) = None /\ CreditOf(b)' = c
    <2>1. CASE tx' = [tx EXCEPT ![c].st = "failed"]
      <3>1. tx[c].st = "pending"
        BY <1>8 DEF Apply
      <3> QED
        BY <1>0, <1>3, <2>1, <3>1 DEF MintedBy, ReceiveTypeOK, ChainTypeOK
    <2>2. CASE ~ Minted(b) /\ tx' = [tx EXCEPT ![c].st = "success"]
      <3>1. MintedBy(c, b)'
        BY <1>0, <1>8, <2>2 DEF MintedBy, ReceiveTypeOK, ChainTypeOK
      <3> QED
        BY <1>0, <1>2, <2>2, <3>1 DEF CreditIsMint
    <2> QED
      BY <1>8, <2>1, <2>2 DEF Apply
  <1>9. ASSUME NEW c \in Calls, Apply(c), ~ \A b \in Burns : CreditOf(b)' = CreditOf(b)
        PROVE  \E b \in Burns :
                 /\ CreditOf(b) = None
                 /\ CreditOf(b)' = c
                 /\ \A e \in Burns \ {b} : CreditOf(e)' = CreditOf(e)
    <2>1. PICK b \in Burns : CreditOf(b)' # CreditOf(b)
      BY <1>9
    <2>2. b = tx[c].burn
      BY <1>7, <1>9, <2>1
    <2>3. CreditOf(b) = None /\ CreditOf(b)' = c
      BY <1>8, <1>9, <2>1, <2>2
    <2>4. \A e \in Burns \ {b} : CreditOf(e)' = CreditOf(e)
      BY <1>7, <1>9, <2>2
    <2> QED
      BY <2>3, <2>4
  <1> QED
    BY <1>4, <1>5, <1>6, <1>9, TxStep

\* A step gives at most one receipt, of a burn that had none, for the transaction that
\* credited it; it credits no burn at the same time.
LEMMA ReceiptMoves ==
  ASSUME ReceiveInv, ReceiveNext
  PROVE  \/ \A b \in Burns : StoreReceiptOf(b)' = StoreReceiptOf(b)
         \/ /\ UNCHANGED tx
            /\ \E b \in Burns :
                 /\ StoreReceiptOf(b) = None
                 /\ CreditOf(b) # None
                 /\ StoreReceiptOf(b)' = CreditOf(b)
                 /\ \A e \in Burns \ {b} : StoreReceiptOf(e)' = StoreReceiptOf(e)
  <1> USE DEF StoreReceiptOf
  <1>0. ReceiveInvParts /\ CreditIsMint
    BY CreditIs, PartsOfInv DEF ReceiveInvParts
  <1>1. CASE UNCHANGED store \/ ~ SharedStore
    BY <1>1
  <1>2. ASSUME NEW cl \in Clients, CrashClient(cl)
        PROVE  \A b \in Burns : StoreReceiptOf(b)' = StoreReceiptOf(b)
    BY <1>2 DEF CrashClient
  <1>3. ASSUME NEW c \in Calls, MarkSubmitted(c) \/ MarkSettled(c), SharedStore
        PROVE  /\ call[c].burn \in Burns
               /\ CreditOf(call[c].burn) = c
               /\ StoreReceiptOf(call[c].burn) = None
               /\ \A b \in Burns \ {call[c].burn} : store'["shared"][b] = store["shared"][b]
    <2> DEFINE b == call[c].burn
    <2>1. call[c].pc \in {"minted", "recorded"}
      BY <1>3 DEF MarkSubmitted, MarkSettled
    <2>2. b \in Burns /\ MintedBy(c, b)
      BY <1>0, <2>1 DEF ReceiveInvParts, CallInv, Holds
    <2>3. CreditOf(b) = c
      BY <1>0, <2>2 DEF CreditIsMint
    <2>4. store["shared"][b].status # "settled"
      <3>1. SUFFICES ASSUME store["shared"][b].status = "settled" PROVE FALSE
        OBVIOUS
      <3>2. RecordInv("shared", b) /\ store["shared"][b] # NoRecord
        BY <1>0, <1>3, <2>2, <3>1 DEF ReceiveInvParts, Stores, NoRecord
      <3>3. store["shared"][b].tx = c
        BY <1>0, <2>2, <3>2 DEF RecordInv, ReceiveInvParts, CreditOnce
      <3> QED
        BY <2>1, <3>1, <3>2, <3>3 DEF RecordInv
    <2>5. \A e \in Burns \ {b} : store'["shared"][e] = store["shared"][e]
      BY <1>0, <1>3 DEF MarkSubmitted, MarkSettled, Mark, StoreOf, ReceiveInvParts,
                        ReceiveTypeOK, Stores
    <2> QED
      BY <2>2, <2>3, <2>4, <2>5
  <1>4. ASSUME NEW c \in Calls, MarkSubmitted(c), SharedStore
        PROVE  \A b \in Burns : StoreReceiptOf(b)' = StoreReceiptOf(b)
    <2>1. store'["shared"][call[c].burn] = Submitted(c)
      BY <1>0, <1>3, <1>4 DEF MarkSubmitted, Mark, StoreOf, ReceiveInvParts,
                              ReceiveTypeOK, Stores
    <2> QED
      BY <1>3, <1>4, <2>1 DEF Submitted
  <1>5. ASSUME NEW c \in Calls, MarkSettled(c), SharedStore
        PROVE  /\ UNCHANGED tx
               /\ \E b \in Burns :
                    /\ StoreReceiptOf(b) = None
                    /\ CreditOf(b) # None
                    /\ StoreReceiptOf(b)' = CreditOf(b)
                    /\ \A e \in Burns \ {b} : StoreReceiptOf(e)' = StoreReceiptOf(e)
    <2>1. store'["shared"][call[c].burn] = Settled(c)
      BY <1>0, <1>3, <1>5 DEF MarkSettled, Mark, StoreOf, ReceiveInvParts,
                              ReceiveTypeOK, Stores
    <2>2. PICK b \in Burns : b = call[c].burn
      BY <1>3, <1>5
    <2>3. StoreReceiptOf(b)' = c /\ CreditOf(b) = c /\ StoreReceiptOf(b) = None
      BY <1>3, <1>5, <2>1, <2>2 DEF Settled
    <2>4. \A e \in Burns \ {b} : StoreReceiptOf(e)' = StoreReceiptOf(e)
      BY <1>3, <1>5, <2>2
    <2>5. UNCHANGED tx
      BY <1>5 DEF MarkSettled, chainVars
    <2>6. c # None
      BY NoneAssumption
    <2> QED
      BY <2>3, <2>4, <2>5, <2>6
  <1> QED
    BY <1>1, <1>2, <1>4, <1>5, StoreStep

\* The SDK starts as Settlement starts.
LEMMA ImplementsInit == ReceiveInit => SdkSettlement!Init
  BY DEF ReceiveInit, ChainInit, NoTx, SdkSettlement!Init, CreditOf, Minted, MintedBy,
         StoreReceiptOf, NoRecord, Stores

\* Every step of the SDK is a step of Settlement or none.
LEMMA ImplementsStep ==
  ASSUME ReceiveInv, ReceiveNext
  PROVE  [SdkSettlement!Next]_SdkSettlement!vars
  <1> USE DEF SdkSettlement!vars
  <1>1. CASE /\ \A b \in Burns : CreditOf(b)' = CreditOf(b)
             /\ \A b \in Burns : StoreReceiptOf(b)' = StoreReceiptOf(b)
    BY <1>1
  <1>2. ASSUME UNCHANGED store, NEW b \in Burns, NEW c \in Calls,
               CreditOf(b) = None, CreditOf(b)' = c,
               \A e \in Burns \ {b} : CreditOf(e)' = CreditOf(e)
        PROVE  SdkSettlement!Credit(b, c)
    BY <1>2 DEF SdkSettlement!Credit, StoreReceiptOf
  <1>3. ASSUME UNCHANGED tx, NEW b \in Burns,
               StoreReceiptOf(b) = None, CreditOf(b) # None,
               StoreReceiptOf(b)' = CreditOf(b),
               \A e \in Burns \ {b} : StoreReceiptOf(e)' = StoreReceiptOf(e)
        PROVE  SdkSettlement!GiveReceipt(b)
    BY <1>3 DEF SdkSettlement!GiveReceipt, CreditOf, Minted, MintedBy
  <1>4. UNCHANGED store => \A b \in Burns : StoreReceiptOf(b)' = StoreReceiptOf(b)
    BY DEF StoreReceiptOf
  <1>5. UNCHANGED tx => \A b \in Burns : CreditOf(b)' = CreditOf(b)
    BY DEF CreditOf, Minted, MintedBy
  <1> QED
    BY <1>1, <1>2, <1>3, <1>4, <1>5, CreditMoves, ReceiptMoves DEF SdkSettlement!Next

\* The SDK implements Settlement: under any interleaving, lost answers and crashes, a
\* burn is credited once, and the receipts of a shared store are given only for that
\* credit and never change.
THEOREM Implements == ReceiveSpec => ReceiveImplementsSettlement
  <1>1. UNCHANGED receiveVars => UNCHANGED SdkSettlement!vars
    BY DEF receiveVars, SdkSettlement!vars, CreditOf, Minted, MintedBy, StoreReceiptOf
  <1>2. ReceiveInv /\ [ReceiveNext]_receiveVars => [SdkSettlement!Next]_SdkSettlement!vars
    BY <1>1, ImplementsStep
  <1> QED
    BY ImplementsInit, InvCorrect, <1>2, PTL
       DEF ReceiveSpec, ReceiveImplementsSettlement, SdkSettlement!Spec
=============================================================================
