----------------------------- MODULE Auto_proofs -----------------------------
(***************************************************************************)
(* Proofs about Auto: for any number of runs, burns, fees and payments.    *)
(***************************************************************************)
EXTENDS Auto, TLAPS

\* Where a run can be.
Stages == Critical \cup {"idle", "lock", "stat", "unlink", "create", "again", "done"}

\* Unless a lock file was stolen, a run past the lock is the one the file names.
HolderIsNamed ==
  ~ stolen => \A r \in Runs : Alive(r) => lock.there /\ lock.by = r

\* A run has an outcome only once it is on its way out.
OutAtEnd ==
  \A r \in Runs : run[r].out # "none" => run[r].pc \in {"release", "done"}

\* The steps in which a run works with the list it has read.
Listed == {"burn", "receipt", "account", "trustline", "receive", "after", "write"}

\* Nobody has written the list since the run that holds the lock read it.
SeenIsList ==
  ~ stolen => \A r \in Runs : run[r].pc \in Listed => run[r].seen = list

\* Only burns that landed are minted.
MintedIsBurnt == \A h \in Hashes : mintedBy[h] # NoRun => burns[h].st = "burnt"

\* The balance, while a run measures it, is what the run read, what it minted and what others
\* brought.
BalanceAdds ==
  \A r \in Runs :
    /\ run[r].pc \in Listed \ {"after", "write"} => run[r].credit = 0
    /\ Measuring(r) => balance = run[r].before + run[r].credit + run[r].others

\* A run that has minted, and one that has proved it.
Minter(r) == run[r].pc \in {"after", "write"} \/ run[r].out = "settled"

Prover(r) == run[r].pc = "write" \/ run[r].out = "settled"

\* A prover's mint is of its own burn.
MintIsOwn ==
  \A r \in Runs :
    /\ Minter(r) => run[r].hash \in Hashes /\ mintedBy[run[r].hash] = r
    /\ Prover(r) => \/ run[r].credit = Stroops(burns[run[r].hash].amount)
                    \/ run[r].others > 0

\* No burn is sent with a maxFee over its amount.
FeesFit == \A h \in Hashes : burns[h].maxFee <= burns[h].amount

\* The parts of the invariant beyond the types.
AutoFacts ==
  /\ HolderIsNamed
  /\ OutAtEnd
  /\ SeenIsList
  /\ NothingForgotten
  /\ MintedIsBurnt
  /\ FeesFit
  /\ BalanceAdds
  /\ MintIsOwn

\* The inductive invariant.
AutoInv == AutoTypeOK /\ AutoFacts
-----------------------------------------------------------------------------
(***************************************************************************)
(* How a step changes the runs.                                            *)
(***************************************************************************)
\* What a step may write into all of them.
LEMMA RunUpdates ==
  ASSUME AutoTypeOK, NEW r \in Runs
  PROVE  /\ \A pc \in Stages : Goto(r, pc) \in [Runs -> RunStates]
         /\ \A out \in {"locked", "failed", "crashed", "unproven"} :
              End(r, out) \in [Runs -> RunStates]
         /\ Thrown(r) \in [Runs -> RunStates]
         /\ \A amount \in Nat : Credited(amount) \in [Runs -> RunStates]
  <1> USE DEF AutoTypeOK, RunStates, Stages, Critical
  <1>1. NewRun \in RunStates
    BY DEF NewRun
  <1>2. \A pc \in Stages : Goto(r, pc) \in [Runs -> RunStates]
    BY DEF Goto
  <1>3. \A out \in {"locked", "failed", "crashed", "unproven"} :
          End(r, out) \in [Runs -> RunStates]
    BY <1>1 DEF End
  <1>4. Thrown(r) \in [Runs -> RunStates]
    BY <1>1 DEF Thrown
  <1>5. \A amount \in Nat : Credited(amount) \in [Runs -> RunStates]
    BY DEF Credited
  <1> QED
    BY <1>2, <1>3, <1>4, <1>5

\* What a step may write into one run.
LEMMA RunEdits ==
  ASSUME NEW v \in RunStates, NEW pc \in Stages, NEW h \in Hashes \cup {NoHash},
         NEW l \in SUBSET Hashes, NEW t \in BOOLEAN, NEW n \in Nat
  PROVE  /\ [v EXCEPT !.pc = pc, !.hash = h] \in RunStates
         /\ [v EXCEPT !.seen = l, !.pc = pc] \in RunStates
         /\ [v EXCEPT !.pc = pc, !.trusted = t, !.before = n, !.others = 0] \in RunStates
         /\ [v EXCEPT !.pc = pc, !.credit = n] \in RunStates
         /\ [v EXCEPT !.pc = pc, !.out = "settled", !.seen = {}, !.before = 0,
                      !.trusted = FALSE] \in RunStates
  <1> USE DEF RunStates
  <1>1. [v EXCEPT !.pc = pc, !.hash = h] \in RunStates
    BY DEF Stages
  <1>2. [v EXCEPT !.seen = l, !.pc = pc] \in RunStates
    BY DEF Stages
  <1>3. [v EXCEPT !.pc = pc, !.trusted = t, !.before = n, !.others = 0] \in RunStates
    BY DEF Stages
  <1>4. [v EXCEPT !.pc = pc, !.credit = n] \in RunStates
    BY DEF Stages
  <1>5. [v EXCEPT !.pc = pc, !.out = "settled", !.seen = {}, !.before = 0, !.trusted = FALSE]
          \in RunStates
    <2>1. [v EXCEPT !.pc = pc, !.out = "settled"] \in RunStates
      BY DEF Stages
    <2>2. ASSUME NEW w \in RunStates
          PROVE  [w EXCEPT !.seen = {}, !.before = 0, !.trusted = FALSE] \in RunStates
      OBVIOUS
    <2> QED
      BY <2>1, <2>2
  <1> QED
    BY <1>1, <1>2, <1>3, <1>4, <1>5

\* The steps by name.
LEMMA StageNames ==
  /\ {"idle", "lock", "stat", "unlink", "create", "again", "done"} \subseteq Stages
  /\ Critical \subseteq Stages
  /\ {"list", "burn", "receipt", "account", "trustline", "receive", "after", "write",
      "release"} \subseteq Stages
  BY DEF Stages, Critical

\* The file that is not there, and the one an earlier run left.
LEMMA LockTypes ==
  /\ NoLock \in [there : BOOLEAN, by : Runs \cup {NoRun}, stale : BOOLEAN]
  /\ [NoLock EXCEPT !.there = TRUE]
       \in [there : BOOLEAN, by : Runs \cup {NoRun}, stale : BOOLEAN]
  <1>1. NoLock \in [there : BOOLEAN, by : Runs \cup {NoRun}, stale : BOOLEAN]
    BY DEF NoLock
  <1> QED
    BY <1>1

\* A resolved fee is a number of units.
LEMMA FeesAreNumbers ==
  ASSUME NEW amount \in Nat, NEW quote \in Nat
  PROVE  ResolveMaxFee(amount, quote) \in Nat
  <1>1. (quote + 5) \div 10 \in Nat
    OBVIOUS
  <1>2. amount * ((quote + 5) \div 10) \in Nat
    BY <1>1
  <1> QED
    BY <1>2 DEF ResolveMaxFee

\* A maxFee is a number of units, the amount at most.
LEMMA MaxFeesType ==
  ASSUME NEW amount \in Amounts, NEW m \in MaxFees(amount)
  PROVE  m.quote \in Quotes \cup {NoQuote} /\ m.maxFee \in Nat /\ m.maxFee <= amount
  <1> amount \in Nat
    BY AutoAssumption
  <1>1. CASE \E q \in Quotes : m = [quote |-> q, maxFee |-> ResolveMaxFee(amount, q)]
    BY <1>1, FeesAreNumbers, AutoAssumption DEF MaxFees
  <1>2. CASE \E f \in OperatorFees : m = [quote |-> NoQuote, maxFee |-> f]
    BY <1>2, AutoAssumption DEF MaxFees
  <1> QED
    BY <1>1, <1>2 DEF MaxFees
-----------------------------------------------------------------------------
(***************************************************************************)
(* Type correctness.                                                       *)
(***************************************************************************)
\* The initial state.
LEMMA AutoInitType == AutoInit => AutoTypeOK
  <1> SUFFICES ASSUME AutoInit
               PROVE  AutoTypeOK
    OBVIOUS
  <1>1. lock \in [there : BOOLEAN, by : Runs \cup {NoRun}, stale : BOOLEAN]
    BY LockTypes DEF AutoInit
  <1>2. NoBurn \in BurnRecords
    BY DEF NoBurn, BurnRecords
  <1>3. NewRun \in RunStates
    BY DEF NewRun, RunStates
  <1> QED
    BY <1>1, <1>2, <1>3 DEF AutoInit, AutoTypeOK

\* A run that ends.
LEMMA EndingType ==
  ASSUME AutoTypeOK, NEW r \in Runs, Exit(r) \/ Throw(r) \/ Crash(r)
  PROVE  AutoTypeOK'
  BY RunUpdates DEF Exit, Throw, Crash, AutoTypeOK

\* A run about the lock file.
LEMMA LockingType ==
  ASSUME AutoTypeOK, NEW r \in Runs,
         \/ TryLock(r) \/ Stat(r) \/ Unlink(r) \/ CreateAfterUnlink(r) \/ CreateAgain(r)
         \/ Release(r)
  PROVE  AutoTypeOK'
  <1> "list" \in Stages /\ "stat" \in Stages /\ "again" \in Stages /\ "unlink" \in Stages
      /\ "create" \in Stages /\ "done" \in Stages
    BY DEF Stages, Critical
  <1>1. ASSUME Create(r)
        PROVE  run' \in [Runs -> RunStates]
               /\ lock' \in [there : BOOLEAN, by : Runs \cup {NoRun}, stale : BOOLEAN]
    BY <1>1, RunUpdates DEF Create
  <1>2. CASE TryLock(r)
    BY <1>1, <1>2, RunUpdates DEF TryLock, AutoTypeOK
  <1>3. CASE Stat(r)
    BY <1>3, RunUpdates DEF Stat, AutoTypeOK
  <1>4. CASE Unlink(r)
    BY <1>4, RunUpdates, LockTypes DEF Unlink, AutoTypeOK
  <1>5. CASE CreateAfterUnlink(r)
    BY <1>1, <1>5, RunUpdates DEF CreateAfterUnlink, AutoTypeOK
  <1>6. CASE CreateAgain(r)
    BY <1>1, <1>6, RunUpdates DEF CreateAgain, AutoTypeOK
  <1>7. CASE Release(r)
    BY <1>7, RunUpdates, LockTypes DEF Release, AutoTypeOK
  <1> QED
    BY <1>2, <1>3, <1>4, <1>5, <1>6, <1>7

\* A run that begins.
LEMMA BeginType ==
  ASSUME AutoTypeOK, NEW r \in Runs, NEW h \in Hashes \cup {NoHash}, Begin(r, h)
  PROVE  AutoTypeOK'
  <1>1. [run EXCEPT ![r].pc = "lock", ![r].hash = h] \in [Runs -> RunStates]
    <2>1. [run[r] EXCEPT !.pc = "lock", !.hash = h] \in RunStates
      BY RunEdits, StageNames DEF AutoTypeOK
    <2> QED
      BY <2>1 DEF AutoTypeOK
  <1> QED
    BY <1>1, RunUpdates DEF Begin, AutoTypeOK

\* A run that sends a burn.
LEMMA SendBurnType ==
  ASSUME AutoTypeOK, NEW r \in Runs, NEW h \in Hashes, NEW amount \in Amounts,
         SendBurn(r, h, amount)
  PROVE  AutoTypeOK'
  <1>1. run' \in [Runs -> RunStates]
    <2>1. [run[r] EXCEPT !.pc = "receipt", !.hash = h] \in RunStates
      BY RunEdits, StageNames DEF AutoTypeOK
    <2> QED
      BY <2>1 DEF SendBurn, AutoTypeOK
  <1>2. burns' \in [Hashes -> BurnRecords]
    <2>1. PICK m \in MaxFees(amount) : burns' = [burns EXCEPT ![h] =
            [st |-> "sent", amount |-> amount, quote |-> m.quote, maxFee |-> m.maxFee]]
      BY DEF SendBurn
    <2>2. [st |-> "sent", amount |-> amount, quote |-> m.quote, maxFee |-> m.maxFee]
            \in BurnRecords
      BY MaxFeesType, AutoAssumption DEF BurnRecords
    <2> QED
      BY <2>1, <2>2 DEF AutoTypeOK
  <1> QED
    BY <1>1, <1>2 DEF SendBurn, AutoTypeOK

\* A run that holds the lock.
LEMMA WorkingType ==
  ASSUME AutoTypeOK, MintIsOwn, NEW r \in Runs,
         \/ ReadList(r) \/ AwaitReceipt(r) \/ ReadAccount(r) \/ EnsureTrustline(r)
         \/ Prove(r) \/ WriteList(r)
  PROVE  AutoTypeOK'
  <1> "account" \in Stages /\ "receive" \in Stages /\ "write" \in Stages
    BY DEF Stages, Critical
  <1>1. CASE ReadList(r)
    <2>1. run[r] \in RunStates /\ list \in SUBSET Hashes
      BY DEF AutoTypeOK
    <2>2. \A pc \in Stages : [run[r] EXCEPT !.seen = list, !.pc = pc] \in RunStates
      BY <2>1, RunEdits
    <2>3. \A pc \in Stages : [run EXCEPT ![r].seen = list, ![r].pc = pc]
                               \in [Runs -> RunStates]
      BY <2>2 DEF AutoTypeOK
    <2> DEFINE next == IF run[r].hash = NoHash THEN "burn" ELSE "account"
    <2>4. next \in Stages
      BY StageNames
    <2>5. \/ run' = End(r, "failed")
          \/ run' = [run EXCEPT ![r].seen = list, ![r].pc = next]
      BY <1>1 DEF ReadList
    <2> HIDE DEF next
    <2>6. run' \in [Runs -> RunStates]
      <3>1. [run EXCEPT ![r].seen = list, ![r].pc = next] \in [Runs -> RunStates]
        BY <2>3, <2>4
      <3>2. End(r, "failed") \in [Runs -> RunStates]
        BY RunUpdates
      <3> QED
        BY <2>5, <3>1, <3>2
    <2> QED
      BY <1>1, <2>6 DEF ReadList, AutoTypeOK
  <1>2. CASE AwaitReceipt(r)
    BY <1>2, RunUpdates DEF AwaitReceipt, AutoTypeOK
  <1>3. CASE ReadAccount(r)
    <2>1. run' \in [Runs -> RunStates]
      <3>1. [run[r] EXCEPT !.pc = "trustline", !.trusted = trustline, !.before = balance,
                           !.others = 0] \in RunStates
        BY RunEdits, StageNames DEF AutoTypeOK
      <3> QED
        BY <1>3, <3>1 DEF ReadAccount, AutoTypeOK
    <2> QED
      BY <1>3, <2>1 DEF ReadAccount, AutoTypeOK
  <1>4. CASE EnsureTrustline(r)
    BY <1>4, RunUpdates DEF EnsureTrustline, AutoTypeOK, RunStates
  <1>5. CASE Prove(r)
    BY <1>5, RunUpdates DEF Prove, AutoTypeOK
  <1>6. CASE WriteList(r)
    <2>1. run' \in [Runs -> RunStates]
      <3>1. [run[r] EXCEPT !.pc = "release", !.out = "settled", !.seen = {}, !.before = 0,
                           !.trusted = FALSE] \in RunStates
        BY RunEdits, StageNames DEF AutoTypeOK
      <3> QED
        BY <1>6, <3>1 DEF WriteList, AutoTypeOK
    <2>2. run[r].hash \in Hashes
      BY <1>6 DEF WriteList, At, MintIsOwn, Minter
    <2>3. list' \in SUBSET Hashes
      BY <1>6, <2>2 DEF WriteList, AutoTypeOK, RunStates
    <2> QED
      BY <1>6, <2>1, <2>3 DEF WriteList, AutoTypeOK
  <1> QED
    BY <1>1, <1>2, <1>3, <1>4, <1>5, <1>6

\* A run that mints.
LEMMA MintType ==
  ASSUME AutoTypeOK, NEW r \in Runs, NEW fee \in Nat, run[r].hash \in Hashes,
         fee <= burns[run[r].hash].amount, Mint(r, fee)
  PROVE  AutoTypeOK'
  <1> DEFINE h == run[r].hash
             credit == Stroops(burns[h].amount - fee)
  <1>1. credit \in Nat
    <2>1. burns[h].amount \in Nat
      BY DEF AutoTypeOK, BurnRecords
    <2>2. burns[h].amount - fee \in Nat
      BY <2>1
    <2> QED
      BY <2>2 DEF Stroops
  <1>2. Credited(credit) \in [Runs -> RunStates] /\ Thrown(r) \in [Runs -> RunStates]
    BY <1>1, RunUpdates
  <1>3. [run[r] EXCEPT !.pc = "after", !.credit = credit] \in RunStates
    BY <1>1, RunEdits, StageNames, ZenonT(30) DEF AutoTypeOK
  <1>4. run' \in [Runs -> RunStates]
    BY <1>2, <1>3 DEF Mint
  <1>5. mintedBy' \in [Hashes -> Runs \cup {NoRun}] /\ balance' \in Nat
    BY <1>1 DEF Mint, AutoTypeOK
  <1> QED
    BY <1>4, <1>5 DEF Mint, AutoTypeOK

\* A step of nobody's.
LEMMA WorldType ==
  ASSUME AutoTypeOK,
         \/ LockAges
         \/ \E h \in Hashes : Lands(h)
         \/ \E p \in Payments : Pay(p)
  PROVE  AutoTypeOK'
  <1>1. CASE LockAges
    BY <1>1 DEF LockAges, AutoTypeOK
  <1>2. CASE \E h \in Hashes : Lands(h)
    BY <1>2 DEF Lands, AutoTypeOK, BurnRecords
  <1>3. ASSUME NEW p \in Payments, Pay(p)
        PROVE  AutoTypeOK'
    <2>1. p \in Nat
      BY AutoAssumption
    <2>2. Credited(p) \in [Runs -> RunStates]
      BY <2>1 DEF Credited, AutoTypeOK, RunStates
    <2> QED
      BY <1>3, <2>1, <2>2 DEF Pay, AutoTypeOK
  <1> QED
    BY <1>1, <1>2, <1>3
-----------------------------------------------------------------------------
(***************************************************************************)
(* What each step keeps.                                                   *)
(***************************************************************************)
\* A run that ends without a settlement.
LEMMA EndsKeep ==
  ASSUME AutoTypeOK, AutoFacts,
         NEW r \in Runs,
         NEW out \in {"locked", "failed", "crashed", "unproven"},
         run' = End(r, out),
         UNCHANGED <<lock, list, burns, mintedBy, trustline, balance, paid, stolen>>
  PROVE  AutoFacts'
  <1> USE AutoAssumption DEF AutoTypeOK, RunStates, AutoFacts
  <1>1. HolderIsNamed'
    BY DEF End, NewRun, HolderIsNamed, Alive, Critical
  <1>2. OutAtEnd'
    BY DEF End, NewRun, OutAtEnd
  <1>3. SeenIsList'
    BY DEF End, NewRun, SeenIsList, Listed, HolderIsNamed, Alive, Critical
  <1>4. NothingForgotten'
    BY DEF End, NewRun, NothingForgotten, SeenIsList, HolderIsNamed, Alive, Listed, Critical,
           OutAtEnd
  <1>5. MintedIsBurnt'
    BY DEF End, NewRun, MintedIsBurnt
  <1>6. FeesFit'
    BY DEF End, NewRun, FeesFit
  <1>7. BalanceAdds'
    BY DEF End, NewRun, BalanceAdds, Measuring, Listed
  <1>8. MintIsOwn'
    BY DEF End, NewRun, MintIsOwn, Minter, Prover, MintedIsBurnt, BalanceAdds, Measuring,
           Listed, OutAtEnd
  <1> QED
    BY <1>1, <1>2, <1>3, <1>4, <1>5, <1>6, <1>7, <1>8

\* An error on its way to `finally`.
LEMMA ThrowKeeps ==
  ASSUME AutoTypeOK, AutoFacts,
         NEW r \in Runs,
         Throw(r)
  PROVE  AutoFacts'
  <1> USE AutoAssumption DEF AutoTypeOK, RunStates, AutoFacts
  <1>1. HolderIsNamed'
    BY DEF Throw, Thrown, NewRun, Critical, HolderIsNamed, Alive
  <1>2. OutAtEnd'
    BY DEF Throw, Thrown, NewRun, Critical, OutAtEnd
  <1>3. SeenIsList'
    BY DEF Throw, Thrown, NewRun, Critical, SeenIsList, Listed, HolderIsNamed, Alive
  <1>4. NothingForgotten'
    BY DEF Throw, Thrown, NewRun, Critical, NothingForgotten, SeenIsList, HolderIsNamed, Alive,
           Listed, OutAtEnd
  <1>5. MintedIsBurnt'
    BY DEF Throw, Thrown, NewRun, Critical, MintedIsBurnt
  <1>6. FeesFit'
    BY DEF Throw, Thrown, NewRun, Critical, FeesFit
  <1>7. BalanceAdds'
    BY DEF Throw, Thrown, NewRun, Critical, BalanceAdds, Measuring, Listed
  <1>8. MintIsOwn'
    BY DEF Throw, Thrown, NewRun, Critical, MintIsOwn, Minter, Prover, MintedIsBurnt,
           BalanceAdds, Measuring, Listed, OutAtEnd
  <1> QED
    BY <1>1, <1>2, <1>3, <1>4, <1>5, <1>6, <1>7, <1>8

\* A run that waits for the lock.
LEMMA OutsideKeeps ==
  ASSUME AutoTypeOK, AutoFacts,
         NEW r \in Runs,
         run[r].pc \in {"lock", "stat", "unlink", "create", "again"},
         NEW pc \in {"stat", "unlink", "create", "again"},
         run' = Goto(r, pc),
         UNCHANGED <<lock, list, burns, mintedBy, trustline, balance, paid, stolen>>
  PROVE  AutoFacts'
  <1> USE AutoAssumption DEF AutoTypeOK, RunStates, AutoFacts
  <1>1. HolderIsNamed'
    BY DEF Goto, HolderIsNamed, Alive, Critical
  <1>2. OutAtEnd'
    BY DEF Goto, OutAtEnd
  <1>3. SeenIsList'
    BY DEF Goto, SeenIsList, Listed, HolderIsNamed, Alive, Critical
  <1>4. NothingForgotten'
    BY DEF Goto, NothingForgotten, SeenIsList, HolderIsNamed, Alive, Listed, Critical, OutAtEnd
  <1>5. MintedIsBurnt'
    BY DEF Goto, MintedIsBurnt
  <1>6. FeesFit'
    BY DEF Goto, FeesFit
  <1>7. BalanceAdds'
    BY DEF Goto, BalanceAdds, Measuring, Listed
  <1>8. MintIsOwn'
    BY DEF Goto, MintIsOwn, Minter, Prover, MintedIsBurnt, BalanceAdds, Measuring, Listed,
           OutAtEnd
  <1> QED
    BY <1>1, <1>2, <1>3, <1>4, <1>5, <1>6, <1>7, <1>8

\* A run that has checked its arguments.
LEMMA BeginKeeps ==
  ASSUME AutoTypeOK, AutoFacts,
         NEW r \in Runs,
         NEW h \in Hashes \cup {NoHash},
         At(r, "idle"),
         run' = [run EXCEPT ![r].pc = "lock", ![r].hash = h],
         UNCHANGED <<lock, list, burns, mintedBy, trustline, balance, paid, stolen>>
  PROVE  AutoFacts'
  <1> USE AutoAssumption DEF AutoTypeOK, RunStates, AutoFacts
  <1>1. HolderIsNamed'
    BY DEF At, HolderIsNamed, Alive, Critical
  <1>2. OutAtEnd'
    BY DEF At, OutAtEnd
  <1>3. SeenIsList'
    BY DEF At, SeenIsList, Listed, HolderIsNamed, Alive, Critical
  <1>4. NothingForgotten'
    BY DEF At, NothingForgotten, SeenIsList, HolderIsNamed, Alive, Listed, Critical, OutAtEnd
  <1>5. MintedIsBurnt'
    BY DEF At, MintedIsBurnt
  <1>6. FeesFit'
    BY DEF At, FeesFit
  <1>7. BalanceAdds'
    BY DEF At, BalanceAdds, Measuring, Listed
  <1>8. MintIsOwn'
    BY DEF At, MintIsOwn, Minter, Prover, MintedIsBurnt, BalanceAdds, Measuring, Listed,
           OutAtEnd
  <1> QED
    BY <1>1, <1>2, <1>3, <1>4, <1>5, <1>6, <1>7, <1>8

\* A run that creates the lock file.
LEMMA CreateKeeps ==
  ASSUME AutoTypeOK, AutoFacts,
         NEW r \in Runs,
         run[r].pc \in {"lock", "create", "again"},
         Create(r),
         UNCHANGED <<list, burns, mintedBy, trustline, balance, paid, stolen>>
  PROVE  AutoFacts'
  <1> USE AutoAssumption DEF AutoTypeOK, RunStates, AutoFacts
  <1>1. HolderIsNamed'
    BY DEF Create, Goto, HolderIsNamed, Alive, Critical
  <1>2. OutAtEnd'
    BY DEF Create, Goto, OutAtEnd
  <1>3. SeenIsList'
    BY DEF Create, Goto, SeenIsList, Listed, HolderIsNamed, Alive, Critical
  <1>4. NothingForgotten'
    BY DEF Create, Goto, NothingForgotten, SeenIsList, HolderIsNamed, Alive, Listed, Critical,
           OutAtEnd
  <1>5. MintedIsBurnt'
    BY DEF Create, Goto, MintedIsBurnt
  <1>6. FeesFit'
    BY DEF Create, Goto, FeesFit
  <1>7. BalanceAdds'
    BY DEF Create, Goto, BalanceAdds, Measuring, Listed
  <1>8. MintIsOwn'
    BY DEF Create, Goto, MintIsOwn, Minter, Prover, MintedIsBurnt, BalanceAdds, Measuring,
           Listed, OutAtEnd
  <1> QED
    BY <1>1, <1>2, <1>3, <1>4, <1>5, <1>6, <1>7, <1>8

\* A lock file removed as stale.
LEMMA UnlinkKeeps ==
  ASSUME AutoTypeOK, AutoFacts,
         NEW r \in Runs,
         At(r, "unlink"),
         lock.there,
         lock' = NoLock,
         stolen' = (stolen \/ (lock.by # NoRun /\ Alive(lock.by))),
         run' = Goto(r, "create"),
         UNCHANGED <<list, burns, mintedBy, trustline, balance, paid>>
  PROVE  AutoFacts'
  <1> USE AutoAssumption DEF AutoTypeOK, RunStates, AutoFacts
  <1>1. HolderIsNamed'
    BY DEF Goto, At, NoLock, HolderIsNamed, Alive, Critical
  <1>2. OutAtEnd'
    BY DEF Goto, At, NoLock, OutAtEnd
  <1>3. SeenIsList'
    BY DEF Goto, At, NoLock, SeenIsList, Listed, HolderIsNamed, Alive, Critical
  <1>4. NothingForgotten'
    BY DEF Goto, At, NoLock, NothingForgotten, SeenIsList, HolderIsNamed, Alive, Listed,
           Critical, OutAtEnd
  <1>5. MintedIsBurnt'
    BY DEF Goto, At, NoLock, MintedIsBurnt
  <1>6. FeesFit'
    BY DEF Goto, At, NoLock, FeesFit
  <1>7. BalanceAdds'
    BY DEF Goto, At, NoLock, BalanceAdds, Measuring, Listed
  <1>8. MintIsOwn'
    BY DEF Goto, At, NoLock, MintIsOwn, Minter, Prover, MintedIsBurnt, BalanceAdds, Measuring,
           Listed, OutAtEnd
  <1> QED
    BY <1>1, <1>2, <1>3, <1>4, <1>5, <1>6, <1>7, <1>8

\* The lock file removed by its run.
LEMMA ReleaseKeeps ==
  ASSUME AutoTypeOK, AutoFacts,
         NEW r \in Runs,
         Release(r)
  PROVE  AutoFacts'
  <1> USE AutoAssumption DEF AutoTypeOK, RunStates, AutoFacts
  <1>1. HolderIsNamed'
    BY DEF Release, Goto, At, NoLock, HolderIsNamed, Alive, Critical
  <1>2. OutAtEnd'
    BY DEF Release, Goto, At, NoLock, OutAtEnd
  <1>3. SeenIsList'
    BY DEF Release, Goto, At, NoLock, SeenIsList, Listed, HolderIsNamed, Alive, Critical
  <1>4. NothingForgotten'
    BY DEF Release, Goto, At, NoLock, NothingForgotten, SeenIsList, HolderIsNamed, Alive,
           Listed, Critical, OutAtEnd
  <1>5. MintedIsBurnt'
    BY DEF Release, Goto, At, NoLock, MintedIsBurnt
  <1>6. FeesFit'
    BY DEF Release, Goto, At, NoLock, FeesFit
  <1>7. BalanceAdds'
    BY DEF Release, Goto, At, NoLock, BalanceAdds, Measuring, Listed
  <1>8. MintIsOwn'
    BY DEF Release, Goto, At, NoLock, MintIsOwn, Minter, Prover, MintedIsBurnt, BalanceAdds,
           Measuring, Listed, OutAtEnd
  <1> QED
    BY <1>1, <1>2, <1>3, <1>4, <1>5, <1>6, <1>7, <1>8

\* The list is read.
LEMMA ReadListKeeps ==
  ASSUME AutoTypeOK, AutoFacts,
         NEW r \in Runs,
         At(r, "list"),
         NEW pc \in {"burn", "account"},
         run' = [run EXCEPT ![r].seen = list, ![r].pc = pc],
         UNCHANGED <<lock, list, burns, mintedBy, trustline, balance, paid, stolen>>
  PROVE  AutoFacts'
  <1> USE AutoAssumption DEF AutoTypeOK, RunStates, AutoFacts
  <1>1. HolderIsNamed'
    BY DEF At, HolderIsNamed, Alive, Critical
  <1>2. OutAtEnd'
    BY DEF At, OutAtEnd
  <1>3. SeenIsList'
    BY DEF At, SeenIsList, Listed, HolderIsNamed, Alive, Critical
  <1>4. NothingForgotten'
    BY DEF At, NothingForgotten, SeenIsList, HolderIsNamed, Alive, Listed, Critical, OutAtEnd
  <1>5. MintedIsBurnt'
    BY DEF At, MintedIsBurnt
  <1>6. FeesFit'
    BY DEF At, FeesFit
  <1>7. BalanceAdds'
    BY DEF At, BalanceAdds, Measuring, Listed
  <1>8. MintIsOwn'
    BY DEF At, MintIsOwn, Minter, Prover, MintedIsBurnt, BalanceAdds, Measuring, Listed,
           OutAtEnd
  <1> QED
    BY <1>1, <1>2, <1>3, <1>4, <1>5, <1>6, <1>7, <1>8

\* A burn is sent.
LEMMA SendBurnKeeps ==
  ASSUME AutoTypeOK, AutoFacts,
         NEW r \in Runs,
         NEW h \in Hashes,
         NEW amount \in Amounts,
         SendBurn(r, h, amount)
  PROVE  AutoFacts'
  <1> USE AutoAssumption DEF AutoTypeOK, RunStates, AutoFacts
  <1>1. HolderIsNamed'
    BY DEF SendBurn, At, Critical, HolderIsNamed, Alive
  <1>2. OutAtEnd'
    BY DEF SendBurn, At, Critical, OutAtEnd
  <1>3. SeenIsList'
    BY DEF SendBurn, At, Critical, SeenIsList, Listed, HolderIsNamed, Alive
  <1>4. NothingForgotten'
    BY DEF SendBurn, At, Critical, NothingForgotten, SeenIsList, HolderIsNamed, Alive, Listed,
           OutAtEnd
  <1>5. MintedIsBurnt'
    BY DEF SendBurn, At, Critical, MintedIsBurnt
  <1>6. FeesFit'
    BY MaxFeesType DEF SendBurn, At, Critical, FeesFit
  <1>7. BalanceAdds'
    BY DEF SendBurn, At, Critical, BalanceAdds, Measuring, Listed
  <1>8. MintIsOwn'
    BY DEF SendBurn, At, Critical, MintIsOwn, Minter, Prover, MintedIsBurnt, BalanceAdds,
           Measuring, Listed, OutAtEnd
  <1> QED
    BY <1>1, <1>2, <1>3, <1>4, <1>5, <1>6, <1>7, <1>8

\* The receipt of the burn is there.
LEMMA ReceiptKeeps ==
  ASSUME AutoTypeOK, AutoFacts,
         NEW r \in Runs,
         At(r, "receipt"),
         run' = Goto(r, "account"),
         UNCHANGED <<lock, list, burns, mintedBy, trustline, balance, paid, stolen>>
  PROVE  AutoFacts'
  <1> USE AutoAssumption DEF AutoTypeOK, RunStates, AutoFacts
  <1>1. HolderIsNamed'
    BY DEF Goto, At, HolderIsNamed, Alive, Critical
  <1>2. OutAtEnd'
    BY DEF Goto, At, OutAtEnd
  <1>3. SeenIsList'
    BY DEF Goto, At, SeenIsList, Listed, HolderIsNamed, Alive, Critical
  <1>4. NothingForgotten'
    BY DEF Goto, At, NothingForgotten, SeenIsList, HolderIsNamed, Alive, Listed, Critical,
           OutAtEnd
  <1>5. MintedIsBurnt'
    BY DEF Goto, At, MintedIsBurnt
  <1>6. FeesFit'
    BY DEF Goto, At, FeesFit
  <1>7. BalanceAdds'
    BY DEF Goto, At, BalanceAdds, Measuring, Listed
  <1>8. MintIsOwn'
    BY DEF Goto, At, MintIsOwn, Minter, Prover, MintedIsBurnt, BalanceAdds, Measuring, Listed,
           OutAtEnd
  <1> QED
    BY <1>1, <1>2, <1>3, <1>4, <1>5, <1>6, <1>7, <1>8

\* The balance before the mint is read.
LEMMA ReadAccountKeeps ==
  ASSUME AutoTypeOK, AutoFacts,
         NEW r \in Runs,
         ReadAccount(r)
  PROVE  AutoFacts'
  <1> USE AutoAssumption DEF AutoTypeOK, RunStates, AutoFacts
  <1>1. HolderIsNamed'
    BY DEF ReadAccount, At, Critical, HolderIsNamed, Alive
  <1>2. OutAtEnd'
    BY DEF ReadAccount, At, Critical, OutAtEnd
  <1>3. SeenIsList'
    BY DEF ReadAccount, At, Critical, SeenIsList, Listed, HolderIsNamed, Alive
  <1>4. NothingForgotten'
    BY DEF ReadAccount, At, Critical, NothingForgotten, SeenIsList, HolderIsNamed, Alive,
           Listed, OutAtEnd
  <1>5. MintedIsBurnt'
    BY DEF ReadAccount, At, Critical, MintedIsBurnt
  <1>6. FeesFit'
    BY DEF ReadAccount, At, Critical, FeesFit
  <1>7. BalanceAdds'
    BY DEF ReadAccount, At, Critical, BalanceAdds, Measuring, Listed
  <1>8. MintIsOwn'
    BY DEF ReadAccount, At, Critical, MintIsOwn, Minter, Prover, MintedIsBurnt, BalanceAdds,
           Measuring, Listed, OutAtEnd
  <1> QED
    BY <1>1, <1>2, <1>3, <1>4, <1>5, <1>6, <1>7, <1>8

\* The trustline is created, if it was missing.
LEMMA EnsureTrustlineKeeps ==
  ASSUME AutoTypeOK, AutoFacts,
         NEW r \in Runs,
         EnsureTrustline(r)
  PROVE  AutoFacts'
  <1> USE AutoAssumption DEF AutoTypeOK, RunStates, AutoFacts
  <1>1. HolderIsNamed'
    BY DEF EnsureTrustline, Goto, At, Critical, HolderIsNamed, Alive
  <1>2. OutAtEnd'
    BY DEF EnsureTrustline, Goto, At, Critical, OutAtEnd
  <1>3. SeenIsList'
    BY DEF EnsureTrustline, Goto, At, Critical, SeenIsList, Listed, HolderIsNamed, Alive
  <1>4. NothingForgotten'
    BY DEF EnsureTrustline, Goto, At, Critical, NothingForgotten, SeenIsList, HolderIsNamed,
           Alive, Listed, OutAtEnd
  <1>5. MintedIsBurnt'
    BY DEF EnsureTrustline, Goto, At, Critical, MintedIsBurnt
  <1>6. FeesFit'
    BY DEF EnsureTrustline, Goto, At, Critical, FeesFit
  <1>7. BalanceAdds'
    BY DEF EnsureTrustline, Goto, At, Critical, BalanceAdds, Measuring, Listed
  <1>8. MintIsOwn'
    BY DEF EnsureTrustline, Goto, At, Critical, MintIsOwn, Minter, Prover, MintedIsBurnt,
           BalanceAdds, Measuring, Listed, OutAtEnd
  <1> QED
    BY <1>1, <1>2, <1>3, <1>4, <1>5, <1>6, <1>7, <1>8

\* What a credit changes in a run.
LEMMA CreditedFields ==
  ASSUME run \in [Runs -> RunStates], NEW q \in Runs, NEW credit \in Nat
  PROVE  LET w == Credited(credit)[q] IN
         /\ w.pc = run[q].pc /\ w.credit = run[q].credit
         /\ w.hash = run[q].hash /\ w.out = run[q].out
         /\ w.others = run[q].others \/ w.others = run[q].others + credit
  BY DEF RunStates, Credited

\* The mint of a receive() that returns, as Mint writes it into the runs.
MintReturns(r, credit) ==
  run' = [Credited(credit) EXCEPT ![r] = [run[r] EXCEPT !.pc = "after", !.credit = credit]]

\* What a mint whose receive() returns writes into its own run, and into the others.
LEMMA MintedRuns ==
  ASSUME run \in [Runs -> RunStates], NEW r \in Runs, NEW credit \in Nat,
         MintReturns(r, credit)
  PROVE  /\ run'[r].pc = "after" /\ run'[r].credit = credit
         /\ run'[r].hash = run[r].hash /\ run'[r].out = run[r].out
         /\ run'[r].before = run[r].before /\ run'[r].others = run[r].others
         /\ \A q \in Runs \ {r} :
              /\ run'[q].pc = run[q].pc /\ run'[q].credit = run[q].credit
              /\ run'[q].hash = run[q].hash /\ run'[q].out = run[q].out
              /\ run'[q].before = run[q].before
              /\ Measuring(q) => run'[q].others = run[q].others + credit
              /\ ~ Measuring(q) => run'[q].others = run[q].others
  BY DEF MintReturns, RunStates, Credited

\* A mint whose receive() returns.
LEMMA MintKeeps ==
  ASSUME AutoTypeOK, AutoFacts,
         NEW r \in Runs,
         NEW fee \in Nat,
         fee <= burns[run[r].hash].amount,
         Mint(r, fee),
         MintReturns(r, Stroops(burns[run[r].hash].amount - fee)),
         run[r].hash \in Hashes
  PROVE  AutoFacts'
  <1> USE AutoAssumption DEF AutoTypeOK, RunStates, AutoFacts
  <1> DEFINE h == run[r].hash
             credit == Stroops(burns[h].amount - fee)
  <1>a. credit \in Nat
    <2>1. burns[h].amount \in Nat
      BY DEF BurnRecords
    <2>2. burns[h].amount - fee \in Nat
      BY <2>1
    <2> QED
      BY <2>2 DEF Stroops
  <1>b. /\ run'[r].pc = "after" /\ run'[r].credit = credit /\ run'[r].hash = h
        /\ run'[r].out = run[r].out /\ run'[r].before = run[r].before
        /\ run'[r].others = run[r].others
    BY <1>a, MintedRuns
  <1>c. ASSUME NEW q \in Runs, q # r
        PROVE  /\ run'[q].pc = run[q].pc /\ run'[q].credit = run[q].credit
               /\ run'[q].hash = run[q].hash /\ run'[q].out = run[q].out
               /\ run'[q].before = run[q].before
               /\ Measuring(q) => run'[q].others = run[q].others + credit
               /\ ~ Measuring(q) => run'[q].others = run[q].others
    BY <1>a, <1>c, MintedRuns
  <1>d. /\ balance' = balance + credit /\ run[r].pc = "receive" /\ mintedBy[h] = NoRun
        /\ mintedBy' = [mintedBy EXCEPT ![h] = r] /\ burns' = burns
    BY DEF Mint, At
  <1>e. balance \in Nat /\ \A q \in Runs : run[q] \in RunStates
    OBVIOUS
  <1>f. \A q \in Runs : run[q].before \in Nat /\ run[q].credit \in Nat /\ run[q].others \in Nat
    OBVIOUS
  <1>1. HolderIsNamed'
    BY DEF MintReturns, Mint, Credited, At, Critical, Measuring, Stroops, BurnRecords,
           HolderIsNamed, Alive
  <1>2. OutAtEnd'
    BY SMTT(20) DEF MintReturns, Mint, Credited, At, Critical, Measuring, Stroops, BurnRecords, OutAtEnd
  <1>3. SeenIsList'
    BY SMTT(20) DEF MintReturns, Mint, Credited, At, Critical, Measuring, Stroops, BurnRecords,
           SeenIsList, Listed,
           HolderIsNamed, Alive
  <1>4. NothingForgotten'
    BY SMTT(20) DEF MintReturns, Mint, Credited, At, Critical, Measuring, Stroops, BurnRecords,
           NothingForgotten,
           SeenIsList, HolderIsNamed, Alive, Listed, OutAtEnd
  <1>5. MintedIsBurnt'
    BY DEF MintReturns, Mint, Credited, At, Critical, Measuring, Stroops, BurnRecords,
           MintedIsBurnt
  <1>6. FeesFit'
    BY DEF MintReturns, Mint, Credited, At, Critical, Measuring, Stroops, BurnRecords, FeesFit
  <1>7. BalanceAdds'
    <2> SUFFICES ASSUME NEW q \in Runs
                 PROVE  /\ run'[q].pc \in Listed \ {"after", "write"} => run'[q].credit = 0
                        /\ Measuring(q)' => balance' = run'[q].before + run'[q].credit
                                                        + run'[q].others
      BY DEF BalanceAdds
    <2>1. balance = run[r].before + run[r].others
      BY <1>d, <1>f DEF BalanceAdds, Measuring, Listed
    <2>2. CASE q = r
      <3> HIDE DEF credit, h
      <3>1. balance' = run'[r].before + run'[r].credit + run'[r].others
        BY <1>a, <1>b, <1>d, <1>f, <2>1
      <3> QED
        BY <1>b, <2>2, <3>1
    <2>3. CASE q # r
      <3>1. Measuring(q)' <=> Measuring(q)
        BY <1>c, <2>3 DEF Measuring
      <3> HIDE DEF credit, h
      <3>2. Measuring(q) => balance' = run'[q].before + run'[q].credit + run'[q].others
        BY <1>a, <1>c, <1>d, <1>e, <1>f, <2>3 DEF BalanceAdds
      <3>3. run'[q].pc \in Listed \ {"after", "write"} => run'[q].credit = 0
        BY <1>c, <2>3 DEF BalanceAdds
      <3> QED
        BY <3>1, <3>2, <3>3
    <2> QED
      BY <2>2, <2>3
  <1>8. MintIsOwn'
    <2> SUFFICES ASSUME NEW q \in Runs
                 PROVE  /\ Minter(q)' => run'[q].hash \in Hashes /\ mintedBy'[run'[q].hash] = q
                        /\ Prover(q)' => \/ run'[q].credit = Stroops(burns'[run'[q].hash].amount)
                                         \/ run'[q].others > 0
      BY DEF MintIsOwn
    <2>1. CASE q = r
      <3>1. Minter(r)' /\ ~ Prover(r)'
        BY <1>b, <1>d DEF Minter, Prover, OutAtEnd
      <3> QED
        BY <1>b, <1>d, <2>1, <3>1
    <2>2. CASE q # r
      <3>1. (Minter(q)' <=> Minter(q)) /\ (Prover(q)' <=> Prover(q))
        BY <1>c, <2>2 DEF Minter, Prover
      <3>2. Minter(q) => run[q].hash \in Hashes /\ mintedBy[run[q].hash] = q
        BY DEF MintIsOwn
      <3>3. Minter(q) => run'[q].hash # h
        BY <1>c, <1>d, <2>2, <3>2
      <3>4. run'[q].others >= run[q].others
        <4> HIDE DEF credit
        <4> QED
          BY <1>a, <1>c, <1>f, <2>2
      <3>5. Prover(q) => run[q].credit = Stroops(burns[run[q].hash].amount) \/ run[q].others > 0
        BY DEF MintIsOwn
      <3>6. Prover(q)' => \/ run'[q].credit = Stroops(burns'[run'[q].hash].amount)
                         \/ run'[q].others > 0
        <4> HIDE DEF credit
        <4>1. run'[q].others \in Nat
          BY <1>a, <1>c, <1>f, <2>2
        <4>2. run[q].others > 0 => run'[q].others > 0
          BY <3>4, <1>f, <4>1
        <4> QED
          BY <1>c, <1>d, <2>2, <3>1, <3>5, <4>2
      <3> QED
        BY <1>c, <1>d, <2>2, <3>1, <3>2, <3>3, <3>6
    <2> QED
      BY <2>1, <2>2
  <1> QED
    BY <1>1, <1>2, <1>3, <1>4, <1>5, <1>6, <1>7, <1>8

\* A mint whose receive() throws.
LEMMA MintThrowKeeps ==
  ASSUME AutoTypeOK, AutoFacts,
         NEW r \in Runs,
         NEW fee \in Nat,
         fee <= burns[run[r].hash].amount,
         Mint(r, fee),
         run' = [Credited(Stroops(burns[run[r].hash].amount - fee)) EXCEPT ![r] = Thrown(r)[r]],
         run[r].hash \in Hashes
  PROVE  AutoFacts'
  <1> USE AutoAssumption DEF AutoTypeOK, RunStates, AutoFacts
  <1>1. HolderIsNamed'
    BY DEF Mint, Credited, Thrown, NewRun, At, Critical, Measuring, Stroops, BurnRecords,
           HolderIsNamed, Alive
  <1>2. OutAtEnd'
    BY DEF Mint, Credited, Thrown, NewRun, At, Critical, Measuring, Stroops, BurnRecords,
           OutAtEnd
  <1>3. SeenIsList'
    BY DEF Mint, Credited, Thrown, NewRun, At, Critical, Measuring, Stroops, BurnRecords,
           SeenIsList, Listed, HolderIsNamed, Alive
  <1>4. NothingForgotten'
    BY DEF Mint, Credited, Thrown, NewRun, At, Critical, Measuring, Stroops, BurnRecords,
           NothingForgotten, SeenIsList, HolderIsNamed, Alive, Listed, OutAtEnd
  <1>5. MintedIsBurnt'
    BY DEF Mint, Credited, Thrown, NewRun, At, Critical, Measuring, Stroops, BurnRecords,
           MintedIsBurnt
  <1>6. FeesFit'
    BY DEF Mint, Credited, Thrown, NewRun, At, Critical, Measuring, Stroops, BurnRecords,
           FeesFit
  <1>7. BalanceAdds'
    BY SMTT(20) DEF Mint, Credited, Thrown, NewRun, At, Critical, Measuring, Stroops, BurnRecords,
           BalanceAdds, Listed
  <1>8. MintIsOwn'
    <2> DEFINE credit == Stroops(burns[run[r].hash].amount - fee)
    <2>1. credit \in Nat
      <3>1. burns[run[r].hash].amount \in Nat
        BY DEF BurnRecords
      <3>2. burns[run[r].hash].amount - fee \in Nat
        BY <3>1
      <3> QED
        BY <3>2 DEF Stroops
    <2>2. run[r].pc = "receive" /\ mintedBy[run[r].hash] = NoRun /\ burns' = burns
          /\ mintedBy' = [mintedBy EXCEPT ![run[r].hash] = r]
      BY DEF Mint, At
    <2>3. run' = [Credited(credit) EXCEPT ![r] = Thrown(r)[r]]
      OBVIOUS
    <2>4. run'[r].pc = "release" /\ run'[r].out = "failed"
      BY DEF Credited, Thrown, NewRun
    <2>5. ASSUME NEW q \in Runs, q # r
          PROVE  /\ run'[q].pc = run[q].pc /\ run'[q].credit = run[q].credit
                 /\ run'[q].hash = run[q].hash /\ run'[q].out = run[q].out
                 /\ run'[q].others = run[q].others \/ run'[q].others = run[q].others + credit
      <3>1. run'[q] = Credited(credit)[q]
        BY <2>3, <2>5 DEF Credited
      <3> HIDE DEF credit
      <3> QED
        BY <2>1, <3>1, CreditedFields
    <2> HIDE DEF credit
    <2>6. ASSUME NEW q \in Runs, q # r
          PROVE  /\ Minter(q)' => run'[q].hash \in Hashes /\ mintedBy'[run'[q].hash] = q
                 /\ Prover(q)' => \/ run'[q].credit = Stroops(burns'[run'[q].hash].amount)
                                  \/ run'[q].others > 0
      <3>1. (Minter(q)' <=> Minter(q)) /\ (Prover(q)' <=> Prover(q))
        BY <2>5, <2>6 DEF Minter, Prover
      <3>2. run[q].others > 0 => run'[q].others > 0
        BY SMTT(20), <2>1, <2>5, <2>6
      <3>3. run'[q].hash = run[q].hash /\ run'[q].credit = run[q].credit
        BY <2>5, <2>6
      <3>4. Minter(q) => run[q].hash \in Hashes /\ mintedBy[run[q].hash] = q
        BY DEF MintIsOwn
      <3>5. Prover(q) => run[q].credit = Stroops(burns[run[q].hash].amount) \/ run[q].others > 0
        BY DEF MintIsOwn
      <3>6. Minter(q) => mintedBy'[run[q].hash] = mintedBy[run[q].hash]
        BY <2>2, <3>4
      <3> QED
        BY <2>2, <3>1, <3>2, <3>3, <3>4, <3>5, <3>6
    <2>7. ~ Minter(r)' /\ ~ Prover(r)'
      BY <2>4 DEF Minter, Prover
    <2> QED
      BY ZenonT(30), <2>6, <2>7 DEF MintIsOwn
  <1> QED
    BY <1>1, <1>2, <1>3, <1>4, <1>5, <1>6, <1>7, <1>8

\* The delta is the whole amount.
LEMMA ProveKeeps ==
  ASSUME AutoTypeOK, AutoFacts,
         NEW r \in Runs,
         At(r, "after"),
         balance = run[r].before + Stroops(burns[run[r].hash].amount),
         run' = Goto(r, "write"),
         UNCHANGED <<lock, list, burns, mintedBy, trustline, balance, paid, stolen>>
  PROVE  AutoFacts'
  <1> USE AutoAssumption DEF AutoTypeOK, RunStates, AutoFacts
  <1>1. HolderIsNamed'
    BY DEF Goto, At, Measuring, Stroops, BurnRecords, HolderIsNamed, Alive, Critical
  <1>2. OutAtEnd'
    BY DEF Goto, At, Measuring, Stroops, BurnRecords, OutAtEnd
  <1>3. SeenIsList'
    BY DEF Goto, At, Measuring, Stroops, BurnRecords, SeenIsList, Listed, HolderIsNamed, Alive,
           Critical
  <1>4. NothingForgotten'
    BY DEF Goto, At, Measuring, Stroops, BurnRecords, NothingForgotten, SeenIsList,
           HolderIsNamed, Alive, Listed, Critical, OutAtEnd
  <1>5. MintedIsBurnt'
    BY DEF Goto, At, Measuring, Stroops, BurnRecords, MintedIsBurnt
  <1>6. FeesFit'
    BY DEF Goto, At, Measuring, Stroops, BurnRecords, FeesFit
  <1>7. BalanceAdds'
    BY DEF Goto, At, Measuring, Stroops, BurnRecords, BalanceAdds, Listed
  <1>8. MintIsOwn'
    BY DEF Goto, At, Measuring, Stroops, BurnRecords, MintIsOwn, Minter, Prover, MintedIsBurnt,
           BalanceAdds, Listed, OutAtEnd
  <1> QED
    BY <1>1, <1>2, <1>3, <1>4, <1>5, <1>6, <1>7, <1>8

\* The burn is added to the list.
LEMMA WriteListKeeps ==
  ASSUME AutoTypeOK, AutoFacts,
         NEW r \in Runs,
         WriteList(r)
  PROVE  AutoFacts'
  <1> USE AutoAssumption DEF AutoTypeOK, RunStates, AutoFacts
  <1>1. HolderIsNamed'
    BY DEF WriteList, At, Critical, HolderIsNamed, Alive
  <1>2. OutAtEnd'
    BY DEF WriteList, At, Critical, OutAtEnd
  <1>3. SeenIsList'
    BY DEF WriteList, At, Critical, SeenIsList, Listed, HolderIsNamed, Alive
  <1>4. NothingForgotten'
    BY DEF WriteList, At, Critical, NothingForgotten, SeenIsList, HolderIsNamed, Alive, Listed,
           OutAtEnd
  <1>5. MintedIsBurnt'
    BY DEF WriteList, At, Critical, MintedIsBurnt
  <1>6. FeesFit'
    BY DEF WriteList, At, Critical, FeesFit
  <1>7. BalanceAdds'
    BY DEF WriteList, At, Critical, BalanceAdds, Measuring, Listed
  <1>8. MintIsOwn'
    BY DEF WriteList, At, Critical, MintIsOwn, Minter, Prover, MintedIsBurnt, BalanceAdds,
           Measuring, Listed, OutAtEnd
  <1> QED
    BY <1>1, <1>2, <1>3, <1>4, <1>5, <1>6, <1>7, <1>8

\* The lock file becomes stale.
LEMMA LockAgesKeeps ==
  ASSUME AutoTypeOK, AutoFacts,
         LockAges
  PROVE  AutoFacts'
  <1> USE AutoAssumption DEF AutoTypeOK, RunStates, AutoFacts
  <1>1. HolderIsNamed'
    BY DEF LockAges, HolderIsNamed, Alive, Critical
  <1>2. OutAtEnd'
    BY DEF LockAges, OutAtEnd
  <1>3. SeenIsList'
    BY DEF LockAges, SeenIsList, Listed, HolderIsNamed, Alive, Critical
  <1>4. NothingForgotten'
    BY DEF LockAges, NothingForgotten, SeenIsList, HolderIsNamed, Alive, Listed, Critical,
           OutAtEnd
  <1>5. MintedIsBurnt'
    BY DEF LockAges, MintedIsBurnt
  <1>6. FeesFit'
    BY DEF LockAges, FeesFit
  <1>7. BalanceAdds'
    BY DEF LockAges, BalanceAdds, Measuring, Listed
  <1>8. MintIsOwn'
    BY DEF LockAges, MintIsOwn, Minter, Prover, MintedIsBurnt, BalanceAdds, Measuring, Listed,
           OutAtEnd
  <1> QED
    BY <1>1, <1>2, <1>3, <1>4, <1>5, <1>6, <1>7, <1>8

\* A burn lands.
LEMMA LandsKeeps ==
  ASSUME AutoTypeOK, AutoFacts,
         NEW h \in Hashes,
         Lands(h)
  PROVE  AutoFacts'
  <1> USE AutoAssumption DEF AutoTypeOK, RunStates, AutoFacts
  <1>1. HolderIsNamed'
    BY DEF Lands, BurnRecords, HolderIsNamed, Alive, Critical
  <1>2. OutAtEnd'
    BY DEF Lands, BurnRecords, OutAtEnd
  <1>3. SeenIsList'
    BY DEF Lands, BurnRecords, SeenIsList, Listed, HolderIsNamed, Alive, Critical
  <1>4. NothingForgotten'
    BY DEF Lands, BurnRecords, NothingForgotten, SeenIsList, HolderIsNamed, Alive, Listed,
           Critical, OutAtEnd
  <1>5. MintedIsBurnt'
    BY DEF Lands, BurnRecords, MintedIsBurnt
  <1>6. FeesFit'
    BY DEF Lands, BurnRecords, FeesFit
  <1>7. BalanceAdds'
    BY DEF Lands, BurnRecords, BalanceAdds, Measuring, Listed
  <1>8. MintIsOwn'
    BY DEF Lands, BurnRecords, MintIsOwn, Minter, Prover, MintedIsBurnt, BalanceAdds, Measuring,
           Listed, OutAtEnd
  <1> QED
    BY <1>1, <1>2, <1>3, <1>4, <1>5, <1>6, <1>7, <1>8

\* Somebody pays.
LEMMA PayKeeps ==
  ASSUME AutoTypeOK, AutoFacts,
         NEW p \in Payments,
         Pay(p)
  PROVE  AutoFacts'
  <1> USE AutoAssumption DEF AutoTypeOK, RunStates, AutoFacts
  <1>1. HolderIsNamed'
    BY DEF Pay, Credited, Measuring, HolderIsNamed, Alive, Critical
  <1>2. OutAtEnd'
    BY DEF Pay, Credited, Measuring, OutAtEnd
  <1>3. SeenIsList'
    BY DEF Pay, Credited, Measuring, SeenIsList, Listed, HolderIsNamed, Alive, Critical
  <1>4. NothingForgotten'
    BY DEF Pay, Credited, Measuring, NothingForgotten, SeenIsList, HolderIsNamed, Alive, Listed,
           Critical, OutAtEnd
  <1>5. MintedIsBurnt'
    BY DEF Pay, Credited, Measuring, MintedIsBurnt
  <1>6. FeesFit'
    BY DEF Pay, Credited, Measuring, FeesFit
  <1>7. BalanceAdds'
    BY DEF Pay, Credited, Measuring, BalanceAdds, Listed
  <1>8. MintIsOwn'
    BY DEF Pay, Credited, Measuring, MintIsOwn, Minter, Prover, MintedIsBurnt, BalanceAdds,
           Listed, OutAtEnd
  <1> QED
    BY <1>1, <1>2, <1>3, <1>4, <1>5, <1>6, <1>7, <1>8
-----------------------------------------------------------------------------
(***************************************************************************)
(* The invariant.                                                          *)
(***************************************************************************)
\* The initial state.
LEMMA AutoInitFacts == AutoInit => AutoFacts
  <1> SUFFICES ASSUME AutoInit
               PROVE  AutoFacts
    OBVIOUS
  <1>1. ASSUME NEW r \in Runs
        PROVE  run[r].pc = "idle" /\ run[r].out = "none"
    <2>1. run[r] = NewRun
      BY Zenon DEF AutoInit
    <2> QED
      BY <2>1 DEF NewRun
  <1>2. \A h \in Hashes : mintedBy[h] = NoRun /\ burns[h].maxFee <= burns[h].amount
    BY DEF AutoInit, NoBurn
  <1>3. HolderIsNamed /\ OutAtEnd /\ SeenIsList /\ NothingForgotten
    BY <1>1 DEF HolderIsNamed, OutAtEnd, SeenIsList, NothingForgotten, Alive, Critical, Listed
  <1>4. MintedIsBurnt /\ FeesFit
    BY <1>2 DEF MintedIsBurnt, FeesFit
  <1>5. BalanceAdds /\ MintIsOwn
    BY <1>1 DEF BalanceAdds, MintIsOwn, Measuring, Listed, Minter, Prover
  <1> QED
    BY <1>3, <1>4, <1>5 DEF AutoFacts

\* A run that waits for the lock, takes it or gives it back.
LEMMA LockingKeeps ==
  ASSUME AutoTypeOK, AutoFacts, NEW r \in Runs,
         \/ TryLock(r) \/ Stat(r) \/ Unlink(r) \/ CreateAfterUnlink(r) \/ CreateAgain(r)
         \/ Release(r)
  PROVE  AutoFacts'
  <1>1. CASE TryLock(r)
    <2>1. CASE Create(r)
      BY <1>1, <2>1, CreateKeeps DEF TryLock, At
    <2>2. CASE lock.there /\ run' = Goto(r, "stat") /\ UNCHANGED lock
      BY <1>1, <2>2, OutsideKeeps DEF TryLock, At
    <2> QED
      BY <1>1, <2>1, <2>2 DEF TryLock
  <1>2. CASE Stat(r)
    BY <1>2, OutsideKeeps, EndsKeep DEF Stat, At
  <1>3. CASE Unlink(r)
    <2>1. CASE ~ lock.there /\ run' = Goto(r, "again") /\ UNCHANGED <<lock, stolen>>
      BY <1>3, <2>1, OutsideKeeps DEF Unlink, At
    <2>2. CASE /\ lock.there
               /\ lock' = NoLock
               /\ stolen' = (stolen \/ (lock.by # NoRun /\ Alive(lock.by)))
               /\ run' = Goto(r, "create")
      BY <1>3, <2>2, UnlinkKeeps DEF Unlink
    <2> QED
      BY <1>3, <2>1, <2>2 DEF Unlink
  <1>4. CASE CreateAfterUnlink(r)
    <2>1. CASE Create(r)
      BY <1>4, <2>1, CreateKeeps DEF CreateAfterUnlink, At
    <2>2. CASE lock.there /\ run' = Goto(r, "again") /\ UNCHANGED lock
      BY <1>4, <2>2, OutsideKeeps DEF CreateAfterUnlink, At
    <2> QED
      BY <1>4, <2>1, <2>2 DEF CreateAfterUnlink
  <1>5. CASE CreateAgain(r)
    <2>1. CASE Create(r)
      BY <1>5, <2>1, CreateKeeps DEF CreateAgain, At
    <2>2. CASE lock.there /\ run' = End(r, "locked") /\ UNCHANGED lock
      BY <1>5, <2>2, EndsKeep DEF CreateAgain
    <2> QED
      BY <1>5, <2>1, <2>2 DEF CreateAgain
  <1>6. CASE Release(r)
    BY <1>6, ReleaseKeeps
  <1> QED
    BY <1>1, <1>2, <1>3, <1>4, <1>5, <1>6

\* A run that mints, whether its receive() returns or throws.
LEMMA ReceiveMintsKeeps ==
  ASSUME AutoTypeOK, AutoFacts, NEW r \in Runs, ReceiveMints(r)
  PROVE  AutoTypeOK' /\ AutoFacts'
  <1>1. run[r].hash \in Hashes
    BY DEF ReceiveMints
  <1>2. burns[run[r].hash] \in BurnRecords
    BY <1>1 DEF AutoTypeOK
  <1>3. /\ burns[run[r].hash].amount \in Nat /\ burns[run[r].hash].maxFee \in Nat
        /\ burns[run[r].hash].maxFee <= burns[run[r].hash].amount
    BY <1>1, <1>2 DEF BurnRecords, AutoFacts, FeesFit
  <1>4. PICK fee \in {0, burns[run[r].hash].maxFee} : Mint(r, fee)
    BY DEF ReceiveMints
  <1>5. fee \in Nat /\ fee <= burns[run[r].hash].amount
    BY <1>3
  <1>6. AutoTypeOK'
    BY <1>1, <1>4, <1>5, MintType
  <1>7. \/ MintReturns(r, Stroops(burns[run[r].hash].amount - fee))
        \/ run' = [Credited(Stroops(burns[run[r].hash].amount - fee)) EXCEPT
                     ![r] = Thrown(r)[r]]
    BY <1>4, Zenon DEF Mint, MintReturns
  <1>8. CASE MintReturns(r, Stroops(burns[run[r].hash].amount - fee))
    BY <1>1, <1>4, <1>5, <1>6, <1>8, MintKeeps
  <1>9. CASE run' = [Credited(Stroops(burns[run[r].hash].amount - fee)) EXCEPT
                       ![r] = Thrown(r)[r]]
    BY <1>1, <1>4, <1>5, <1>6, <1>9, MintThrowKeeps
  <1> QED
    BY <1>7, <1>8, <1>9

\* A run that holds the lock.
LEMMA WorkingKeeps ==
  ASSUME AutoTypeOK, AutoFacts, NEW r \in Runs,
         \/ ReadList(r) \/ AwaitReceipt(r) \/ ReadAccount(r) \/ EnsureTrustline(r)
         \/ Prove(r) \/ WriteList(r)
  PROVE  AutoFacts'
  <1>1. CASE ReadList(r)
    <2> DEFINE next == IF run[r].hash = NoHash THEN "burn" ELSE "account"
    <2>1. next \in {"burn", "account"}
      OBVIOUS
    <2>2. \/ run' = End(r, "failed")
          \/ run' = [run EXCEPT ![r].seen = list, ![r].pc = next]
      BY <1>1 DEF ReadList
    <2>3. /\ At(r, "list")
          /\ UNCHANGED <<lock, list, burns, mintedBy, trustline, balance, paid, stolen>>
      BY <1>1 DEF ReadList
    <2> HIDE DEF next
    <2>4. CASE run' = End(r, "failed")
      BY <2>3, <2>4, EndsKeep
    <2>5. CASE run' = [run EXCEPT ![r].seen = list, ![r].pc = next]
      BY <2>1, <2>3, <2>5, ReadListKeeps
    <2> QED
      BY <2>2, <2>4, <2>5
  <1>2. CASE AwaitReceipt(r)
    BY <1>2, EndsKeep, ReceiptKeeps DEF AwaitReceipt
  <1>3. CASE ReadAccount(r)
    BY <1>3, ReadAccountKeeps
  <1>4. CASE EnsureTrustline(r)
    BY <1>4, EnsureTrustlineKeeps
  <1>5. CASE Prove(r)
    BY <1>5, EndsKeep, ProveKeeps DEF Prove
  <1>6. CASE WriteList(r)
    BY <1>6, WriteListKeeps
  <1> QED
    BY <1>1, <1>2, <1>3, <1>4, <1>5, <1>6

\* A run that begins, or ends without a settlement.
LEMMA BoundaryKeeps ==
  ASSUME AutoTypeOK, AutoFacts, NEW r \in Runs,
         \/ \E h \in Hashes \cup {NoHash} : Begin(r, h)
         \/ Exit(r) \/ Throw(r) \/ Crash(r)
  PROVE  AutoFacts'
  <1>1. ASSUME NEW h \in Hashes \cup {NoHash}, Begin(r, h)
        PROVE  AutoFacts'
    BY <1>1, EndsKeep, BeginKeeps DEF Begin
  <1>2. CASE Exit(r)
    BY <1>2, EndsKeep DEF Exit
  <1>3. CASE Throw(r)
    BY <1>3, ThrowKeeps
  <1>4. CASE Crash(r)
    BY <1>4, EndsKeep DEF Crash
  <1> QED
    BY <1>1, <1>2, <1>3, <1>4

\* Every step keeps the inductive invariant.
LEMMA AutoNextInv == AutoInv /\ [AutoNext]_autoVars => AutoInv'
  <1> SUFFICES ASSUME AutoTypeOK, AutoFacts, [AutoNext]_autoVars
               PROVE  AutoTypeOK' /\ AutoFacts'
    BY DEF AutoInv
  <1> MintIsOwn
    BY DEF AutoFacts
  <1>1. ASSUME NEW r \in Runs, NEW h \in Hashes \cup {NoHash}, Begin(r, h)
        PROVE  AutoTypeOK' /\ AutoFacts'
    BY <1>1, BeginType, BoundaryKeeps
  <1>2. ASSUME NEW r \in Runs, Exit(r) \/ Throw(r) \/ Crash(r)
        PROVE  AutoTypeOK' /\ AutoFacts'
    BY <1>2, EndingType, BoundaryKeeps
  <1>3. ASSUME NEW r \in Runs,
               \/ TryLock(r) \/ Stat(r) \/ Unlink(r) \/ CreateAfterUnlink(r)
               \/ CreateAgain(r) \/ Release(r)
        PROVE  AutoTypeOK' /\ AutoFacts'
    BY <1>3, LockingType, LockingKeeps
  <1>4. ASSUME NEW r \in Runs,
               \/ ReadList(r) \/ AwaitReceipt(r) \/ ReadAccount(r) \/ EnsureTrustline(r)
               \/ Prove(r) \/ WriteList(r)
        PROVE  AutoTypeOK' /\ AutoFacts'
    BY <1>4, WorkingType, WorkingKeeps
  <1>5. ASSUME NEW r \in Runs, NEW h \in Hashes, NEW amount \in Amounts,
               SendBurn(r, h, amount)
        PROVE  AutoTypeOK' /\ AutoFacts'
    BY <1>5, SendBurnType, SendBurnKeeps
  <1>6. ASSUME NEW r \in Runs, ReceiveMints(r)
        PROVE  AutoTypeOK' /\ AutoFacts'
    BY <1>6, ReceiveMintsKeeps
  <1>7. CASE LockAges
    BY <1>7, WorldType, LockAgesKeeps
  <1>8. ASSUME NEW h \in Hashes, Lands(h)
        PROVE  AutoTypeOK' /\ AutoFacts'
    BY <1>8, WorldType, LandsKeeps
  <1>9. ASSUME NEW p \in Payments, Pay(p)
        PROVE  AutoTypeOK' /\ AutoFacts'
    BY <1>9, WorldType, PayKeeps
  <1>10. CASE UNCHANGED autoVars
    <2> USE <1>10 DEF autoVars
    <2>1. AutoTypeOK'
      BY DEF AutoTypeOK
    <2>2. HolderIsNamed' /\ OutAtEnd' /\ SeenIsList' /\ NothingForgotten'
      BY DEF AutoFacts, HolderIsNamed, OutAtEnd, SeenIsList, NothingForgotten, Alive
    <2>3. MintedIsBurnt' /\ FeesFit' /\ BalanceAdds' /\ MintIsOwn'
      BY DEF AutoFacts, MintedIsBurnt, FeesFit, BalanceAdds, MintIsOwn, Measuring, Minter,
             Prover
    <2> QED
      BY <2>1, <2>2, <2>3 DEF AutoFacts
  <1> QED
    BY <1>1, <1>2, <1>3, <1>4, <1>5, <1>6, <1>7, <1>8, <1>9, <1>10 DEF AutoNext, RunStep

\* The inductive invariant holds of every state of every number of runs.
THEOREM AutoInvCorrect == AutoSpec => []AutoInv
  <1>1. AutoInit => AutoInv
    BY AutoInitType, AutoInitFacts DEF AutoInv
  <1>2. AutoInv /\ [AutoNext]_autoVars => AutoInv'
    BY AutoNextInv
  <1> QED
    BY <1>1, <1>2, PTL DEF AutoSpec
-----------------------------------------------------------------------------
(***************************************************************************)
(* The properties.                                                         *)
(***************************************************************************)
\* The lock file of main(): without a theft, one run at most is past it.
THEOREM OneRunHolds == AutoSpec => []OneHolder
  <1>1. AutoInv => OneHolder
    BY DEF AutoInv, AutoFacts, HolderIsNamed, OneHolder
  <1> QED
    BY <1>1, AutoInvCorrect, PTL

\* The list of processed burns: under that guard no settled burn drops out of it.
THEOREM SettledStaysListed == AutoSpec => []NothingForgotten
  <1>1. AutoInv => NothingForgotten
    BY DEF AutoInv, AutoFacts
  <1> QED
    BY <1>1, AutoInvCorrect, PTL

\* The balance proof: a run that prints `settled` spent the burn itself.
THEOREM ProofIsOfOwnMint == AutoSpec => []ProvenIsOwnMint
  <1>1. AutoInv => ProvenIsOwnMint
    BY DEF AutoInv, AutoFacts, MintIsOwn, Minter, Prover, ProvenIsOwnMint
  <1> QED
    BY <1>1, AutoInvCorrect, PTL
-----------------------------------------------------------------------------
(***************************************************************************)
(* resolveMaxFee.                                                          *)
(***************************************************************************)
\* Rounding up to whole units: the quotient covers the dividend, by less than one unit.
LEMMA CeilingCovers ==
  ASSUME NEW n \in Nat
  PROVE  /\ ((n + 99999) \div 100000) * 100000 >= n
         /\ ((n + 99999) \div 100000) * 100000 < n + 100000
  OBVIOUS

\* A quote in whole tenths is not changed by the rounding to tenths.
LEMMA WholeTenths ==
  ASSUME NEW quote \in Nat, quote % 10 = 0
  PROVE  /\ (quote + 5) \div 10 \in Nat
         /\ 10 * ((quote + 5) \div 10) = quote
  OBVIOUS

\* What QuotedFeeSuffices says of one burn.
Covers(fee, amount, quote) ==
  fee * 1000000 >= amount * quote /\ fee * 1000000 < amount * quote + 1000000

\* The resolved fee covers the quote, by less than one unit.
LEMMA ResolvedFeeSuffices ==
  ASSUME NEW amount \in Nat, NEW quote \in Nat, quote % 10 = 0
  PROVE  Covers(ResolveMaxFee(amount, quote), amount, quote)
  <1> DEFINE tenths == (quote + 5) \div 10
             due == amount * tenths
             fee == (due + 99999) \div 100000
  <1>1. tenths \in Nat /\ 10 * tenths = quote
    BY WholeTenths
  <1>2. due \in Nat /\ 10 * due = amount * quote
    <2>1. amount * (10 * tenths) = 10 * (amount * tenths) /\ amount * tenths \in Nat
      <3> HIDE DEF tenths
      <3> QED
        BY <1>1
    <2> QED
      BY <1>1, <2>1
  <1>3. fee * 100000 >= due /\ fee * 100000 < due + 100000 /\ fee \in Nat
    <2> HIDE DEF due
    <2> QED
      BY <1>2, CeilingCovers
  <1>4. fee * 1000000 >= 10 * due /\ fee * 1000000 < 10 * due + 1000000
    <2> HIDE DEF fee, due
    <2> QED
      BY <1>2, <1>3
  <1> QED
    BY <1>2, <1>4 DEF ResolveMaxFee, Covers

\* Only a burn sent and a burn landed change the burns.
LEMMA BurnsChange ==
  ASSUME [AutoNext]_autoVars
  PROVE  \/ UNCHANGED burns
         \/ \E h \in Hashes : Lands(h)
         \/ \E r \in Runs, h \in Hashes, amount \in Amounts : SendBurn(r, h, amount)
  <1>1. ASSUME NEW r \in Runs, NEW h \in Hashes \cup {NoHash}, Begin(r, h)
        PROVE  UNCHANGED burns
    BY <1>1 DEF Begin
  <1>2. ASSUME NEW r \in Runs, Exit(r) \/ Throw(r) \/ Crash(r)
        PROVE  UNCHANGED burns
    BY <1>2 DEF Exit, Throw, Crash
  <1>3. ASSUME NEW r \in Runs,
               \/ TryLock(r) \/ Stat(r) \/ Unlink(r) \/ CreateAfterUnlink(r)
               \/ CreateAgain(r) \/ Release(r)
        PROVE  UNCHANGED burns
    BY <1>3 DEF TryLock, Stat, Unlink, CreateAfterUnlink, CreateAgain, Release
  <1>4. ASSUME NEW r \in Runs,
               \/ ReadList(r) \/ AwaitReceipt(r) \/ ReadAccount(r) \/ EnsureTrustline(r)
               \/ Prove(r) \/ WriteList(r)
        PROVE  UNCHANGED burns
    BY <1>4 DEF ReadList, AwaitReceipt, ReadAccount, EnsureTrustline, Prove, WriteList
  <1>5. ASSUME NEW r \in Runs, ReceiveMints(r)
        PROVE  UNCHANGED burns
    BY <1>5 DEF ReceiveMints, Mint
  <1>6. CASE LockAges
    BY <1>6 DEF LockAges
  <1>7. ASSUME NEW p \in Payments, Pay(p)
        PROVE  UNCHANGED burns
    BY <1>7 DEF Pay
  <1>8. CASE UNCHANGED autoVars
    BY <1>8 DEF autoVars
  <1> QED
    BY <1>1, <1>2, <1>3, <1>4, <1>5, <1>6, <1>7, <1>8 DEF AutoNext, RunStep

\* resolveMaxFee and planBurn: for every amount and every quote in whole tenths.
THEOREM QuotedFeesCover == AutoSpec => []QuotedFeeSuffices
  <1>1. AutoInit => QuotedFeeSuffices
    BY AutoAssumption DEF AutoInit, NoBurn, QuotedFeeSuffices
  <1>2. AutoInv /\ QuotedFeeSuffices /\ [AutoNext]_autoVars => QuotedFeeSuffices'
    <2> SUFFICES ASSUME AutoInv, QuotedFeeSuffices, [AutoNext]_autoVars, NEW g \in Hashes,
                        burns'[g].quote \in Quotes, burns'[g].quote % 10 = 0
                 PROVE  Covers(burns'[g].maxFee, burns'[g].amount, burns'[g].quote)
      BY DEF QuotedFeeSuffices, Covers
    <2>1. ASSUME burns'[g].quote = burns[g].quote, burns'[g].amount = burns[g].amount,
                 burns'[g].maxFee = burns[g].maxFee
          PROVE  Covers(burns'[g].maxFee, burns'[g].amount, burns'[g].quote)
      BY <2>1 DEF QuotedFeeSuffices, Covers
    <2>2. ASSUME NEW r \in Runs, NEW h \in Hashes, NEW amount \in Amounts,
                 SendBurn(r, h, amount)
          PROVE  Covers(burns'[g].maxFee, burns'[g].amount, burns'[g].quote)
      <3>1. PICK m \in MaxFees(amount) : burns' = [burns EXCEPT ![h] =
              [st |-> "sent", amount |-> amount, quote |-> m.quote, maxFee |-> m.maxFee]]
        BY <2>2 DEF SendBurn
      <3>2. burns \in [Hashes -> BurnRecords]
        BY DEF AutoInv, AutoTypeOK
      <3>3. CASE g # h
        BY <2>1, <3>1, <3>2, <3>3
      <3>4. CASE g = h
        <4>1. /\ burns'[g].amount = amount /\ burns'[g].quote = m.quote
              /\ burns'[g].maxFee = m.maxFee
          BY <3>1, <3>2, <3>4
        <4>2. m.quote \in Quotes /\ m.quote \in Nat /\ m.quote # NoQuote
          BY <4>1, AutoAssumption
        <4>3. PICK q \in Quotes : m = [quote |-> q, maxFee |-> ResolveMaxFee(amount, q)]
          BY <4>2 DEF MaxFees
        <4>4. m.quote = q /\ m.maxFee = ResolveMaxFee(amount, q) /\ q \in Nat /\ amount \in Nat
          BY <4>3, AutoAssumption
        <4>5. Covers(ResolveMaxFee(amount, q), amount, q)
          <5>1. q % 10 = 0
            BY <4>1, <4>4
          <5> QED
            BY <4>4, <5>1, ResolvedFeeSuffices
        <4> QED
          BY <4>1, <4>4, <4>5
      <3> QED
        BY <3>3, <3>4
    <2>3. ASSUME NEW h \in Hashes, Lands(h)
          PROVE  /\ burns'[g].quote = burns[g].quote /\ burns'[g].amount = burns[g].amount
                 /\ burns'[g].maxFee = burns[g].maxFee
      BY <2>3 DEF Lands, AutoInv, AutoTypeOK, BurnRecords
    <2>4. ASSUME UNCHANGED burns
          PROVE  /\ burns'[g].quote = burns[g].quote /\ burns'[g].amount = burns[g].amount
                 /\ burns'[g].maxFee = burns[g].maxFee
      BY <2>4
    <2>5. \/ UNCHANGED burns
          \/ \E h \in Hashes : Lands(h)
          \/ \E r \in Runs, h \in Hashes, amount \in Amounts : SendBurn(r, h, amount)
      BY BurnsChange
    <2> QED
      BY <2>1, <2>2, <2>3, <2>4, <2>5
  <1> QED
    BY <1>1, <1>2, AutoInvCorrect, PTL DEF AutoSpec
-----------------------------------------------------------------------------
(***************************************************************************)
(* The list as receipts: what the runs do is Settlement until a lock is    *)
(* stolen, and even then the list names minted burns only.                 *)
(***************************************************************************)
\* So is every copy of it that a run holds.
ReadAreMinted == \A r \in Runs : \A h \in run[r].seen : mintedBy[h] # NoRun

\* Only receive() changes who minted a burn, and only of none.
LEMMA MintsChange ==
  ASSUME AutoInv, AutoNext
  PROVE  \/ UNCHANGED mintedBy
         \/ \E r \in Runs :
              /\ run[r].hash \in Hashes
              /\ mintedBy[run[r].hash] = NoRun
              /\ mintedBy' = [mintedBy EXCEPT ![run[r].hash] = r]
              /\ UNCHANGED list
              /\ \A q \in Runs : run'[q].seen \subseteq run[q].seen
  <1>1. ASSUME NEW r \in Runs, ReceiveMints(r)
        PROVE  /\ run[r].hash \in Hashes
               /\ mintedBy[run[r].hash] = NoRun
               /\ mintedBy' = [mintedBy EXCEPT ![run[r].hash] = r]
               /\ UNCHANGED list
               /\ \A q \in Runs : run'[q].seen \subseteq run[q].seen
    <2>1. run[r].hash \in Hashes
      BY <1>1 DEF ReceiveMints
    <2>2. PICK fee \in {0, burns[run[r].hash].maxFee} : Mint(r, fee)
      BY <1>1 DEF ReceiveMints
    <2>3. ASSUME NEW amount, NEW q \in Runs
          PROVE  Credited(amount)[q].seen = run[q].seen
      BY DEF Credited, AutoInv, AutoTypeOK, RunStates
    <2>4. PICK amount : \/ run' = [Credited(amount) EXCEPT ![r] =
                                     [run[r] EXCEPT !.pc = "after", !.credit = amount]]
                        \/ run' = [Credited(amount) EXCEPT ![r] = Thrown(r)[r]]
      BY <2>2 DEF Mint
    <2>5. [run[r] EXCEPT !.pc = "after", !.credit = amount].seen = run[r].seen
      BY DEF AutoInv, AutoTypeOK, RunStates
    <2>6. Thrown(r)[r].seen = {}
      BY DEF Thrown, NewRun, AutoInv, AutoTypeOK
    <2>7. Credited(amount) = [q \in Runs |-> Credited(amount)[q]]
      BY DEF Credited
    <2>8. \A q \in Runs : run'[q].seen \subseteq run[q].seen
      <3>1. ASSUME NEW q \in Runs, q # r
            PROVE  run'[q].seen = run[q].seen
        BY <2>3, <2>4, <2>7, <3>1
      <3>2. run'[r].seen = run[r].seen \/ run'[r].seen = {}
        BY <2>4, <2>5, <2>6, <2>7
      <3> QED
        BY <3>1, <3>2
    <2> QED
      BY <2>1, <2>2, <2>8 DEF Mint
  <1>2. ASSUME NEW r \in Runs, NEW h \in Hashes \cup {NoHash}, Begin(r, h)
        PROVE  UNCHANGED mintedBy
    BY <1>2 DEF Begin
  <1>3. ASSUME NEW r \in Runs, Exit(r) \/ Throw(r) \/ Crash(r)
        PROVE  UNCHANGED mintedBy
    BY <1>3 DEF Exit, Throw, Crash
  <1>4. ASSUME NEW r \in Runs,
               \/ TryLock(r) \/ Stat(r) \/ Unlink(r) \/ CreateAfterUnlink(r)
               \/ CreateAgain(r) \/ Release(r)
        PROVE  UNCHANGED mintedBy
    BY <1>4 DEF TryLock, Stat, Unlink, CreateAfterUnlink, CreateAgain, Release
  <1>5. ASSUME NEW r \in Runs,
               \/ ReadList(r) \/ AwaitReceipt(r) \/ ReadAccount(r) \/ EnsureTrustline(r)
               \/ Prove(r) \/ WriteList(r)
        PROVE  UNCHANGED mintedBy
    BY <1>5 DEF ReadList, AwaitReceipt, ReadAccount, EnsureTrustline, Prove, WriteList
  <1>6. ASSUME NEW r \in Runs, NEW h \in Hashes, NEW amount \in Amounts, SendBurn(r, h, amount)
        PROVE  UNCHANGED mintedBy
    BY <1>6 DEF SendBurn
  <1>7. CASE LockAges \/ (\E h \in Hashes : Lands(h)) \/ \E p \in Payments : Pay(p)
    BY <1>7 DEF LockAges, Lands, Pay
  <1> QED
    BY <1>1, <1>2, <1>3, <1>4, <1>5, <1>6, <1>7 DEF AutoNext, RunStep

\* A run reads the list whole, forgets it, or keeps it.
LEMMA CopiesChange ==
  ASSUME AutoInv, AutoNext, UNCHANGED mintedBy
  PROVE  \A q \in Runs : run'[q].seen \subseteq run[q].seen \cup list
  <1> USE DEF AutoInv, AutoTypeOK
  <1>0. NewRun.seen = {}
    BY DEF NewRun
  <1>1. ASSUME NEW r \in Runs, NEW pc
        PROVE  \A q \in Runs : Goto(r, pc)[q].seen = run[q].seen
    BY DEF Goto, RunStates
  <1>2. ASSUME NEW r \in Runs, NEW out
        PROVE  \A q \in Runs : End(r, out)[q].seen \subseteq run[q].seen
    BY <1>0 DEF End, NewRun
  <1>3. ASSUME NEW r \in Runs
        PROVE  \A q \in Runs : Thrown(r)[q].seen \subseteq run[q].seen
    BY DEF Thrown, NewRun
  <1>4. ASSUME NEW amount
        PROVE  \A q \in Runs : Credited(amount)[q].seen = run[q].seen
    BY DEF Credited, RunStates
  <1>5. ASSUME NEW r \in Runs, NEW v, v.seen \subseteq run[r].seen \cup list,
               run' = [run EXCEPT ![r] = v]
        PROVE  \A q \in Runs : run'[q].seen \subseteq run[q].seen \cup list
    BY <1>5
  <1>6. ASSUME NEW r \in Runs, NEW h \in Hashes \cup {NoHash}, Begin(r, h)
        PROVE  \A q \in Runs : run'[q].seen \subseteq run[q].seen \cup list
    <2>1. [run[r] EXCEPT !.pc = "lock", !.hash = h].seen = run[r].seen
      BY DEF RunStates
    <2> QED
      BY <1>2, <1>5, <1>6, <2>1 DEF Begin
  <1>7. ASSUME NEW r \in Runs, Exit(r) \/ Throw(r) \/ Crash(r)
        PROVE  \A q \in Runs : run'[q].seen \subseteq run[q].seen \cup list
    BY <1>2, <1>3, <1>7 DEF Exit, Throw, Crash
  <1>8. ASSUME NEW r \in Runs,
               \/ TryLock(r) \/ Stat(r) \/ Unlink(r) \/ CreateAfterUnlink(r)
               \/ CreateAgain(r) \/ Release(r)
        PROVE  \A q \in Runs : run'[q].seen \subseteq run[q].seen \cup list
    BY <1>1, <1>2, <1>8
       DEF TryLock, Stat, Unlink, CreateAfterUnlink, CreateAgain, Release, Create
  <1>9. ASSUME NEW r \in Runs, ReadList(r)
        PROVE  \A q \in Runs : run'[q].seen \subseteq run[q].seen \cup list
    <2>1. CASE run' = End(r, "failed")
      BY <1>2, <2>1
    <2>2. ASSUME NEW pc, run' = [run EXCEPT ![r].seen = list, ![r].pc = pc]
          PROVE  \A q \in Runs : run'[q].seen \subseteq run[q].seen \cup list
      BY <2>2 DEF RunStates
    <2> QED
      BY <1>9, <2>1, <2>2 DEF ReadList
  <1>10. ASSUME NEW r \in Runs, AwaitReceipt(r) \/ Prove(r) \/ EnsureTrustline(r)
         PROVE  \A q \in Runs : run'[q].seen \subseteq run[q].seen \cup list
    BY <1>1, <1>2, <1>10 DEF AwaitReceipt, Prove, EnsureTrustline
  <1>11. ASSUME NEW r \in Runs, ReadAccount(r)
         PROVE  \A q \in Runs : run'[q].seen \subseteq run[q].seen \cup list
    <2>1. [run[r] EXCEPT !.pc = "trustline", !.trusted = trustline, !.before = balance,
                         !.others = 0].seen = run[r].seen
      BY DEF RunStates
    <2> QED
      BY <1>5, <1>11, <2>1 DEF ReadAccount
  <1>12. ASSUME NEW r \in Runs, WriteList(r)
         PROVE  \A q \in Runs : run'[q].seen \subseteq run[q].seen \cup list
    <2>1. [run[r] EXCEPT !.pc = "release", !.out = "settled", !.seen = {}, !.before = 0,
                         !.trusted = FALSE].seen = {}
      BY DEF RunStates
    <2> QED
      BY <1>5, <1>12, <2>1 DEF WriteList
  <1>13. ASSUME NEW r \in Runs, NEW h \in Hashes, NEW amount \in Amounts, SendBurn(r, h, amount)
         PROVE  \A q \in Runs : run'[q].seen \subseteq run[q].seen \cup list
    <2>1. [run[r] EXCEPT !.pc = "receipt", !.hash = h].seen = run[r].seen
      BY DEF RunStates
    <2> QED
      BY <1>5, <1>13, <2>1 DEF SendBurn
  <1>14. ASSUME NEW r \in Runs, ReceiveMints(r)
         PROVE  \A q \in Runs : run'[q].seen \subseteq run[q].seen \cup list
    <2>1. mintedBy'[run[r].hash] = r /\ mintedBy[run[r].hash] = NoRun /\ r # NoRun
      BY <1>14, AutoAssumption DEF ReceiveMints, Mint
    <2> QED
      BY <2>1
  <1>15. ASSUME NEW p \in Payments, Pay(p)
         PROVE  \A q \in Runs : run'[q].seen \subseteq run[q].seen \cup list
    BY <1>4, <1>15 DEF Pay
  <1>16. CASE LockAges \/ \E h \in Hashes : Lands(h)
    BY <1>16 DEF LockAges, Lands
  <1> QED
    BY <1>6, <1>7, <1>8, <1>9, <1>10, <1>11, <1>12, <1>13, <1>14, <1>15, <1>16
       DEF AutoNext, RunStep

\* Only atomicWriteJson changes the list.
LEMMA ListChanges ==
  ASSUME AutoNext
  PROVE  UNCHANGED list \/ \E r \in Runs : WriteList(r)
  <1>1. ASSUME NEW r \in Runs, RunStep(r)
        PROVE  UNCHANGED list \/ WriteList(r)
    BY <1>1 DEF RunStep, TryLock, Stat, Unlink, CreateAfterUnlink, CreateAgain, ReadList,
                SendBurn, AwaitReceipt, ReadAccount, EnsureTrustline, ReceiveMints, Mint,
                Prove, Release
  <1>2. ASSUME NEW r \in Runs, Exit(r) \/ Throw(r) \/ Crash(r)
        PROVE  UNCHANGED list
    BY <1>2 DEF Exit, Throw, Crash
  <1>3. ASSUME NEW r \in Runs, NEW h \in Hashes \cup {NoHash}, Begin(r, h)
        PROVE  UNCHANGED list
    BY <1>3 DEF Begin
  <1>4. CASE LockAges \/ (\E h \in Hashes : Lands(h)) \/ \E p \in Payments : Pay(p)
    BY <1>4 DEF LockAges, Lands, Pay
  <1> QED
    BY <1>1, <1>2, <1>3, <1>4 DEF AutoNext

\* The list and its copies name minted burns after every step.
LEMMA ListedKept ==
  ASSUME AutoInv, ListedAreMinted, ReadAreMinted, AutoNext
  PROVE  ListedAreMinted' /\ ReadAreMinted'
  <1> USE DEF AutoInv, AutoTypeOK, ListedAreMinted, ReadAreMinted
  <1>1. CASE UNCHANGED mintedBy
    <2>1. ReadAreMinted'
      BY <1>1, CopiesChange
    <2>2. CASE UNCHANGED list
      BY <1>1, <2>1, <2>2
    <2>3. ASSUME NEW r \in Runs, WriteList(r)
          PROVE  ListedAreMinted'
      <3>1. list' = run[r].seen \cup {run[r].hash} /\ run[r].pc = "write"
        BY <2>3 DEF WriteList, At
      <3>2. mintedBy[run[r].hash] = r
        BY <3>1 DEF AutoFacts, MintIsOwn, Minter
      <3> QED
        BY <1>1, <3>1, <3>2, AutoAssumption
    <2> QED
      BY <2>1, <2>2, <2>3, ListChanges
  <1>2. ASSUME NEW r \in Runs,
               run[r].hash \in Hashes,
               mintedBy' = [mintedBy EXCEPT ![run[r].hash] = r],
               UNCHANGED list,
               \A q \in Runs : run'[q].seen \subseteq run[q].seen
        PROVE  ListedAreMinted' /\ ReadAreMinted'
    <2>1. \A h : mintedBy[h] # NoRun /\ h \in Hashes => mintedBy'[h] # NoRun
      BY <1>2, AutoAssumption
    <2>2. list \subseteq Hashes /\ \A q \in Runs : run[q].seen \subseteq Hashes
      BY DEF RunStates
    <2> QED
      BY <1>2, <2>1, <2>2
  <1> QED
    BY <1>1, <1>2, MintsChange

\* A step before any theft is one of Settlement or none.
LEMMA StepSettles ==
  ASSUME AutoInv, ListedAreMinted, AutoNext, ~ stolen
  PROVE  AutoSettlement!Next \/ UNCHANGED AutoSettlement!vars
  <1> USE DEF AutoInv, AutoTypeOK, ListedAreMinted
  <1> DEFINE receipt == [h \in Hashes |-> IF h \in list THEN mintedBy[h] ELSE NoRun]
  <1>1. CASE UNCHANGED mintedBy
    <2>1. CASE UNCHANGED list
      BY <1>1, <2>1 DEF AutoSettlement!vars
    <2>2. ASSUME NEW r \in Runs, WriteList(r)
          PROVE  AutoSettlement!Next \/ UNCHANGED AutoSettlement!vars
      <3>1. list' = run[r].seen \cup {run[r].hash} /\ run[r].pc = "write"
        BY <2>2 DEF WriteList, At
      <3>2. run[r].hash \in Hashes /\ mintedBy[run[r].hash] = r /\ r # NoRun
        BY <3>1, AutoAssumption DEF AutoFacts, MintIsOwn, Minter
      <3>3. run[r].seen = list
        BY <3>1 DEF AutoFacts, SeenIsList, Listed
      <3>4. CASE run[r].hash \in list
        <4>1. list' = list
          BY <3>1, <3>3, <3>4
        <4> QED
          BY <1>1, <4>1 DEF AutoSettlement!vars
      <3>5. CASE run[r].hash \notin list
        <4>1. PICK h \in Hashes : h = run[r].hash
          BY <3>2
        <4>2. receipt' = [receipt EXCEPT ![h] = mintedBy[h]]
          BY <1>1, <3>1, <3>2, <3>3, <4>1
        <4>3. receipt[h] = NoRun
          BY <3>5, <4>1
        <4>4. AutoSettlement!GiveReceipt(h)
          BY <1>1, <3>2, <4>1, <4>2, <4>3 DEF AutoSettlement!GiveReceipt
        <4> QED
          BY <4>4 DEF AutoSettlement!Next
      <3> QED
        BY <3>4, <3>5
    <2> QED
      BY <2>1, <2>2, ListChanges
  <1>2. ASSUME NEW r \in Runs,
               run[r].hash \in Hashes,
               mintedBy[run[r].hash] = NoRun,
               mintedBy' = [mintedBy EXCEPT ![run[r].hash] = r],
               UNCHANGED list
        PROVE  AutoSettlement!Next
    <2>1. run[r].hash \notin list
      BY <1>2
    <2>2. receipt' = receipt
      BY <1>2, <2>1
    <2>3. AutoSettlement!Credit(run[r].hash, r)
      BY <1>2, <2>2 DEF AutoSettlement!Credit
    <2> QED
      BY <1>2, <2>3 DEF AutoSettlement!Next
  <1> QED
    BY <1>1, <1>2, MintsChange

\* The list names minted burns only, in every behaviour.
THEOREM ListIsTrue == AutoSpec => []ListedAreMinted
  <1> DEFINE Inv == ListedAreMinted /\ ReadAreMinted
  <1>1. AutoInit => Inv
    BY DEF AutoInit, NewRun, ListedAreMinted, ReadAreMinted
  <1>2. AutoInv /\ Inv /\ AutoNext => Inv'
    BY ListedKept
  <1>3. Inv /\ UNCHANGED autoVars => Inv'
    BY DEF autoVars, ListedAreMinted, ReadAreMinted
  <1> QED
    BY <1>1, <1>2, <1>3, AutoInvCorrect, PTL DEF AutoSpec

\* testnet:auto does with its list what Settlement asks of receipts, until a lock is stolen.
THEOREM ListsSettle == AutoSpec => ListKeepsReceipts
  <1>1. AutoInit => AutoSettlement!Init
    BY DEF AutoInit, AutoSettlement!Init
  <1>2. AutoInv /\ ListedAreMinted /\ [AutoNext]_autoVars =>
          [~ stolen => UNCHANGED AutoSettlement!vars \/ AutoSettlement!Next]_autoVars
    BY StepSettles
  <1> QED
    BY <1>1, <1>2, AutoInvCorrect, ListIsTrue, PTL DEF AutoSpec, ListKeepsReceipts

\* So a system of runs whose locks are never stolen implements Settlement.
THEOREM UnstolenRunsImplement == AutoSpec /\ []~ stolen => AutoSettlement!Spec
  <1>1. UNCHANGED autoVars => UNCHANGED AutoSettlement!vars
    BY DEF autoVars, AutoSettlement!vars
  <1>2. /\ ~ stolen
        /\ [~ stolen => UNCHANGED AutoSettlement!vars \/ AutoSettlement!Next]_autoVars
        => [AutoSettlement!Next]_AutoSettlement!vars
    BY <1>1
  <1> QED
    BY <1>2, ListsSettle, PTL DEF ListKeepsReceipts, AutoSettlement!Spec
=============================================================================
