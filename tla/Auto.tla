-------------------------------- MODULE Auto --------------------------------
(***************************************************************************)
(* scripts/testnet-auto.ts: one command from a burn to a settled mint.     *)
(* Several runs of it may be started, each a process of its own; what they *)
(* share is the lock file beside the list of processed burns, that list,   *)
(* and the accounts on both chains.  Each call on the file system or the   *)
(* network is a step.                                                      *)
(*                                                                         *)
(* receive() is the one module Receive has the details of: here it mints   *)
(* or not, and returns or throws.  Each run has a client, and a replay     *)
(* store, of its own.                                                      *)
(***************************************************************************)
EXTENDS Naturals

CONSTANTS
  Runs,          \* processes
  Hashes,        \* burn transactions on the EVM chain
  NoRun, NoHash,
  Amounts,       \* --amount, in CCTP units (6 decimals)
  Quotes,        \* what Iris may quote as minimumFee, in hundredths of a basis point
  OperatorFees,  \* EVM_MAX_FEE
  NoQuote,       \* the quote of a burn whose maxFee the operator gave
  Payments,      \* what others may pay the destination, in stroops
  MaxPaid        \* bound on the sum of such payments

ASSUME AutoAssumption ==
  /\ NoRun \notin Runs
  /\ NoHash \notin Hashes
  /\ Amounts \subseteq Nat \ {0}
  /\ Quotes \subseteq Nat
  /\ NoQuote \notin Nat
  /\ OperatorFees \subseteq Nat
  /\ Payments \subseteq Nat
  /\ MaxPaid \in Nat

VARIABLES
  lock,        \* the lock file: whether it is there, who wrote it, whether it is over 5 min old
  list,        \* the processed burns, in the file
  burns,       \* burns[h]: a burn transaction
  mintedBy,    \* mintedBy[h]: the run whose mint the burn was spent on
  trustline,   \* the destination has a USDC trustline
  balance,     \* its USDC balance, in stroops
  paid,        \* what others have paid it
  run,         \* run[r]: a process
  stolen       \* a lock file was removed while the run that wrote it went on

autoVars == <<lock, list, burns, mintedBy, trustline, balance, paid, run, stolen>>

NoLock == [there |-> FALSE, by |-> NoRun, stale |-> FALSE]

NoBurn == [st |-> "none", amount |-> 0, quote |-> NoQuote, maxFee |-> 0]

BurnRecords == [st : {"none", "sent", "burnt"}, amount : Nat, quote : Quotes \cup {NoQuote},
                maxFee : Nat]

\* The steps between taking the lock and releasing it.
Critical == {"list", "burn", "receipt", "account", "trustline", "receive", "after", "write",
             "release"}

NewRun == [pc |-> "idle", hash |-> NoHash, seen |-> {}, trusted |-> FALSE, before |-> 0,
           credit |-> 0, others |-> 0, out |-> "none"]

\* `credit` is what the run's own mint brought in; `others` what else came in after it read
\* the balance.
RunStates ==
  [pc : Critical \cup {"idle", "lock", "stat", "unlink", "create", "again", "done"},
   hash : Hashes \cup {NoHash}, seen : SUBSET Hashes, trusted : BOOLEAN, before : Nat,
   credit : Nat, others : Nat,
   out : {"none", "locked", "failed", "crashed", "unproven", "settled"}]

\* The type invariant of the runs and of what they share.
AutoTypeOK ==
  /\ lock \in [there : BOOLEAN, by : Runs \cup {NoRun}, stale : BOOLEAN]
  /\ list \in SUBSET Hashes
  /\ burns \in [Hashes -> BurnRecords]
  /\ mintedBy \in [Hashes -> Runs \cup {NoRun}]
  /\ trustline \in BOOLEAN
  /\ balance \in Nat
  /\ paid \in Nat
  /\ run \in [Runs -> RunStates]
  /\ stolen \in BOOLEAN

\* A lock file may have been left by an earlier run, which is dead.
AutoInit ==
  /\ lock \in {NoLock, [NoLock EXCEPT !.there = TRUE]}
  /\ list = {}
  /\ burns = [h \in Hashes |-> NoBurn]
  /\ mintedBy = [h \in Hashes |-> NoRun]
  /\ trustline \in BOOLEAN
  /\ balance = 0
  /\ paid = 0
  /\ run = [r \in Runs |-> NewRun]
  /\ stolen = FALSE
-----------------------------------------------------------------------------
(***************************************************************************)
(* The numbers.                                                            *)
(***************************************************************************)
\* Mutant: the quotient is rounded down.
ResolveDown(amount, quote) == (amount * ((quote + 5) \div 10)) \div 100000

\* resolveMaxFee: the quote rounded to tenths of a basis point, the fee rounded up.
ResolveMaxFee(amount, quote) ==
  (amount * ((quote + 5) \div 10) + 99999) \div 100000

\* convert6to7: ten stroops a unit, and never dust.
Stroops(amount) == 10 * amount
-----------------------------------------------------------------------------
(***************************************************************************)
(* How a run ends: fail() and process.exit() leave the lock file behind,   *)
(* an error thrown reaches `finally`.                                      *)
(***************************************************************************)
At(r, pc) == run[r].pc = pc

Goto(r, pc) == [run EXCEPT ![r].pc = pc]

End(r, out) == [run EXCEPT ![r] = [NewRun EXCEPT !.pc = "done", !.out = out]]

Thrown(r) == [run EXCEPT ![r] = [NewRun EXCEPT !.pc = "release", !.out = "failed"]]

Alive(r) == run[r].pc \in Critical

\* Between the two reads of the balance.
Measuring(r) == run[r].pc \in {"trustline", "receive", "after"}

Credited(amount) ==
  [r \in Runs |-> IF Measuring(r)
                  THEN [run[r] EXCEPT !.others = run[r].others + amount] ELSE run[r]]

Exit(r) ==
  /\ run[r].pc \in {"list", "burn", "account", "trustline"}
  /\ run' = End(r, "failed")
  /\ UNCHANGED <<lock, list, burns, mintedBy, trustline, balance, paid, stolen>>

Throw(r) ==
  /\ run[r].pc \in {"burn", "account", "trustline", "receive", "after", "write"}
  /\ run' = Thrown(r)
  /\ UNCHANGED <<lock, list, burns, mintedBy, trustline, balance, paid, stolen>>

\* The process is killed.
Crash(r) ==
  /\ run[r].pc \notin {"idle", "done"}
  /\ run' = End(r, "crashed")
  /\ UNCHANGED <<lock, list, burns, mintedBy, trustline, balance, paid, stolen>>
-----------------------------------------------------------------------------
(***************************************************************************)
(* The lock file.                                                          *)
(***************************************************************************)
\* Arguments and network pins are checked first; --skip-burn names a burn made before, here
\* by a run that has lost it or is still at it.
Begin(r, h) ==
  /\ At(r, "idle")
  /\ h \in Hashes => burns[h].st = "burnt"
  /\ \/ run' = End(r, "failed")
     \/ run' = [run EXCEPT ![r].pc = "lock", ![r].hash = h]
  /\ UNCHANGED <<lock, list, burns, mintedBy, trustline, balance, paid, stolen>>

\* Mutant: the file is written without the `wx` flag.
CreateAnyway(r) ==
  /\ lock' = [there |-> TRUE, by |-> r, stale |-> FALSE]
  /\ run' = Goto(r, "list")

\* writeFileSync(lockPath, pid, { flag: 'wx' }).
Create(r) ==
  /\ ~ lock.there
  /\ lock' = [there |-> TRUE, by |-> r, stale |-> FALSE]
  /\ run' = Goto(r, "list")

TryLock(r) ==
  /\ At(r, "lock")
  /\ \/ Create(r)
     \/ lock.there /\ run' = Goto(r, "stat") /\ UNCHANGED lock
  /\ UNCHANGED <<list, burns, mintedBy, trustline, balance, paid, stolen>>

\* statSync: a fresh file ends the run, a stale one is removed next, a missing one is a retry.
Stat(r) ==
  /\ At(r, "stat")
  /\ \/ ~ lock.there /\ run' = Goto(r, "again")
     \/ lock.there /\ lock.stale /\ run' = Goto(r, "unlink")
     \/ lock.there /\ ~ lock.stale /\ run' = End(r, "locked")
  /\ UNCHANGED <<lock, list, burns, mintedBy, trustline, balance, paid, stolen>>

\* unlinkSync, whatever file is there by now.
Unlink(r) ==
  /\ At(r, "unlink")
  /\ \/ /\ lock.there
        /\ lock' = NoLock
        /\ stolen' = (stolen \/ (lock.by # NoRun /\ Alive(lock.by)))
        /\ run' = Goto(r, "create")
     \/ /\ ~ lock.there
        /\ run' = Goto(r, "again")
        /\ UNCHANGED <<lock, stolen>>
  /\ UNCHANGED <<list, burns, mintedBy, trustline, balance, paid>>

CreateAfterUnlink(r) ==
  /\ At(r, "create")
  /\ \/ Create(r)
     \/ lock.there /\ run' = Goto(r, "again") /\ UNCHANGED lock
  /\ UNCHANGED <<list, burns, mintedBy, trustline, balance, paid, stolen>>

\* The one retry.
CreateAgain(r) ==
  /\ At(r, "again")
  /\ \/ Create(r)
     \/ lock.there /\ run' = End(r, "locked") /\ UNCHANGED lock
  /\ UNCHANGED <<list, burns, mintedBy, trustline, balance, paid, stolen>>

\* `finally` removes the file without a look at who wrote it.
Release(r) ==
  /\ At(r, "release")
  /\ lock' = NoLock
  /\ run' = Goto(r, "done")
  /\ UNCHANGED <<list, burns, mintedBy, trustline, balance, paid, stolen>>

\* Five minutes pass.
LockAges ==
  /\ lock.there
  /\ ~ lock.stale
  /\ lock' = [lock EXCEPT !.stale = TRUE]
  /\ UNCHANGED <<list, burns, mintedBy, trustline, balance, paid, run, stolen>>
-----------------------------------------------------------------------------
(***************************************************************************)
(* From the burn to the receipt.                                           *)
(***************************************************************************)
\* Mutant: the file is not read back, or does not parse, and the list starts empty.
ReadNothing(r) ==
  /\ At(r, "list")
  /\ run' = Goto(r, IF run[r].hash = NoHash THEN "burn" ELSE "account")
  /\ UNCHANGED <<lock, list, burns, mintedBy, trustline, balance, paid, stolen>>

\* A burn the list has is refused (REPLAY); Exit is the refusal of the environment.
ReadList(r) ==
  /\ At(r, "list")
  /\ \/ run[r].hash \in list /\ run' = End(r, "failed")
     \/ /\ run[r].hash \notin list
        /\ run' = [run EXCEPT ![r].seen = list,
                              ![r].pc = IF run[r].hash = NoHash THEN "burn" ELSE "account"]
  /\ UNCHANGED <<lock, list, burns, mintedBy, trustline, balance, paid, stolen>>

\* A burn's maxFee: a quote resolved, or the operator's.  planBurn refuses one over the amount.
MaxFees(amount) ==
  {m \in {[quote |-> q, maxFee |-> ResolveMaxFee(amount, q)] : q \in Quotes}
           \cup {[quote |-> NoQuote, maxFee |-> f] : f \in OperatorFees} : m.maxFee <= amount}

\* executeBurn up to depositForBurnWithHook; a failed check or approval is Exit or Throw.
SendBurn(r, h, amount) ==
  /\ At(r, "burn")
  /\ burns[h].st = "none"
  /\ \E m \in MaxFees(amount) : burns' = [burns EXCEPT ![h] =
       [st |-> "sent", amount |-> amount, quote |-> m.quote, maxFee |-> m.maxFee]]
  /\ run' = [run EXCEPT ![r].pc = "receipt", ![r].hash = h]
  /\ UNCHANGED <<lock, list, mintedBy, trustline, balance, paid, stolen>>

\* The receipt, or the wait for it times out and the run forgets a burn that may yet land.
AwaitReceipt(r) ==
  /\ At(r, "receipt")
  /\ \/ burns[run[r].hash].st = "burnt" /\ run' = Goto(r, "account")
     \/ run' = End(r, "failed")
  /\ UNCHANGED <<lock, list, burns, mintedBy, trustline, balance, paid, stolen>>

\* readAccountState (after the friendbot, if it must), then the forwarder is looked for.
ReadAccount(r) ==
  /\ At(r, "account")
  /\ run' = [run EXCEPT ![r].pc = "trustline", ![r].trusted = trustline,
                        ![r].before = balance, ![r].others = 0]
  /\ UNCHANGED <<lock, list, burns, mintedBy, trustline, balance, paid, stolen>>

\* The change-trust is confirmed before the sequence of the mint is read.
EnsureTrustline(r) ==
  /\ At(r, "trustline")
  /\ trustline' = (trustline \/ ~ run[r].trusted)
  /\ run' = Goto(r, "receive")
  /\ UNCHANGED <<lock, list, burns, mintedBy, balance, paid, stolen>>

\* receive() mints: the burn is spent and its amount less the executed fee credited.  It
\* returns, or the confirmation is lost, or a net amount of zero makes it throw.
Mint(r, fee) ==
  LET h == run[r].hash
      credit == Stroops(burns[h].amount - fee)
  IN  /\ At(r, "receive")
      /\ burns[h].st = "burnt"
      /\ mintedBy[h] = NoRun
      /\ trustline
      /\ mintedBy' = [mintedBy EXCEPT ![h] = r]
      /\ balance' = balance + credit
      /\ \/ /\ fee < burns[h].amount
            /\ run' = [Credited(credit) EXCEPT ![r] =
                         [run[r] EXCEPT !.pc = "after", !.credit = credit]]
         \/ run' = [Credited(credit) EXCEPT ![r] = Thrown(r)[r]]
      /\ UNCHANGED <<lock, list, burns, trustline, paid, stolen>>

\* Circle takes nothing of a Standard transfer, and up to maxFee of a Fast one.
ReceiveMints(r) ==
  run[r].hash \in Hashes /\ \E fee \in {0, burns[run[r].hash].maxFee} : Mint(r, fee)

\* Mutant: the balances are read and not compared.
ProveAnyway(r) ==
  /\ At(r, "after")
  /\ run' = Goto(r, "write")
  /\ UNCHANGED <<lock, list, burns, mintedBy, trustline, balance, paid, stolen>>

\* The delta must be the whole burnt amount; otherwise `settled: false` and exit 1.
Prove(r) ==
  LET proven == balance = run[r].before + Stroops(burns[run[r].hash].amount) IN
  /\ At(r, "after")
  /\ \/ proven /\ run' = Goto(r, "write")
     \/ ~ proven /\ run' = End(r, "unproven")
  /\ UNCHANGED <<lock, list, burns, mintedBy, trustline, balance, paid, stolen>>

\* atomicWriteJson of the list read at the start, and the receipt on stdout.
WriteList(r) ==
  /\ At(r, "write")
  /\ list' = run[r].seen \cup {run[r].hash}
  /\ run' = [run EXCEPT ![r].pc = "release", ![r].out = "settled", ![r].seen = {},
                        ![r].before = 0, ![r].trusted = FALSE]
  /\ UNCHANGED <<lock, burns, mintedBy, trustline, balance, paid, stolen>>
-----------------------------------------------------------------------------
(***************************************************************************)
(* The rest of the world.                                                  *)
(***************************************************************************)
\* A burn sent lands.
Lands(h) ==
  /\ burns[h].st = "sent"
  /\ burns' = [burns EXCEPT ![h].st = "burnt"]
  /\ UNCHANGED <<lock, list, mintedBy, trustline, balance, paid, run, stolen>>

\* Someone pays the destination, while a run might take it for its own mint.
Pay(p) ==
  /\ trustline
  /\ \E r \in Runs : Measuring(r)
  /\ paid + p <= MaxPaid
  /\ paid' = paid + p
  /\ balance' = balance + p
  /\ run' = Credited(p)
  /\ UNCHANGED <<lock, list, burns, mintedBy, trustline, stolen>>

RunStep(r) ==
  \/ TryLock(r) \/ Stat(r) \/ Unlink(r) \/ CreateAfterUnlink(r) \/ CreateAgain(r)
  \/ ReadList(r)
  \/ \E h \in Hashes, amount \in Amounts : SendBurn(r, h, amount)
  \/ AwaitReceipt(r) \/ ReadAccount(r) \/ EnsureTrustline(r)
  \/ ReceiveMints(r) \/ Prove(r) \/ WriteList(r)
  \/ Release(r)

AutoNext ==
  \/ \E r \in Runs, h \in Hashes \cup {NoHash} : Begin(r, h)
  \/ \E r \in Runs : RunStep(r) \/ Exit(r) \/ Throw(r) \/ Crash(r)
  \/ LockAges
  \/ \E h \in Hashes : Lands(h)
  \/ \E p \in Payments : Pay(p)

AutoSpec == AutoInit /\ [][AutoNext]_autoVars
-----------------------------------------------------------------------------
\* "Single-process guard": two runs are past the lock at once only after a lock file was
\* removed while the run that wrote it went on, because it was taken for stale.
OneHolder ==
  ~ stolen => \A r, q \in Runs : Alive(r) /\ Alive(q) => r = q

\* Under the same guard, a burn a run has reported settled stays in the list.
NothingForgotten ==
  ~ stolen => \A r \in Runs : run[r].out = "settled" => run[r].hash \in list

\* The list stands for a receipt of each burn in it.
AutoSettlement ==
  INSTANCE Settlement WITH
    Burns <- Hashes,
    Txs <- Runs,
    None <- NoRun,
    credited <- mintedBy,
    receipt <- [h \in Hashes |-> IF h \in list THEN mintedBy[h] ELSE NoRun]

\* A burn is refused as processed only if it was minted, by this run or another, also after
\* a lock was stolen and lists were written over each other.
ListedAreMinted == \A h \in list : mintedBy[h] # NoRun

\* Until a lock is stolen, the runs together do what Settlement asks: one credit a burn, a
\* receipt only for it, and none taken back, although each run writes the whole list as it
\* read it before its mint and any of them may be killed at any point.
ListKeepsReceipts ==
  /\ AutoSettlement!Init
  /\ [][~ stolen => UNCHANGED AutoSettlement!vars \/ AutoSettlement!Next]_autoVars

\* A run that reports `settled` minted the burn itself, so no other did and no other run can
\* report it; and the delta it saw is the burnt amount in full, or somebody paid the rest.
ProvenIsOwnMint ==
  \A r \in Runs : run[r].out = "settled" =>
    LET h == run[r].hash IN
    /\ h \in Hashes /\ mintedBy[h] = r
    /\ run[r].credit = Stroops(burns[h].amount) \/ run[r].others > 0

\* A maxFee from a quote in whole tenths of a basis point covers what Circle asks for, and
\* exceeds it by less than one unit.  (resolveMaxFee rounds anything finer, up or down.)
QuotedFeeSuffices ==
  \A h \in Hashes :
    LET b == burns[h] IN
    b.quote \in Quotes /\ b.quote % 10 = 0 =>
      /\ b.maxFee * 1000000 >= b.amount * b.quote
      /\ b.maxFee * 1000000 < b.amount * b.quote + 1000000
=============================================================================
