-------------------------------- MODULE Panel --------------------------------
(***************************************************************************)
(* The deposit panel, apps/demo/src/components/CatalogSection.tsx: the     *)
(* fetches, the timer and the refs that drive the machine of Deposit.      *)
(*                                                                         *)
(* A click is one step: its handler, the effects of an earlier rendering   *)
(* that still wait, the rendering of all that is queued, and its effects.  *)
(* The continuation after a fetch only queues its update: React commits it *)
(* in a later task (Render), until which the buttons shown are those of    *)
(* the commit before, and runs its effects in a task after that (Effects). *)
(* A wallet stays connected.                                               *)
(***************************************************************************)
EXTENDS Deposit, Naturals

CONSTANTS
  Runs,       \* calls of startRun(), and the transfers they register
  MaxCalls    \* bound: requests of one transfer that are under way at once

ASSUME PanelAssumption == None \notin Runs /\ MaxCalls \in Nat \ {0}

VARIABLES
  deposit,    \* the machine's state, queued updates included
  shown,      \* the step and the mode that were committed last
  effected,   \* those of the last commit whose effects have run
  runRef,     \* the transfer the poller is driving
  polling,    \* pollingRef
  timer,      \* the poll timer is armed
  quoteAsked, \* the mode of the latest fee request, while it is under way
  runs,       \* runs[r]: what startRun() registers
  polls,      \* polls[r]: status requests for transfer r under way
  settles     \* settles[r]: settle requests for transfer r under way

refs == <<runRef, polling, timer>>

vars == <<deposit, shown, effected, runRef, polling, timer, quoteAsked, runs, polls, settles>>

Views == [step : Steps, mode : Modes]

\* What the effects of the panel depend on.
View(d) == [step |-> d.step, mode |-> d.mode]

NoRun == [st |-> "none", burn |-> None, mode |-> "fast"]

TransferRuns == [st : {"none", "starting", "open", "failed"}, burn : Burns \cup {None},
                 mode : Modes]

\* The type invariant of the panel: depositMachine.ts and CatalogSection.tsx.
TypeOK ==
  /\ deposit \in DepositStates
  /\ shown \in Views
  /\ effected \in Views
  /\ runRef \in Runs \cup {None}
  /\ polling \in BOOLEAN
  /\ timer \in BOOLEAN
  /\ quoteAsked \in Modes \cup {None}
  /\ runs \in [Runs -> TransferRuns]
  /\ polls \in [Runs -> 0 .. MaxCalls]
  /\ settles \in [Runs -> 0 .. MaxCalls]

\* The panel as it mounts: its first effects ask for a quote.
Init ==
  /\ deposit = Initial
  /\ shown = View(Initial)
  /\ effected = View(Initial)
  /\ runRef = None
  /\ polling = FALSE
  /\ timer = FALSE
  /\ quoteAsked = Initial.mode
  /\ runs = [r \in Runs |-> NoRun]
  /\ polls = [r \in Runs |-> 0]
  /\ settles = [r \in Runs |-> 0]
-----------------------------------------------------------------------------
FinishRun == polling' = FALSE /\ timer' = FALSE

\* startRun(), up to its first await: the inputs are those of the rendering.
StartRun(r, m) ==
  \E b \in Burns : runs' = [runs EXCEPT ![r] = [st |-> "starting", burn |-> b, mode |-> m]]

Registers(m) == \E r \in Runs : runs[r] = NoRun /\ StartRun(r, m)

(***************************************************************************)
(* The effects of a commit `to`, when those of `from` ran last: the poller *)
(* is stopped, a quote is asked for, a transfer is started.                *)
(***************************************************************************)
Stops(from, to) == to.step # from.step /\ to.step \notin PollingSteps

Asks(from, to) == to.mode # from.mode \/ (to.step # from.step /\ to.step = "quoting")

Starts(from, to, ref) == to.step # from.step /\ to.step = "burning" /\ ref = None

\* React commits what the answers have queued; a commit waits for the effects before it.
Render ==
  /\ effected = shown
  /\ View(deposit) # shown
  /\ shown' = View(deposit)
  /\ UNCHANGED <<deposit, effected, refs, quoteAsked, runs, polls, settles>>

\* The effects of the last commit run, whatever was queued and armed meanwhile.
Effects ==
  /\ effected # shown
  /\ effected' = shown
  /\ polling' = (polling /\ ~ Stops(effected, shown))
  /\ timer' = (timer /\ ~ Stops(effected, shown))
  /\ quoteAsked' = IF Asks(effected, shown) THEN shown.mode ELSE quoteAsked
  /\ \/ Starts(effected, shown, runRef) /\ Registers(shown.mode)
     \/ ~ Starts(effected, shown, runRef) /\ UNCHANGED runs
  /\ UNCHANGED <<deposit, shown, runRef, polls, settles>>

(***************************************************************************)
(* A click whose handler leaves the refs ref, isPolling and armed and      *)
(* queues state d: the effects that wait, and those of the commit of d.    *)
(***************************************************************************)
Clicked(d, ref, isPolling, armed, rerouted) ==
  LET to    == View(d)
      stops == Stops(effected, shown) \/ Stops(shown, to)
      late  == Starts(effected, shown, ref)
      now   == Starts(shown, to, ref)
  IN  /\ deposit' = d
      /\ shown' = to
      /\ effected' = to
      /\ runRef' = ref
      /\ polling' = (isPolling /\ ~ stops)
      /\ timer' = (armed /\ ~ stops)
      /\ quoteAsked' = IF rerouted \/ Asks(shown, to) THEN to.mode
                       ELSE IF Asks(effected, shown) THEN shown.mode
                       ELSE quoteAsked
      /\ \/ late /\ Registers(shown.mode)
         \/ now /\ Registers(to.mode)
         \/ ~ late /\ ~ now /\ UNCHANGED runs
      /\ UNCHANGED <<polls, settles>>
-----------------------------------------------------------------------------
(***************************************************************************)
(* Clicks: what is offered depends on what is shown.                       *)
(***************************************************************************)
ModeChange(m) ==
  /\ shown.step \in PreBurnSteps
  /\ Clicked(ModeChanged(deposit, m), runRef, polling, timer, FALSE)

\* Another source domain is selected: the quote is asked for again.
ChangeRoute == Clicked(deposit, runRef, polling, timer, TRUE)

\* Mutant: the run of the previous attempt is kept.
ExecuteKeepsRun ==
  /\ shown.step \in PreBurnSteps
  /\ \E r \in Runs : runs[r] = NoRun
  /\ \E usable \in BOOLEAN :
       Clicked(Executed(deposit, usable), runRef, FALSE, FALSE, FALSE)

\* Execute, with a transfer left to start (the bound on transfers).
Execute ==
  /\ shown.step \in PreBurnSteps
  /\ \E r \in Runs : runs[r] = NoRun
  /\ \E usable \in BOOLEAN : Clicked(Executed(deposit, usable), None, FALSE, FALSE, FALSE)

\* Execute with a simulated error selected.
ExecuteSimulatedError ==
  /\ shown.step \in PreBurnSteps
  /\ Clicked(Errored(deposit), runRef, polling, timer, FALSE)

Cancel ==
  /\ shown.step \in PollingSteps
  /\ Clicked(Cancelled(deposit), runRef, FALSE, FALSE, FALSE)

RetryStandard ==
  /\ shown.step = "cancelled"
  /\ runRef # None
  /\ Clicked(RetriedAsStandard(deposit), runRef, TRUE, TRUE, FALSE)

DismissCancelled ==
  /\ shown.step = "cancelled"
  /\ Clicked([Initial EXCEPT !.mode = shown.mode], None, FALSE, FALSE, FALSE)

Click ==
  \/ \E m \in Modes : ModeChange(m)
  \/ ChangeRoute
  \/ Execute
  \/ ExecuteSimulatedError
  \/ Cancel
  \/ RetryStandard
  \/ DismissCancelled
-----------------------------------------------------------------------------
(***************************************************************************)
(* The timer and the continuations of the fetches.                         *)
(***************************************************************************)
\* The latest fee request ends; the answers to earlier ones are dropped.
QuoteReturns ==
  /\ quoteAsked # None
  /\ quoteAsked' = None
  /\ \/ \E overCap \in BOOLEAN : deposit' = QuoteReceived(deposit, quoteAsked, overCap)
     \/ UNCHANGED deposit
  /\ UNCHANGED <<shown, effected, refs, runs, polls, settles>>

\* The intent is registered: the transfer becomes the one the poller drives.
StartSucceeds(r) ==
  /\ runs[r].st = "starting"
  /\ runs' = [runs EXCEPT ![r].st = "open"]
  /\ runRef' = r
  /\ polling' = TRUE
  /\ timer' = TRUE
  /\ deposit' = BurnSubmitted(deposit, runs[r].burn, runs[r].mode)
  /\ UNCHANGED <<shown, effected, quoteAsked, polls, settles>>

\* The inputs, the wallet or the server refuse it.
StartFails(r) ==
  /\ runs[r].st = "starting"
  /\ runs' = [runs EXCEPT ![r].st = "failed"]
  /\ runRef' = None
  /\ FinishRun
  /\ deposit' = Errored(deposit)
  /\ UNCHANGED <<shown, effected, quoteAsked, polls, settles>>

\* pollOnce(), up to its await.
TimerFires ==
  /\ timer
  /\ timer' = FALSE
  /\ \/ /\ runRef # None /\ polling
        /\ polls[runRef] + settles[runRef] < MaxCalls
        /\ polls' = [polls EXCEPT ![runRef] = @ + 1]
     \/ (runRef = None \/ ~ polling) /\ UNCHANGED polls
  /\ UNCHANGED <<deposit, shown, effected, runRef, polling, quoteAsked, runs, settles>>

\* The request fails, or the server answers with an error.
PollFails(r) ==
  /\ polls[r] > 0
  /\ polls' = [polls EXCEPT ![r] = @ - 1]
  /\ FinishRun
  /\ deposit' = Errored(deposit)
  /\ UNCHANGED <<shown, effected, runRef, quoteAsked, runs, settles>>

\* Mutant: the answer is used without a look at pollingRef.
PollAnswersAlways(r, frame) ==
  /\ polls[r] > 0
  /\ polls' = [polls EXCEPT ![r] = @ - 1]
  /\ \/ /\ frame \in {"settled", "failed"}
        /\ FinishRun
        /\ deposit' = StatusRead(deposit, runs[r].burn, frame)
        /\ UNCHANGED settles
     \/ /\ frame = "ready"
        /\ deposit' = SettleReady(StatusRead(deposit, runs[r].burn, frame))
        /\ settles' = [settles EXCEPT ![r] = @ + 1]
        /\ UNCHANGED <<polling, timer>>
     \/ /\ frame \in {"attesting", "degraded"}
        /\ deposit' = StatusRead(deposit, runs[r].burn, frame)
        /\ timer' = (runRef # None)
        /\ UNCHANGED <<polling, settles>>
  /\ UNCHANGED <<shown, effected, runRef, quoteAsked, runs>>

\* Mutant: the next poll is armed only after a frame that reports progress.
PollAnswersUnarmed(r, frame) ==
  /\ polls[r] > 0
  /\ polls' = [polls EXCEPT ![r] = @ - 1]
  /\ \/ /\ ~ polling
        /\ UNCHANGED <<deposit, polling, timer, settles>>
     \/ /\ polling /\ frame \in {"settled", "failed"}
        /\ FinishRun
        /\ deposit' = StatusRead(deposit, runs[r].burn, frame)
        /\ UNCHANGED settles
     \/ /\ polling /\ frame = "ready"
        /\ deposit' = SettleReady(StatusRead(deposit, runs[r].burn, frame))
        /\ settles' = [settles EXCEPT ![r] = @ + 1]
        /\ UNCHANGED <<polling, timer>>
     \/ /\ polling /\ frame \in {"attesting", "degraded"}
        /\ deposit' = StatusRead(deposit, runs[r].burn, frame)
        /\ timer' = (frame = "degraded")
        /\ UNCHANGED <<polling, settles>>
  /\ UNCHANGED <<shown, effected, runRef, quoteAsked, runs>>

(***************************************************************************)
(* A frame for transfer r arrives: dropped when the wait is over, else it  *)
(* ends the wait, starts settling, or arms the next poll.                  *)
(***************************************************************************)
PollAnswers(r, frame) ==
  /\ polls[r] > 0
  /\ polls' = [polls EXCEPT ![r] = @ - 1]
  /\ \/ /\ ~ polling
        /\ UNCHANGED <<deposit, polling, timer, settles>>
     \/ /\ polling /\ frame \in {"settled", "failed"}
        /\ FinishRun
        /\ deposit' = StatusRead(deposit, runs[r].burn, frame)
        /\ UNCHANGED settles
     \/ /\ polling /\ frame = "ready"
        /\ deposit' = SettleReady(StatusRead(deposit, runs[r].burn, frame))
        /\ settles' = [settles EXCEPT ![r] = @ + 1]
        /\ UNCHANGED <<polling, timer>>
     \/ /\ polling /\ frame \in {"attesting", "degraded"}
        /\ deposit' = StatusRead(deposit, runs[r].burn, frame)
        /\ timer' = (runRef # None)
        /\ UNCHANGED <<polling, settles>>
  /\ UNCHANGED <<shown, effected, runRef, quoteAsked, runs>>

\* settleRun() ends with a receipt, or with an error.
SettleReturns(r) ==
  /\ settles[r] > 0
  /\ settles' = [settles EXCEPT ![r] = @ - 1]
  /\ FinishRun
  /\ deposit' \in {SettledWith(deposit, runs[r].burn), Errored(deposit)}
  /\ UNCHANGED <<shown, effected, runRef, quoteAsked, runs, polls>>

StartReturns(r) == StartSucceeds(r) \/ StartFails(r)

PollReturns(r) == PollFails(r) \/ \E frame \in Frames : PollAnswers(r, frame)

Next ==
  \/ Click
  \/ Render
  \/ Effects
  \/ QuoteReturns
  \/ TimerFires
  \/ \E r \in Runs : StartReturns(r) \/ PollReturns(r) \/ SettleReturns(r)

Spec == Init /\ [][Next]_vars

\* React commits what is queued, effects run, fetches end, and the timer fires.  The user
\* owes nothing.
FairSpec ==
  /\ Spec
  /\ WF_vars(Render)
  /\ WF_vars(Effects)
  /\ WF_vars(QuoteReturns)
  /\ WF_vars(TimerFires)
  /\ \A r \in Runs : /\ WF_vars(StartReturns(r))
                     /\ WF_vars(PollReturns(r))
                     /\ WF_vars(SettleReturns(r))
-----------------------------------------------------------------------------
(***************************************************************************)
(* Properties.                                                             *)
(***************************************************************************)
\* A step in which the panel waits has something at work on it: a transfer is being
\* registered, a poll is armed or under way and its answer will be used, or a settle
\* request is out.
Driven ==
  /\ deposit.step = "burning" /\ shown.step = "burning" /\ effected.step = "burning" =>
       \E r \in Runs : runs[r].st = "starting"
  /\ deposit.step \in PollingSteps =>
       /\ polling
       /\ runRef # None
       /\ timer \/ \E r \in Runs : polls[r] > 0
  /\ deposit.step = "settling" => \E r \in Runs : settles[r] > 0

\* CatalogSection.tsx:175-180 stops the poller for the commit it belongs to, even if a
\* transfer registered since has armed it again.
StaleStop == Stops(effected, shown) /\ deposit.step \in PollingSteps

\* Cancels, retries and the late answers of earlier transfers never leave a registration, a
\* wait for the attestation or a settling with nothing at work on it, with one exception:
\* the effect of an earlier commit that stops the poller after a newer transfer armed it.
\* (A `quoting` whose quote failed is not among the steps: see RetryCanRequote.)
WaitsStayDriven ==
  [][Driven => Driven' \/ (StaleStop /\ (Effects \/ Click))]_vars

\* CatalogSection.tsx:912, "Cancelled - no mint was attempted": while the panel says so, no
\* answer to a poll that was under way when the user cancelled starts a settle request.  (One
\* whose answer came just before the cancel may have: its request is not withdrawn.)
NoSettleWhileCancelled ==
  [][deposit.step = "cancelled" => \A r \in Runs : settles'[r] <= settles[r]]_vars

\* depositMachine.ts:75 and :183: a Fast transfer is registered only when a quote for Fast
\* was received, however quotes, toggles of the mode and Execute interleave.
FastNeedsQuote ==
  [][\A r \in Runs :
       runs'[r].st = "starting" /\ runs[r].st = "none" /\ runs'[r].mode = "fast"
         => deposit.quote = "fast"]_vars

\* Registering a burn and settling it end: no step of the panel that offers no button is
\* entered for good.
WaitsEnd ==
  \A step \in {"burning", "settling"} : deposit.step = step ~> deposit.step # step

\* depositMachine.ts:244, "Terminal states are absorbing", and CatalogSection.tsx:250,
\* "cancelled while the request was in flight": a cancelled wait is left only by the
\* user's retry or dismissal.
CancelledIsAbsorbing ==
  [][deposit.step = "cancelled" => Click \/ UNCHANGED deposit.step]_vars

\* CatalogSection.tsx:415, "Fee quote unavailable - retry", and depositMachine.ts:75, "must
\* re-quote": where Execute waits for a quote and no request for one is under way,
\* pressing Execute again can make one.
RetryCanRequote ==
  /\ deposit.step = "quoting"
  /\ shown.step = "quoting"
  /\ deposit.quote # deposit.mode
  /\ quoteAsked = None
  => ENABLED (Execute /\ quoteAsked' # None)
=============================================================================
