---------------------------- MODULE Panel_proofs -----------------------------
(***************************************************************************)
(* Proofs about Panel: for any number of transfers and of requests.        *)
(***************************************************************************)
EXTENDS Panel, TLAPS

\* Requests of a transfer that are under way stay within the bound.
CallsBounded == \A r \in Runs : polls[r] + settles[r] <= MaxCalls

\* A transfer has the burn hash it was started with.
RunsHaveBurns == \A r \in Runs : runs[r].st # "none" => runs[r].burn \in Burns

\* The steps before a registration are reached from the rendering and the effects of the
\* step before them, and no earlier transfer is in the poller's hands.
PreparingIsShown ==
  /\ deposit.step = "quoting" => shown = View(deposit) /\ effected = shown
  /\ deposit.step = "burning" /\ shown.step # "burning" =>
       effected = shown /\ shown.step = "quoting" /\ shown.mode = deposit.mode
  /\ shown.step = "burning" /\ effected.step # "burning" => shown.mode = effected.mode
  /\ deposit.step \in {"quoting", "burning"} => runRef = None

\* A cancel is a click: its effects have run.
CancelledIsShown ==
  /\ deposit.step = "cancelled" => shown.step = "cancelled"
  /\ shown.step = "cancelled" => effected.step = "cancelled"

\* The fee request under way is for the mode whose effects ran last.
AskedIsEffected == quoteAsked \in {None, effected.mode}

\* After the registration the panel knows its burn.
BurnIsKnown ==
  deposit.step \in PollingSteps \cup {"settling", "cancelled"} => deposit.burn # None

CancelledIsQuiet == deposit.step = "cancelled" => ~ polling

\* A Fast transfer about to be registered has its quote.
FastIsQuoted ==
  /\ deposit.step = "burning" /\ shown.step # "burning" /\ deposit.mode = "fast" =>
       deposit.quote = "fast"
  /\ shown.step = "burning" /\ effected.step # "burning" /\ shown.mode = "fast" =>
       deposit.quote = "fast"

PanelInv ==
  /\ TypeOK
  /\ CallsBounded
  /\ RunsHaveBurns
  /\ PreparingIsShown
  /\ CancelledIsShown
  /\ AskedIsEffected
  /\ BurnIsKnown
  /\ CancelledIsQuiet
  /\ FastIsQuoted
-----------------------------------------------------------------------------
(***************************************************************************)
(* The machine's events stay within its states.                            *)
(***************************************************************************)
LEMMA InitialType == Initial \in DepositStates
  BY DEF Initial, DepositStates, Steps, PreBurnSteps, Modes

\* Every reducer event yields a deposit state.
LEMMA EventTypes ==
  ASSUME NEW d \in DepositStates, NEW m \in Modes, NEW b \in Burns \cup {None}
  PROVE  /\ Errored(d) \in DepositStates
         /\ SettledWith(d, b) \in DepositStates
         /\ ModeChanged(d, m) \in DepositStates
         /\ \A overCap \in BOOLEAN : QuoteReceived(d, m, overCap) \in DepositStates
         /\ \A usable \in BOOLEAN : Executed(d, usable) \in DepositStates
         /\ BurnSubmitted(d, b, m) \in DepositStates
         /\ \A frame \in Frames : StatusRead(d, b, frame) \in DepositStates
         /\ SettleReady(d) \in DepositStates
         /\ Cancelled(d) \in DepositStates
         /\ RetriedAsStandard(d) \in DepositStates
  <1> USE DEF DepositStates, Steps, PollingSteps, TerminalSteps, PreBurnSteps
  <1>1. \A step \in Steps : [d EXCEPT !.step = step] \in DepositStates
    OBVIOUS
  <1>2. SettledWith(d, b) \in DepositStates
    BY DEF SettledWith
  <1>3. Errored(d) \in DepositStates /\ Degraded(d) \in DepositStates
    BY <1>1 DEF Errored, Degraded
  <1>4. ModeChanged(d, m) \in DepositStates
    BY DEF ModeChanged
  <1>5. \A overCap \in BOOLEAN : QuoteReceived(d, m, overCap) \in DepositStates
    BY DEF QuoteReceived
  <1>6. \A usable \in BOOLEAN : Executed(d, usable) \in DepositStates
    BY <1>1 DEF Executed
  <1>7. BurnSubmitted(d, b, m) \in DepositStates
    BY DEF BurnSubmitted
  <1>8. \A frame \in Frames : StatusRead(d, b, frame) \in DepositStates
    BY <1>2, <1>3 DEF StatusRead, Frames
  <1>9. SettleReady(d) \in DepositStates /\ Cancelled(d) \in DepositStates
    BY <1>1 DEF SettleReady, Cancelled
  <1>10. RetriedAsStandard(d) \in DepositStates
    BY <1>1 DEF RetriedAsStandard
  <1> QED
    BY <1>2, <1>3, <1>4, <1>5, <1>6, <1>7, <1>8, <1>9, <1>10

\* What a status frame does to the step, the burn and the quote.
LEMMA StatusMoves ==
  ASSUME NEW d \in DepositStates, NEW b \in Burns \cup {None}, NEW frame \in Frames
  PROVE  /\ StatusRead(d, b, frame).burn = d.burn
         /\ StatusRead(d, b, frame).quote = d.quote
         /\ d.step \notin PollingSteps => StatusRead(d, b, frame) = d
         /\ d.step \in PollingSteps /\ frame \in {"settled", "failed"} =>
              StatusRead(d, b, frame).step \in {"settled", "error"}
         /\ d.step \in PollingSteps /\ frame \in {"attesting", "degraded", "ready"} =>
              StatusRead(d, b, frame).step \in PollingSteps
  BY DEF StatusRead, Frames, DepositStates, SettledWith, Errored, Degraded, PollingSteps
-----------------------------------------------------------------------------
(***************************************************************************)
(* Commits and effects.                                                    *)
(***************************************************************************)
\* A commit of what is queued, its effects still to run.
LEMMA RenderKeeps ==
  ASSUME PanelInv, Render
  PROVE  PanelInv' /\ (Driven => Driven')
  <1> USE DEF PanelInv, TypeOK, Render, refs
  <1>1. TypeOK' /\ CallsBounded' /\ RunsHaveBurns'
    BY DEF CallsBounded, RunsHaveBurns, View, Views, DepositStates
  <1>2. PreparingIsShown' /\ CancelledIsShown' /\ AskedIsEffected'
    BY DEF PreparingIsShown, CancelledIsShown, AskedIsEffected, View, DepositStates
  <1>3. BurnIsKnown' /\ CancelledIsQuiet' /\ FastIsQuoted'
    BY DEF BurnIsKnown, CancelledIsQuiet, FastIsQuoted, View, DepositStates
  <1>4. Driven => Driven'
    BY DEF Driven, View
  <1> QED
    BY <1>1, <1>2, <1>3, <1>4

\* A registration is in a free slot.
LEMMA RegistersTypes ==
  ASSUME PanelInv, NEW m \in Modes, Registers(m)
  PROVE  /\ runs' \in [Runs -> TransferRuns] /\ RunsHaveBurns'
         /\ \E r \in Runs : runs'[r].st = "starting"
  <1> PICK r \in Runs, b \in Burns :
             runs' = [runs EXCEPT ![r] = [st |-> "starting", burn |-> b, mode |-> m]]
    BY DEF Registers, StartRun
  <1>1. [st |-> "starting", burn |-> b, mode |-> m] \in TransferRuns
    BY DEF TransferRuns
  <1> QED
    BY <1>1 DEF PanelInv, TypeOK, RunsHaveBurns

\* The effects of the last commit.
LEMMA EffectsKeep ==
  ASSUME PanelInv, Effects
  PROVE  PanelInv' /\ (Driven => Driven' \/ StaleStop)
  <1> USE DEF PanelInv, TypeOK, Effects
  <1>1. \/ UNCHANGED runs
        \/ shown.mode \in Modes /\ Registers(shown.mode)
    BY DEF Views
  <1>2. runs' \in [Runs -> TransferRuns] /\ RunsHaveBurns'
    BY <1>1, RegistersTypes DEF RunsHaveBurns
  <1>3. TypeOK' /\ CallsBounded'
    BY <1>2 DEF CallsBounded, Views
  <1>4. PreparingIsShown' /\ CancelledIsShown' /\ BurnIsKnown'
    BY DEF PreparingIsShown, CancelledIsShown, BurnIsKnown
  <1>5. AskedIsEffected'
    BY DEF AskedIsEffected, Asks
  <1>6. CancelledIsQuiet' /\ FastIsQuoted'
    BY DEF CancelledIsQuiet, FastIsQuoted, PreparingIsShown
  <1>7. ASSUME Driven, ~ StaleStop PROVE Driven'
    <2>1. deposit.step = "burning" /\ shown.step = "burning" =>
            \E r \in Runs : runs'[r].st = "starting"
      <3>1. CASE effected.step = "burning"
        BY <1>7, <3>1 DEF Driven, Starts
      <3>2. CASE effected.step # "burning" /\ deposit.step = "burning" /\ shown.step = "burning"
        <4>1. Starts(effected, shown, runRef)
          BY <3>2 DEF Starts, PreparingIsShown
        <4> QED
          BY <4>1, RegistersTypes DEF Views
      <3> QED
        BY <3>1, <3>2
    <2>2. deposit.step \in PollingSteps => polling' = polling /\ timer' = timer
      BY <1>7 DEF StaleStop
    <2> QED
      BY <1>7, <2>1, <2>2 DEF Driven
  <1> QED
    BY <1>2, <1>3, <1>4, <1>5, <1>6, <1>7
-----------------------------------------------------------------------------
(***************************************************************************)
(* A click keeps the invariant if what it leaves fits together.            *)
(***************************************************************************)
Fits(d, ref, isPolling) ==
  /\ d.step \in {"quoting", "burning"} => ref = None
  /\ d.step \in PollingSteps \cup {"settling", "cancelled"} => d.burn # None
  /\ d.step = "cancelled" => ~ isPolling \/ shown.step # "cancelled"

DrivenBy(d, ref, isPolling, armed) ==
  /\ d.step = "burning" /\ shown.step = "burning" /\ effected.step = "burning" =>
       \E r \in Runs : runs[r].st = "starting"
  /\ d.step \in PollingSteps =>
       /\ isPolling /\ ref # None /\ (armed \/ \E r \in Runs : polls[r] > 0)
       /\ Stops(effected, shown) => deposit.step \in PollingSteps
  /\ d.step = "settling" => \E r \in Runs : settles[r] > 0

\* A click, with the effects that waited and its own.
LEMMA ClickedKeeps ==
  ASSUME PanelInv, NEW d \in DepositStates, NEW ref \in Runs \cup {None},
         NEW isPolling \in BOOLEAN, NEW armed \in BOOLEAN, NEW rerouted \in BOOLEAN,
         Clicked(d, ref, isPolling, armed, rerouted), Fits(d, ref, isPolling)
  PROVE  PanelInv' /\ (DrivenBy(d, ref, isPolling, armed) => Driven' \/ StaleStop)
  <1> USE DEF PanelInv, TypeOK
  <1>1. /\ deposit' = d /\ shown' = View(d) /\ effected' = View(d)
        /\ runRef' = ref
        /\ polling' \in BOOLEAN /\ timer' \in BOOLEAN
        /\ d.step \in PollingSteps /\ ~ Stops(effected, shown) =>
             polling' = isPolling /\ timer' = armed
        /\ d.step # shown.step /\ d.step \notin PollingSteps => ~ polling'
        /\ polling' => isPolling
        /\ UNCHANGED <<polls, settles>>
    BY DEF Clicked, View, Stops
  <1>2. View(d) \in Views /\ d.step = View(d).step /\ d.mode = View(d).mode
        /\ d.mode \in Modes /\ shown.mode \in Modes
    BY DEF View, Views, DepositStates
  <1>3. quoteAsked' \in Modes \cup {None} /\ quoteAsked' \in {None, View(d).mode}
    BY <1>2 DEF Clicked, Asks, AskedIsEffected
  <1>4. \/ UNCHANGED runs
        \/ \E m \in Modes : Registers(m)
    BY <1>2 DEF Clicked
  <1>5. runs' \in [Runs -> TransferRuns] /\ RunsHaveBurns'
    BY <1>4, RegistersTypes DEF RunsHaveBurns
  <1>6. TypeOK' /\ CallsBounded' /\ AskedIsEffected'
    BY <1>1, <1>2, <1>3, <1>5 DEF CallsBounded, AskedIsEffected
  <1>7. PreparingIsShown' /\ CancelledIsShown' /\ BurnIsKnown'
    BY <1>1, <1>2 DEF PreparingIsShown, CancelledIsShown, BurnIsKnown, Fits
  <1>8. CancelledIsQuiet' /\ FastIsQuoted'
    BY <1>1, <1>2 DEF CancelledIsQuiet, FastIsQuoted, Fits, PollingSteps
  <1>9. ASSUME DrivenBy(d, ref, isPolling, armed), ~ StaleStop PROVE Driven'
    <2>1. d.step = "burning" => \E r \in Runs : runs'[r].st = "starting"
      <3>1. CASE d.step = "burning" /\ shown.step = "burning" /\ effected.step = "burning"
        <4>1. UNCHANGED runs
          BY <1>2, <3>1 DEF Clicked, Starts
        <4> QED
          BY <1>9, <3>1, <4>1 DEF DrivenBy
      <3>2. CASE d.step = "burning" /\ ~ (shown.step = "burning" /\ effected.step = "burning")
        <4>1. \E m \in Modes : Registers(m)
          BY <1>2, <3>2 DEF Clicked, Starts, Fits
        <4> QED
          BY <4>1, RegistersTypes
      <3> QED
        BY <3>1, <3>2
    <2>2. d.step \in PollingSteps => polling' = isPolling /\ timer' = armed
      BY <1>1, <1>9 DEF StaleStop, DrivenBy
    <2> QED
      BY <1>1, <1>9, <2>1, <2>2 DEF Driven, DrivenBy
  <1> QED
    BY <1>5, <1>6, <1>7, <1>8, <1>9

\* The state as it is fits together, and a driven one is driven.
LEMMA CurrentFits ==
  ASSUME PanelInv
  PROVE  /\ Fits(deposit, runRef, polling)
         /\ Driven => DrivenBy(deposit, runRef, polling, timer)
  BY DEF PanelInv, Fits, DrivenBy, Driven, PreparingIsShown, BurnIsKnown, CancelledIsQuiet

\* Every click.
LEMMA ClickKeeps ==
  ASSUME PanelInv, Click
  PROVE  PanelInv' /\ (Driven => Driven' \/ StaleStop)
  <1> USE DEF PanelInv, TypeOK
  <1>0. deposit \in DepositStates /\ runRef \in Runs \cup {None} /\ None \in Runs \cup {None}
        /\ polling \in BOOLEAN /\ timer \in BOOLEAN /\ TRUE \in BOOLEAN /\ FALSE \in BOOLEAN
    OBVIOUS
  <1> DEFINE Kept == PanelInv' /\ (Driven => Driven' \/ StaleStop)
  <1>2. ASSUME NEW m \in Modes, ModeChange(m) PROVE Kept
    <2>1. /\ Fits(ModeChanged(deposit, m), runRef, polling)
          /\ Driven => DrivenBy(ModeChanged(deposit, m), runRef, polling, timer)
      BY CurrentFits DEF Fits, DrivenBy, ModeChanged, PreBurnSteps, DepositStates
    <2>2. ModeChanged(deposit, m) \in DepositStates
      BY EventTypes
    <2> QED
      BY <1>0, <1>2, <2>1, <2>2, ClickedKeeps DEF ModeChange
  <1>3. CASE ChangeRoute
    BY <1>0, <1>3, CurrentFits, ClickedKeeps DEF ChangeRoute
  <1>4. CASE Execute
    <2> PICK usable \in BOOLEAN : Clicked(Executed(deposit, usable), None, FALSE, FALSE, FALSE)
      BY <1>4 DEF Execute
    <2>1. Executed(deposit, usable).step \in {"quoting", "burning"} /\ shown.step # "burning"
      BY <1>4 DEF Execute, Executed, PreBurnSteps, DepositStates
    <2>2. /\ Fits(Executed(deposit, usable), None, FALSE)
          /\ DrivenBy(Executed(deposit, usable), None, FALSE, FALSE)
      BY <2>1 DEF Fits, DrivenBy, PollingSteps
    <2>3. Executed(deposit, usable) \in DepositStates
      BY EventTypes DEF Modes
    <2> QED
      BY <1>0, <2>2, <2>3, ClickedKeeps
  <1>5. CASE ExecuteSimulatedError
    <2>1. /\ Fits(Errored(deposit), runRef, polling)
          /\ DrivenBy(Errored(deposit), runRef, polling, timer)
      BY DEF Fits, DrivenBy, Errored, PollingSteps, DepositStates
    <2>2. Errored(deposit) \in DepositStates
      BY EventTypes DEF Modes
    <2> QED
      BY <1>0, <1>5, <2>1, <2>2, ClickedKeeps DEF ExecuteSimulatedError
  <1>6. CASE Cancel
    <2>1. deposit.step \notin {"idle"} \cup TerminalSteps =>
            deposit.step \in PollingSteps \cup {"settling"}
      BY <1>6 DEF Cancel, PreparingIsShown, PollingSteps, TerminalSteps, PreBurnSteps,
                  DepositStates, Steps, View
    <2>2. /\ Fits(Cancelled(deposit), runRef, FALSE)
          /\ DrivenBy(Cancelled(deposit), runRef, FALSE, FALSE)
      <3>1. \/ Cancelled(deposit) = deposit /\ deposit.step \in {"idle"} \cup TerminalSteps
            \/ /\ Cancelled(deposit).step = "cancelled"
               /\ Cancelled(deposit).burn = deposit.burn
               /\ deposit.step \in PollingSteps \cup {"settling"}
        BY <2>1 DEF Cancelled, DepositStates
      <3> QED
        BY <3>1 DEF Fits, DrivenBy, BurnIsKnown, PollingSteps, TerminalSteps
    <2>3. Cancelled(deposit) \in DepositStates
      BY EventTypes DEF Modes
    <2> QED
      BY <1>0, <1>6, <2>2, <2>3, ClickedKeeps DEF Cancel
  <1>7. CASE RetryStandard
    <2> DEFINE d == RetriedAsStandard(deposit)
    <2>1. shown.step = "cancelled" /\ runRef # None /\ ~ Stops(effected, shown)
      BY <1>7 DEF RetryStandard, CancelledIsShown, Stops
    <2>2. d.burn = deposit.burn /\ (d.step = deposit.step \/ d.step = "attesting")
          /\ d.step # "cancelled"
      BY DEF RetriedAsStandard, BurnIsKnown, DepositStates
    <2>3. d.step \in PollingSteps => deposit.burn # None
      BY DEF RetriedAsStandard, BurnIsKnown, PollingSteps, DepositStates
    <2>4. Fits(d, runRef, TRUE)
      BY <2>1, <2>2, <2>3, CurrentFits DEF Fits, PollingSteps
    <2>5. Driven => DrivenBy(d, runRef, TRUE, TRUE)
      BY <2>1, <2>2 DEF DrivenBy, Driven, PollingSteps
    <2>6. d \in DepositStates
      BY EventTypes DEF Modes
    <2>7. Clicked(d, runRef, TRUE, TRUE, FALSE)
      BY <1>7 DEF RetryStandard
    <2> HIDE DEF d
    <2> QED
      BY <1>0, <2>4, <2>5, <2>6, <2>7, ClickedKeeps
  <1>8. CASE DismissCancelled
    <2>1. [Initial EXCEPT !.mode = shown.mode] \in DepositStates
      BY InitialType DEF DepositStates, Views
    <2>2. /\ Fits([Initial EXCEPT !.mode = shown.mode], None, FALSE)
          /\ DrivenBy([Initial EXCEPT !.mode = shown.mode], None, FALSE, FALSE)
      BY DEF Fits, DrivenBy, Initial, PollingSteps
    <2> QED
      BY <1>0, <1>8, <2>1, <2>2, ClickedKeeps DEF DismissCancelled
  <1> QED
    BY <1>2, <1>3, <1>4, <1>5, <1>6, <1>7, <1>8 DEF Click
-----------------------------------------------------------------------------
(***************************************************************************)
(* So does what arrives later.                                             *)
(***************************************************************************)
\* What arrives later renders nothing, and takes the panel to no step that waits for a quote,
\* for a registration or for the user.
LEMMA LaterKeeps ==
  ASSUME PanelInv, TypeOK', CallsBounded', RunsHaveBurns',
         UNCHANGED <<shown, effected, quoteAsked>>, deposit'.quote = deposit.quote,
         deposit'.step \in {"quoting", "burning"} =>
           deposit'.step = deposit.step /\ deposit'.mode = deposit.mode /\ runRef' = runRef,
         deposit'.step = "cancelled" => deposit.step = "cancelled" /\ (polling' => polling),
         deposit'.step \in PollingSteps \cup {"settling", "cancelled"} => deposit'.burn # None
  PROVE  PanelInv'
  <1> USE DEF PanelInv
  <1>1. PreparingIsShown' /\ CancelledIsShown' /\ AskedIsEffected'
    BY DEF PreparingIsShown, CancelledIsShown, AskedIsEffected, View
  <1>2. BurnIsKnown' /\ CancelledIsQuiet' /\ FastIsQuoted'
    BY DEF BurnIsKnown, CancelledIsQuiet, FastIsQuoted
  <1> QED
    BY <1>1, <1>2

\* The answer to the latest fee request.
LEMMA QuoteKeeps ==
  ASSUME PanelInv, QuoteReturns
  PROVE  PanelInv' /\ (Driven => Driven')
  <1> USE DEF PanelInv, TypeOK, QuoteReturns, refs
  <1>1. CASE UNCHANGED deposit
    <2>1. CallsBounded' /\ RunsHaveBurns' /\ BurnIsKnown' /\ CancelledIsQuiet' /\ FastIsQuoted'
      BY <1>1 DEF CallsBounded, RunsHaveBurns, BurnIsKnown, CancelledIsQuiet, FastIsQuoted
    <2>2. PreparingIsShown' /\ CancelledIsShown' /\ AskedIsEffected'
      BY <1>1 DEF PreparingIsShown, CancelledIsShown, AskedIsEffected, View
    <2> QED
      BY <1>1, <2>1, <2>2 DEF Driven
  <1>2. ASSUME NEW overCap \in BOOLEAN,
               deposit' = QuoteReceived(deposit, quoteAsked, overCap)
        PROVE  PanelInv' /\ (Driven => Driven')
    <2>1. deposit' \in DepositStates
      BY <1>2, EventTypes
    <2>2. /\ deposit'.burn = deposit.burn
          /\ deposit'.quote = quoteAsked /\ deposit'.mode = quoteAsked
          /\ quoteAsked = effected.mode
          /\ \/ deposit'.step = deposit.step
             \/ deposit.step = "quoting" /\ deposit'.step = "burning"
      BY <1>2 DEF QuoteReceived, DepositStates, AskedIsEffected
    <2>3. TypeOK' /\ CallsBounded' /\ RunsHaveBurns' /\ BurnIsKnown' /\ CancelledIsQuiet'
      BY <2>1, <2>2 DEF CallsBounded, RunsHaveBurns, BurnIsKnown, CancelledIsQuiet, PollingSteps
    <2>4. PreparingIsShown'
      BY <2>2 DEF PreparingIsShown, View, Views
    <2>5. CancelledIsShown' /\ AskedIsEffected' /\ FastIsQuoted'
      BY <2>2 DEF CancelledIsShown, AskedIsEffected, FastIsQuoted, PreparingIsShown
    <2>6. Driven => Driven'
      BY <2>2 DEF Driven, PreparingIsShown, View, PollingSteps
    <2> QED
      BY <2>3, <2>4, <2>5, <2>6
  <1> QED
    BY <1>1, <1>2

\* The answer to the request that registers a transfer.
LEMMA StartKeeps ==
  ASSUME PanelInv, NEW r \in Runs, StartReturns(r)
  PROVE  PanelInv' /\ (Driven => Driven')
  <1> USE DEF PanelInv, TypeOK
  <1>1. CASE StartSucceeds(r)
    <2> USE <1>1 DEF StartSucceeds
    <2>1. runs[r].burn \in Burns /\ runs[r].mode \in Modes
      BY DEF RunsHaveBurns, TransferRuns
    <2>2. deposit' \in DepositStates
      BY <2>1, EventTypes
    <2>3. deposit'.step \in PollingSteps /\ deposit'.burn # None /\ deposit'.quote = deposit.quote
      BY <2>1, NoneIsNoBurn DEF BurnSubmitted, DepositStates, PollingSteps
    <2>4. runs' \in [Runs -> TransferRuns] /\ RunsHaveBurns'
      BY DEF RunsHaveBurns, TransferRuns
    <2>5. TypeOK' /\ CallsBounded'
      BY <2>2, <2>4 DEF CallsBounded
    <2>6. PanelInv'
      BY <2>3, <2>4, <2>5, LaterKeeps DEF PollingSteps
    <2> QED
      BY <2>3, <2>6, PanelAssumption DEF Driven, PollingSteps
  <1>2. CASE StartFails(r)
    <2> USE <1>2 DEF StartFails, FinishRun
    <2>1. /\ deposit' \in DepositStates /\ deposit'.step = "error"
          /\ deposit'.quote = deposit.quote
      BY EventTypes DEF Errored, DepositStates, Modes
    <2>2. runs' \in [Runs -> TransferRuns] /\ RunsHaveBurns'
      BY DEF RunsHaveBurns, TransferRuns
    <2>3. TypeOK' /\ CallsBounded'
      BY <2>1, <2>2 DEF CallsBounded
    <2>4. PanelInv'
      BY <2>1, <2>2, <2>3, LaterKeeps DEF PollingSteps
    <2> QED
      BY <2>1, <2>4 DEF Driven, PollingSteps
  <1> QED
    BY <1>1, <1>2 DEF StartReturns

\* The poll timer fires.
LEMMA TimerKeeps ==
  ASSUME PanelInv, TimerFires
  PROVE  PanelInv' /\ (Driven => Driven')
  <1> USE DEF PanelInv, TypeOK, TimerFires
  <1>1. polls' \in [Runs -> 0 .. MaxCalls] /\ CallsBounded'
    BY PanelAssumption DEF CallsBounded
  <1>2. PanelInv'
    BY <1>1, LaterKeeps DEF RunsHaveBurns, BurnIsKnown, PreparingIsShown
  <1>3. Driven /\ deposit.step \in PollingSteps => \E r \in Runs : polls'[r] > 0
    BY DEF Driven
  <1> QED
    BY <1>2, <1>3 DEF Driven

\* The answer to a status request, of this transfer or of one dismissed.
LEMMA PollKeeps ==
  ASSUME PanelInv, NEW r \in Runs, PollReturns(r)
  PROVE  PanelInv' /\ (Driven => Driven')
  <1> USE DEF PanelInv, TypeOK
  <1>1. CASE PollFails(r)
    <2> USE <1>1 DEF PollFails, FinishRun
    <2>1. /\ deposit' \in DepositStates /\ deposit'.step = "error"
          /\ deposit'.quote = deposit.quote
      BY EventTypes DEF Errored, DepositStates, Modes
    <2>2. polls' \in [Runs -> 0 .. MaxCalls] /\ CallsBounded'
      BY PanelAssumption DEF CallsBounded
    <2>3. PanelInv'
      BY <2>1, <2>2, LaterKeeps DEF RunsHaveBurns, PollingSteps
    <2> QED
      BY <2>1, <2>3 DEF Driven, PollingSteps
  <1>2. ASSUME NEW frame \in Frames, PollAnswers(r, frame)
        PROVE  PanelInv' /\ (Driven => Driven')
    <2> DEFINE read == StatusRead(deposit, runs[r].burn, frame)
    <2>1. /\ runs[r].burn \in Burns \cup {None}
          /\ read \in DepositStates /\ SettleReady(read) \in DepositStates
          /\ read.quote = deposit.quote /\ read.burn = deposit.burn
      <3>1. runs[r].burn \in Burns \cup {None} /\ "fast" \in Modes
        BY DEF TransferRuns, Modes
      <3>2. read \in DepositStates
        BY <3>1, EventTypes
      <3>3. SettleReady(read) \in DepositStates
        BY <3>1, <3>2, EventTypes
      <3>4. read.quote = deposit.quote /\ read.burn = deposit.burn
        BY <3>1, StatusMoves
      <3> QED
        BY <3>1, <3>2, <3>3, <3>4
    <2>2. polls' \in [Runs -> 0 .. MaxCalls] /\ polls[r] + settles[r] <= MaxCalls
      BY <1>2, PanelAssumption DEF PollAnswers, CallsBounded
    <2>3. CASE ~ polling
      <3>1. /\ UNCHANGED <<deposit, shown, effected, runRef, polling, timer, quoteAsked, runs,
                         settles>>
            /\ polls' = [polls EXCEPT ![r] = @ - 1]
        BY <1>2, <2>3 DEF PollAnswers
      <3>2. TypeOK' /\ CallsBounded' /\ RunsHaveBurns'
        BY <2>2, <3>1, PanelAssumption DEF CallsBounded, RunsHaveBurns
      <3>3. PanelInv'
        BY <3>1, <3>2, LaterKeeps DEF BurnIsKnown
      <3> QED
        BY <2>3, <3>1, <3>3 DEF Driven
    <2>4. CASE polling /\ frame \in {"settled", "failed"}
      <3>1. /\ deposit' = read /\ polling' = FALSE /\ timer' = FALSE
            /\ UNCHANGED <<shown, effected, runRef, quoteAsked, runs, settles>>
            /\ polls' = [polls EXCEPT ![r] = @ - 1]
        BY <1>2, <2>4 DEF PollAnswers, FinishRun
      <3>2. \/ deposit' = deposit /\ deposit.step \notin PollingSteps
            \/ deposit'.step \in {"settled", "error"}
        BY <2>1, <2>4, <3>1, StatusMoves
      <3>3. CallsBounded' /\ RunsHaveBurns'
        BY <2>2, <3>1, PanelAssumption DEF CallsBounded, RunsHaveBurns
      <3>4. TypeOK'
        BY <2>1, <2>2, <3>1
      <3>5. PanelInv'
        BY <2>1, <3>1, <3>2, <3>3, <3>4, LaterKeeps DEF BurnIsKnown, PollingSteps
      <3> QED
        BY <3>1, <3>2, <3>5 DEF Driven, PollingSteps
    <2>5. CASE polling /\ frame = "ready"
      <3>1. /\ deposit' = SettleReady(read)
            /\ UNCHANGED <<shown, effected, runRef, polling, timer, quoteAsked, runs>>
            /\ polls' = [polls EXCEPT ![r] = @ - 1]
            /\ settles' = [settles EXCEPT ![r] = @ + 1]
        BY <1>2, <2>5 DEF PollAnswers
      <3>2. \/ deposit' = deposit /\ deposit.step \notin PollingSteps
            \/ /\ deposit'.step = "settling" /\ deposit'.burn = deposit.burn
               /\ deposit'.quote = deposit.quote /\ deposit.step \in PollingSteps
        <4>1. CASE deposit.step \in PollingSteps
          <5>1. read.step \in PollingSteps
            BY <2>1, <2>5, <4>1, StatusMoves
          <5> QED
            BY <2>1, <3>1, <4>1, <5>1 DEF SettleReady, DepositStates
        <4>2. CASE deposit.step \notin PollingSteps
          <5>1. read = deposit
            BY <2>1, <4>2, StatusMoves
          <5> QED
            BY <3>1, <4>2, <5>1 DEF SettleReady
        <4> QED
          BY <4>1, <4>2
      <3>3. settles' \in [Runs -> 0 .. MaxCalls] /\ settles'[r] > 0 /\ CallsBounded'
        BY <1>2, <2>2, <3>1, PanelAssumption DEF PollAnswers, CallsBounded
      <3>4. TypeOK' /\ RunsHaveBurns'
        BY <2>1, <2>2, <3>1, <3>3 DEF RunsHaveBurns
      <3>5. PanelInv'
        BY <3>1, <3>2, <3>3, <3>4, LaterKeeps DEF BurnIsKnown, PollingSteps
      <3>6. ASSUME Driven PROVE Driven'
        <4>1. deposit'.step = "settling" => \E s \in Runs : settles'[s] > 0
          BY <3>3
        <4>2. deposit'.step \notin PollingSteps
          BY <3>2 DEF PollingSteps
        <4> QED
          BY <3>1, <3>2, <3>6, <4>1, <4>2 DEF Driven
      <3> QED
        BY <3>5, <3>6
    <2>6. CASE polling /\ frame \in {"attesting", "degraded"}
      <3>1. /\ deposit' = read /\ timer' = (runRef # None)
            /\ UNCHANGED <<shown, effected, runRef, polling, quoteAsked, runs, settles>>
            /\ polls' = [polls EXCEPT ![r] = @ - 1]
        BY <1>2, <2>6 DEF PollAnswers
      <3>2. \/ deposit' = deposit /\ deposit.step \notin PollingSteps
            \/ deposit'.step \in PollingSteps /\ deposit.step \in PollingSteps
        <4>1. CASE deposit.step \in PollingSteps
          BY <2>1, <2>6, <3>1, <4>1, StatusMoves
        <4>2. CASE deposit.step \notin PollingSteps
          BY <2>1, <3>1, <4>2, StatusMoves
        <4> QED
          BY <4>1, <4>2
      <3>3. CallsBounded' /\ RunsHaveBurns'
        BY <2>2, <3>1, PanelAssumption DEF CallsBounded, RunsHaveBurns
      <3>4. timer' \in BOOLEAN
        BY <3>1
      <3>5. TypeOK'
        BY <2>1, <2>2, <3>1, <3>4
      <3>6. PanelInv'
        BY <2>1, <3>1, <3>2, <3>3, <3>5, LaterKeeps DEF BurnIsKnown, PollingSteps
      <3>7. ASSUME Driven PROVE Driven'
        <4>1. deposit'.step \in PollingSteps => polling' /\ runRef' # None /\ timer'
          BY <3>1, <3>2, <3>7 DEF Driven
        <4>2. deposit'.step \in {"burning", "settling"} => deposit' = deposit
          BY <3>2 DEF PollingSteps
        <4> QED
          BY <3>1, <3>7, <4>1, <4>2 DEF Driven
      <3> QED
        BY <3>6, <3>7
    <2> QED
      BY <2>3, <2>4, <2>5, <2>6 DEF Frames
  <1> QED
    BY <1>1, <1>2 DEF PollReturns

\* The answer to a settle request.
LEMMA SettleKeeps ==
  ASSUME PanelInv, NEW r \in Runs, SettleReturns(r)
  PROVE  PanelInv' /\ (Driven => Driven')
  <1> USE DEF PanelInv, TypeOK, SettleReturns, FinishRun
  <1>1. runs[r].burn \in Burns \cup {None}
    BY DEF TransferRuns
  <1>2. /\ deposit' \in DepositStates /\ deposit'.step \in {"settled", "error"}
        /\ deposit'.quote = deposit.quote
    <2>1. SettledWith(deposit, runs[r].burn) \in DepositStates /\ Errored(deposit) \in DepositStates
      BY <1>1, EventTypes DEF Modes
    <2>2. /\ SettledWith(deposit, runs[r].burn).step = "settled"
          /\ SettledWith(deposit, runs[r].burn).quote = deposit.quote
          /\ Errored(deposit).step = "error" /\ Errored(deposit).quote = deposit.quote
      BY DEF SettledWith, Errored, DepositStates
    <2> QED
      BY <2>1, <2>2
  <1>3. settles' \in [Runs -> 0 .. MaxCalls] /\ CallsBounded'
    BY PanelAssumption DEF CallsBounded
  <1>4. PanelInv'
    BY <1>2, <1>3, LaterKeeps DEF RunsHaveBurns, PollingSteps
  <1> QED
    BY <1>2, <1>4 DEF Driven, PollingSteps

\* The panel as it is mounted.
LEMMA PanelInvInit == Init => PanelInv
  <1> SUFFICES ASSUME Init PROVE PanelInv
    OBVIOUS
  <1>1. Initial \in DepositStates /\ Initial.step = "idle" /\ Initial.mode = "fast"
    BY InitialType DEF Initial
  <1>2. TypeOK
    <2>1. NoRun \in TransferRuns /\ 0 \in 0 .. MaxCalls
      BY PanelAssumption DEF NoRun, TransferRuns, Modes
    <2>2. View(Initial) \in Views /\ "fast" \in Modes
      BY <1>1 DEF View, Views, Steps, PreBurnSteps, Modes
    <2> QED
      BY <1>1, <2>1, <2>2 DEF Init, TypeOK
  <1>3. CallsBounded /\ RunsHaveBurns
    BY PanelAssumption DEF Init, CallsBounded, RunsHaveBurns, NoRun
  <1>4. PreparingIsShown /\ CancelledIsShown /\ AskedIsEffected
    BY <1>1 DEF Init, PreparingIsShown, CancelledIsShown, AskedIsEffected, View
  <1>5. BurnIsKnown /\ CancelledIsQuiet /\ FastIsQuoted
    BY <1>1 DEF Init, BurnIsKnown, CancelledIsQuiet, FastIsQuoted, PollingSteps, View
  <1> QED
    BY <1>2, <1>3, <1>4, <1>5 DEF PanelInv

\* Every step, and stuttering.
LEMMA PanelInvStep ==
  ASSUME PanelInv, [Next]_vars
  PROVE  PanelInv'
  <1>1. CASE Next
    BY <1>1, ClickKeeps, RenderKeeps, EffectsKeep, QuoteKeeps, TimerKeeps, StartKeeps, PollKeeps,
       SettleKeeps
       DEF Next
  <1>2. CASE UNCHANGED vars
    <2> USE <1>2 DEF vars, PanelInv
    <2>1. TypeOK' /\ CallsBounded' /\ RunsHaveBurns'
      BY DEF TypeOK, CallsBounded, RunsHaveBurns
    <2>2. PreparingIsShown' /\ CancelledIsShown' /\ AskedIsEffected'
      BY DEF PreparingIsShown, CancelledIsShown, AskedIsEffected
    <2>3. BurnIsKnown' /\ CancelledIsQuiet' /\ FastIsQuoted'
      BY DEF BurnIsKnown, CancelledIsQuiet, FastIsQuoted
    <2> QED
      BY <2>1, <2>2, <2>3
  <1> QED
    BY <1>1, <1>2

\* The inductive invariant of the panel: its type, which commit and effects precede each of
\* its steps, for which mode a quote is asked, and what the refs hold.
THEOREM PanelInvCorrect == Spec => []PanelInv
  BY PanelInvInit, PanelInvStep, PTL DEF Spec

\* The machine, the refs and the requests under way are always well typed.
THEOREM PanelTypeCorrect == Spec => []TypeOK
  <1>1. PanelInv => TypeOK
    BY DEF PanelInv
  <1> QED
    BY PanelInvCorrect, <1>1, PTL

\* What a step of the panel may do to a wait that something is at work on.
LEMMA WaitsMove ==
  ASSUME PanelInv, Next, Driven
  PROVE  Driven' \/ (StaleStop /\ (Effects \/ Click))
  BY ClickKeeps, RenderKeeps, EffectsKeep, QuoteKeeps, TimerKeeps, StartKeeps, PollKeeps,
     SettleKeeps
     DEF Next

WaitStep == Driven => Driven' \/ (StaleStop /\ (Effects \/ Click))

\* No interleaving of clicks, commits, effects and late answers takes from a registration, a
\* wait or a settling what is at work on it, but for the effect of an earlier commit.
THEOREM WaitsAreKept == Spec => WaitsStayDriven
  <1>1. PanelInv /\ [Next]_vars => [WaitStep]_vars
    BY WaitsMove DEF WaitStep
  <1>2. PanelInv /\ [Next]_vars =>
          [Driven => Driven' \/ (StaleStop /\ (Effects \/ Click))]_vars
    BY <1>1 DEF WaitStep
  <1> QED
    BY PanelInvCorrect, <1>2, PTL DEF Spec, WaitsStayDriven
-----------------------------------------------------------------------------
(***************************************************************************)
(* The action properties.                                                  *)
(***************************************************************************)
LEMMA SettlesMove ==
  ASSUME PanelInv, Next, deposit.step = "cancelled", NEW s \in Runs
  PROVE  settles'[s] <= settles[s]
  <1> USE DEF PanelInv, TypeOK
  <1>1. settles[s] \in 0 .. MaxCalls
    OBVIOUS
  <1>2. CASE UNCHANGED settles
    BY <1>1, <1>2, PanelAssumption
  <1>3. ASSUME NEW r \in Runs, NEW frame \in Frames, PollAnswers(r, frame)
        PROVE  UNCHANGED settles
    BY <1>3 DEF PollAnswers, CancelledIsQuiet
  <1>4. ASSUME NEW r \in Runs, SettleReturns(r) PROVE settles'[s] <= settles[s]
    BY <1>1, <1>4, PanelAssumption DEF SettleReturns
  <1>5. Click \/ Render \/ Effects => UNCHANGED settles
    BY DEF Click, Render, Effects, Clicked, ModeChange, ChangeRoute, Execute, ExecuteSimulatedError,
           Cancel, RetryStandard, DismissCancelled
  <1>6. \A r \in Runs : StartReturns(r) \/ PollFails(r) => UNCHANGED settles
    BY DEF StartReturns, StartSucceeds, StartFails, PollFails
  <1>7. QuoteReturns \/ TimerFires => UNCHANGED settles
    BY DEF QuoteReturns, TimerFires
  <1> QED
    BY <1>2, <1>3, <1>4, <1>5, <1>6, <1>7 DEF Next, PollReturns

NoSettleStep == deposit.step = "cancelled" => \A r \in Runs : settles'[r] <= settles[r]

\* While the panel says that no mint was attempted, none is: no answer to a poll that was
\* under way at the cancel starts a settle request.
THEOREM CancelledNeverSettles == Spec => NoSettleWhileCancelled
  <1>1. PanelInv /\ [Next]_vars => [NoSettleStep]_vars
    BY SettlesMove DEF NoSettleStep
  <1>2. PanelInv /\ [Next]_vars =>
          [deposit.step = "cancelled" => \A r \in Runs : settles'[r] <= settles[r]]_vars
    BY <1>1 DEF NoSettleStep
  <1> QED
    BY PanelInvCorrect, <1>2, PTL DEF Spec, NoSettleWhileCancelled

StartsFast(r) ==
  runs'[r].st = "starting" /\ runs[r].st = "none" /\ runs'[r].mode = "fast"

\* Only the effects of a commit of `burning` start a transfer, in the mode committed.
LEMMA ClickedStarts ==
  ASSUME PanelInv, NEW d, NEW ref, NEW isPolling, NEW armed, NEW rerouted,
         Clicked(d, ref, isPolling, armed, rerouted), NEW r \in Runs, StartsFast(r)
  PROVE  \/ effected.step # "burning" /\ shown.step = "burning" /\ shown.mode = "fast"
         \/ shown.step # "burning" /\ d.step = "burning" /\ d.mode = "fast"
  <1> USE DEF PanelInv, TypeOK
  <1>1. ASSUME NEW m, Registers(m) PROVE m = "fast"
    BY <1>1 DEF Registers, StartRun, StartsFast
  <1>2. ~ UNCHANGED runs
    BY DEF StartsFast
  <1>3. CASE Starts(effected, shown, ref) /\ Registers(shown.mode)
    BY <1>1, <1>3 DEF Starts
  <1>4. CASE Starts(shown, View(d), ref) /\ Registers(View(d).mode)
    BY <1>1, <1>4 DEF Starts, View
  <1> QED
    BY <1>2, <1>3, <1>4 DEF Clicked

\* The one step that sends a registration for Fast has its quote in hand.
LEMMA StartsMove ==
  ASSUME PanelInv, Next, NEW r \in Runs, StartsFast(r)
  PROVE  deposit.quote = "fast"
  <1> USE DEF PanelInv, TypeOK
  <1>1. ASSUME \/ /\ deposit.step = "burning" /\ shown.step # "burning"
                  /\ deposit.mode = "fast"
               \/ effected.step # "burning" /\ shown.step = "burning" /\ shown.mode = "fast"
        PROVE  deposit.quote = "fast"
    BY <1>1 DEF FastIsQuoted
  <1>2. ASSUME NEW m \in Modes, ModeChange(m) PROVE deposit.quote = "fast"
    <2>1. \/ effected.step # "burning" /\ shown.step = "burning" /\ shown.mode = "fast"
          \/ /\ ModeChanged(deposit, m).step = "burning"
             /\ shown.step # "burning" /\ ModeChanged(deposit, m).mode = "fast"
      BY <1>2, ClickedStarts DEF ModeChange
    <2> QED
      BY <1>1, <2>1 DEF ModeChanged, PreBurnSteps, DepositStates
  <1>3. CASE ChangeRoute
    BY <1>1, <1>3, ClickedStarts DEF ChangeRoute
  <1>4. CASE Execute
    <2> PICK usable \in BOOLEAN : Clicked(Executed(deposit, usable), None, FALSE, FALSE, FALSE)
      BY <1>4 DEF Execute
    <2>1. \/ effected.step # "burning" /\ shown.step = "burning" /\ shown.mode = "fast"
          \/ /\ Executed(deposit, usable).step = "burning"
             /\ Executed(deposit, usable).mode = "fast"
      BY ClickedStarts
    <2> QED
      BY <1>1, <2>1 DEF Executed, DepositStates
  <1>5. CASE ExecuteSimulatedError
    <2>1. Errored(deposit).step # "burning"
      BY DEF Errored, DepositStates
    <2> QED
      BY <1>1, <1>5, <2>1, ClickedStarts DEF ExecuteSimulatedError
  <1>6. CASE Cancel
    <2>1. \/ effected.step # "burning" /\ shown.step = "burning" /\ shown.mode = "fast"
          \/ /\ Cancelled(deposit).step = "burning"
             /\ shown.step # "burning" /\ Cancelled(deposit).mode = "fast"
      BY <1>6, ClickedStarts DEF Cancel
    <2> QED
      BY <1>1, <2>1 DEF Cancelled, DepositStates, TerminalSteps
  <1>7. CASE RetryStandard
    <2>1. \/ effected.step # "burning" /\ shown.step = "burning" /\ shown.mode = "fast"
          \/ /\ RetriedAsStandard(deposit).step = "burning"
             /\ shown.step # "burning" /\ RetriedAsStandard(deposit).mode = "fast"
      BY <1>7, ClickedStarts DEF RetryStandard
    <2> QED
      BY <1>1, <2>1 DEF RetriedAsStandard, DepositStates
  <1>8. CASE DismissCancelled
    <2>1. [Initial EXCEPT !.mode = shown.mode].step # "burning"
      BY DEF Initial
    <2> QED
      BY <1>1, <1>8, <2>1, ClickedStarts DEF DismissCancelled
  <1>9. CASE Effects
    <2>1. ~ UNCHANGED runs
      BY DEF StartsFast
    <2>2. Starts(effected, shown, runRef) /\ Registers(shown.mode)
      BY <1>9, <2>1 DEF Effects
    <2>3. shown.mode = "fast"
      BY <2>2 DEF Registers, StartRun, StartsFast
    <2> QED
      BY <1>1, <2>2, <2>3 DEF Starts
  <1>10. ~ (Render \/ QuoteReturns \/ TimerFires)
    BY DEF Render, QuoteReturns, TimerFires, StartsFast
  <1>11. ASSUME NEW s \in Runs PROVE ~ (StartReturns(s) \/ PollReturns(s) \/ SettleReturns(s))
    <2>1. ~ StartReturns(s)
      BY DEF StartReturns, StartSucceeds, StartFails, StartsFast, TransferRuns
    <2>2. ~ (PollReturns(s) \/ SettleReturns(s))
      BY DEF PollReturns, PollFails, PollAnswers, SettleReturns, StartsFast
    <2> QED
      BY <2>1, <2>2
  <1> QED
    BY <1>2, <1>3, <1>4, <1>5, <1>6, <1>7, <1>8, <1>9, <1>10, <1>11 DEF Next, Click

FastQuoteStep == \A r \in Runs : StartsFast(r) => deposit.quote = "fast"

\* No Fast transfer is registered before a quote for Fast was received.
THEOREM FastIsAlwaysQuoted == Spec => FastNeedsQuote
  <1>1. PanelInv /\ [Next]_vars => [FastQuoteStep]_vars
    BY StartsMove DEF FastQuoteStep
  <1>2. PanelInv /\ [Next]_vars =>
          [\A r \in Runs :
             runs'[r].st = "starting" /\ runs[r].st = "none" /\ runs'[r].mode = "fast"
               => deposit.quote = "fast"]_vars
    BY <1>1 DEF FastQuoteStep, StartsFast
  <1> QED
    BY PanelInvCorrect, <1>2, PTL DEF Spec, FastNeedsQuote
=============================================================================
