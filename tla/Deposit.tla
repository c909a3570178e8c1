------------------------------- MODULE Deposit -------------------------------
(***************************************************************************)
(* reduceDeposit of apps/demo/src/catalog/depositMachine.ts: the deposit   *)
(* panel's state, one operator per event.  Attempts, amounts and messages  *)
(* are shown and decide nothing; whether a quote is young enough and within*)
(* the cap is an argument, because the clock and the inputs it depends on  *)
(* are the panel's.  The events `receiving` and `submitting` of the legacy *)
(* stream are dispatched nowhere and left out.                             *)
(***************************************************************************)
CONSTANTS
  Burns,      \* burn transaction hashes
  None        \* no burn, no quote

ASSUME NoneIsNoBurn == None \notin Burns

Modes == {"fast", "standard"}

ASSUME NoneIsNoMode == None \notin Modes

PollingSteps == {"fast-wait", "degraded-standard", "attesting"}

TerminalSteps == {"settled", "cancelled", "error"}

PreBurnSteps == {"idle", "quoting", "error"}

Steps == PollingSteps \cup TerminalSteps \cup PreBurnSteps \cup {"burning", "settling"}

\* What a status frame says.  Degraded: by its flag, by the finality that was executed,
\* by the delay reason, or because the fast window is over.
Frames == {"attesting", "degraded", "ready", "settled", "failed"}

DepositStates ==
  [step : Steps, mode : Modes, quote : Modes \cup {None},
   burn : Burns \cup {None}, receipt : Burns \cup {None}]

Initial == [step |-> "idle", mode |-> "fast", quote |-> None, burn |-> None, receipt |-> None]

Errored(d) == [d EXCEPT !.step = "error"]

SettledWith(d, b) == [d EXCEPT !.step = "settled", !.receipt = b]

\* Mutant: pressing the selected mode again deselects it.
ModeToggled(d, m) ==
  IF d.step \in PreBurnSteps
  THEN [d EXCEPT !.mode = IF d.mode = m THEN None ELSE m] ELSE d

ModeChanged(d, m) == IF d.step \in PreBurnSteps THEN [d EXCEPT !.mode = m] ELSE d

\* A quote for mode m; an Execute that waited for it goes on unless it exceeds the cap.
QuoteReceived(d, m, overCap) ==
  [d EXCEPT !.quote = m, !.mode = m,
            !.step = IF @ = "quoting" /\ ~ overCap THEN "burning" ELSE @]

\* Mutant: the quote's age is checked, but not the mode it was fetched for.
ExecutedOnAnyQuote(d, usable) ==
  [d EXCEPT !.step = IF d.mode = "standard" \/ (d.quote # None /\ usable)
                     THEN "burning" ELSE "quoting"]

\* `usable`: the quote is younger than five minutes and within the cap.
Executed(d, usable) ==
  [d EXCEPT !.step = IF d.mode = "standard" \/ (d.quote = d.mode /\ usable)
                     THEN "burning" ELSE "quoting"]

BurnSubmitted(d, b, m) ==
  [d EXCEPT !.step = IF m = "fast" THEN "fast-wait" ELSE "attesting",
            !.mode = m, !.burn = b]

Degraded(d) ==
  IF d.mode = "fast" /\ d.step = "fast-wait"
  THEN [d EXCEPT !.step = "degraded-standard"] ELSE d

\* A status frame about burn b.
StatusRead(d, b, frame) ==
  CASE d.step \notin PollingSteps -> d
    [] d.step \in PollingSteps /\ frame = "settled" -> SettledWith(d, b)
    [] d.step \in PollingSteps /\ frame = "failed" -> Errored(d)
    [] d.step \in PollingSteps /\ frame = "degraded" -> Degraded(d)
    [] d.step \in PollingSteps /\ frame \in {"attesting", "ready"} -> d

SettleReady(d) == IF d.step \in PollingSteps THEN [d EXCEPT !.step = "settling"] ELSE d

Cancelled(d) ==
  IF d.step \in TerminalSteps \cup {"idle"} THEN d ELSE [d EXCEPT !.step = "cancelled"]

RetriedAsStandard(d) ==
  IF d.step = "cancelled" /\ d.burn # None THEN [d EXCEPT !.step = "attesting"] ELSE d
=============================================================================
