----------------------------- MODULE MCServices -----------------------------
(***************************************************************************)
(* One run for five parts that share nothing: the intents, the fee quotes, *)
(* the testnet:auto script, the start of an instance and the preparation   *)
(* of a mint.  A behaviour is one of one part, the others at rest in their *)
(* initial states.                                                         *)
(***************************************************************************)
EXTENDS Intents, Fees, Auto, Startup, Preparation

VARIABLE part   \* the part whose behaviour this is

servicesVars == <<intentsVars, feesVars, autoVars, startupVars, prepVars, part>>

IntentsRest == IntentsInit /\ backend = "redis"

FeesRest == FeesInit /\ offered = {}

AutoRest == AutoInit /\ lock = NoLock /\ ~ trustline

\* SIM_MODE and nothing else.
Simulation ==
  [simMode |-> TRUE, network |-> "unset", secret |-> FALSE, horizonUrl |-> "unset",
   sorobanRpcUrl |-> "unset", attestationUrl |-> "unset", usdcIssuer |-> FALSE,
   kv |-> FALSE, fields |-> "valid"]

\* SIM_MODE alone decides what becomes of an instance, and a local one reads no KV variable.
StartupCases ==
  /\ StartupInit
  /\ env.simMode => env = Simulation
  /\ place = "local" => ~ env.kv

StartupRest ==
  /\ StartupInit
  /\ place = "local"
  /\ env = Simulation

PreparationRest ==
  /\ PreparationInit
  /\ ~ trusted
  /\ provider = "none"
  /\ ~ allowed

ServicesInit ==
  \/ /\ part = "intents" /\ IntentsInit
     /\ FeesRest /\ AutoRest /\ StartupRest /\ PreparationRest
  \/ /\ part = "fees" /\ FeesInit
     /\ IntentsRest /\ AutoRest /\ StartupRest /\ PreparationRest
  \/ /\ part = "auto" /\ AutoInit
     /\ IntentsRest /\ FeesRest /\ StartupRest /\ PreparationRest
  \/ /\ part = "startup" /\ StartupCases
     /\ IntentsRest /\ FeesRest /\ AutoRest /\ PreparationRest
  \/ /\ part = "preparation" /\ PreparationInit
     /\ IntentsRest /\ FeesRest /\ AutoRest /\ StartupRest

ServicesNext ==
  \/ /\ part = "intents" /\ IntentsNext
     /\ UNCHANGED <<feesVars, autoVars, startupVars, prepVars, part>>
  \/ /\ part = "fees" /\ FeesNext
     /\ UNCHANGED <<intentsVars, autoVars, startupVars, prepVars, part>>
  \/ /\ part = "auto" /\ AutoNext
     /\ UNCHANGED <<intentsVars, feesVars, startupVars, prepVars, part>>
  \/ /\ part = "startup" /\ StartupNext
     /\ UNCHANGED <<intentsVars, feesVars, autoVars, prepVars, part>>
  \/ /\ part = "preparation" /\ PreparationNext
     /\ UNCHANGED <<intentsVars, feesVars, autoVars, startupVars, part>>

\* The fairness of the parts that have one (Intents, Fees, Preparation); the guards keep TLC
\* from asking what is enabled in a part at rest, where nothing of it is.
ServicesFairness ==
  /\ \A r \in Requests : WF_intentsVars(part = "intents" /\ ServeStep(r))
  /\ WF_intentsVars(part = "intents" /\ Tick)
  /\ \A q \in Asks : WF_feesVars(part = "fees" /\ AskStep(q))
  /\ WF_feesVars(part = "fees" /\ FeesTick)
  /\ \A p \in Preps : /\ WF_prepVars(part = "preparation" /\ PollIris(p))
                    /\ WF_prepVars(part = "preparation" /\ UseAnswer(p))

ServicesFairSpec == ServicesInit /\ [][ServicesNext]_servicesVars /\ ServicesFairness

\* The type invariants of the five parts.
ServicesTypeOK == IntentsTypeOK /\ FeesTypeOK /\ AutoTypeOK /\ StartupTypeOK
                  /\ PreparationTypeOK
=============================================================================
