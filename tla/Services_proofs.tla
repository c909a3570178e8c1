--------------------------- MODULE Services_proofs ---------------------------
(***************************************************************************)
(* Proofs about the parts that share nothing: the start of an instance, the*)
(* preparation of a mint and the fee quotes; and about MCServices, which   *)
(* puts them beside the intents and the runs of testnet:auto: a behaviour  *)
(* of it is one of each part, so what is proved of a part holds in it.     *)
(***************************************************************************)
EXTENDS MCServices, Intents_proofs, Auto_proofs

-----------------------------------------------------------------------------
(***************************************************************************)
(* The start of an instance: what its checks guarantee, for every          *)
(* environment.                                                            *)
(***************************************************************************)
\* The client of an instance that is up is the one its environment gives it.
Built ==
  state = "up" =>
    /\ env.simMode => place = "local" /\ client = NoClient
    /\ ~ env.simMode => Starts /\ client = Client

\* The verdict of a receive() was reached with that client.
Judged ==
  /\ verdict # "none" => state = "up"
  /\ verdict = "misconfigured" =>
       client # NoClient /\ (LacksIssuer \/ LacksProvider)
  /\ verdict = "unattested" => client # NoClient /\ MayNotServe(client.iris)
  /\ verdict = "elsewhere" =>
       /\ client # NoClient /\ ~ LacksProvider
       /\ MayNotServe(client.horizon) \/ MayNotServe(client.rpc)
  /\ verdict = "simulated" => client = NoClient

\* The inductive invariant.
StartupInv == StartupTypeOK /\ Built /\ Judged

\* The client a start builds has its type.
LEMMA ClientIsTyped ==
  ASSUME StartupTypeOK, Starts, ~ env.simMode
  PROVE  Client \in [network : Networks \cup {"none"}, signer : BOOLEAN, iris : Hosts,
                 rpc : Hosts, horizon : Hosts, usdcIssuer : BOOLEAN]
  BY DEF StartupTypeOK, Environments, Starts, DeployedStarts, LocalStarts, BuildsClient,
         Client, Network, Networks, Iris, Issuer, Hosts, Host

\* It is built from the environment of that start.
LEMMA ClientIsOne ==
  ASSUME StartupTypeOK, Starts, ~ env.simMode
  PROVE  Client # NoClient
  BY DEF Starts, DeployedStarts, LocalStarts, BuildsClient, Client, NoClient, Network,
         Networks

\* A client that was built lacks nothing but, on mainnet, the issuer.
LEMMA ClientLacksOnlyIssuer ==
  ASSUME StartupTypeOK, Starts, ~ env.simMode,
         \/ Client.network = "mainnet" /\ ~ Client.usdcIssuer
         \/ ~ Client.signer \/ Client.horizon = "none" \/ Client.rpc = "none"
  PROVE  Client.network = "mainnet" /\ ~ env.usdcIssuer
  BY DEF StartupTypeOK, Environments, Starts, DeployedStarts, LocalStarts, BuildsClient,
         ColdStartEnv, StellarHosts, Client, Network, Networks, Issuer, Host

\* A deployed instance asks its own network's Iris, or one that only has the name; and
\* Stellar hosts that are on the list, if of either network.
LEMMA DeployedFits ==
  ASSUME StartupTypeOK, DeployedStarts
  PROVE  /\ Client.iris \in {Client.network, "foreign"}
         /\ Client.rpc \in StellarHosts
         /\ Client.horizon \in StellarHosts \cup {"none"}
  BY DEF StartupTypeOK, Environments, DeployedStarts, ColdStartEnv, AttestationUrlFits,
         StellarHosts, Client, Network, Networks, Iris, Host

\* Whether an instance starts, and its client, are functions of its environment.
LEMMA EnvironmentDecides ==
  UNCHANGED <<place, env>> => Starts' = Starts /\ Client' = Client
  BY DEF Starts, DeployedStarts, LocalStarts, BuildsClient, ColdStartEnv,
         AttestationUrlFits, StellarHosts, Client, Network, Iris, Issuer, Host

\* Nothing is built at first.
LEMMA StartupInitInv == StartupInit => StartupInv
  BY DEF StartupInit, StartupInv, StartupTypeOK, NoClient, Networks, Hosts, Built, Judged

\* A start builds a client or refuses.
LEMMA ColdStartInv == StartupInv /\ ColdStart => StartupInv'
  <1> SUFFICES ASSUME StartupInv, ColdStart
               PROVE  StartupInv'
    OBVIOUS
  <1> USE DEF StartupInv
  <1>1. CASE Starts /\ state' = "up" /\ client' = (IF env.simMode THEN NoClient ELSE Client)
    <2>1. UNCHANGED <<place, env, verdict>> /\ verdict = "none"
      BY DEF ColdStart, Judged
    <2>2. env.simMode => place = "local"
      BY <1>1 DEF Starts, DeployedStarts, StartupTypeOK
    <2>3. client' \in [network : Networks \cup {"none"}, signer : BOOLEAN, iris : Hosts,
                 rpc : Hosts, horizon : Hosts, usdcIssuer : BOOLEAN]
      <3>1. CASE env.simMode
        BY <1>1, <3>1 DEF NoClient, Networks, Hosts
      <3>2. CASE ~ env.simMode
        BY <1>1, <3>2, ClientIsTyped
      <3> QED
        BY <3>1, <3>2
    <2>4. StartupTypeOK'
      BY <1>1, <2>1, <2>3 DEF StartupTypeOK
    <2>5. Starts' = Starts /\ Client' = Client
      BY <2>1, EnvironmentDecides
    <2>6. Built'
      BY <1>1, <2>1, <2>2, <2>5 DEF Built
    <2> QED
      BY <2>1, <2>4, <2>6 DEF Judged
  <1>2. CASE state' = "refused" /\ client' = client
    BY <1>2 DEF ColdStart, StartupTypeOK, Built, Judged
  <1> QED
    BY <1>1, <1>2 DEF ColdStart

\* The first receive() judges the client it has.
LEMMA FirstReceiveInv == StartupInv /\ FirstReceive => StartupInv'
  <1> SUFFICES ASSUME StartupInv, FirstReceive
               PROVE  StartupInv'
    OBVIOUS
  <1> USE DEF StartupInv
  <1>1. UNCHANGED <<place, env, state, client>> /\ state = "up"
    BY DEF FirstReceive
  <1>2. StartupTypeOK'
    BY <1>1 DEF FirstReceive, StartupTypeOK
  <1>3. Starts' = Starts /\ Client' = Client
    BY <1>1, EnvironmentDecides
  <1>4. Built'
    BY <1>1, <1>3 DEF Built
  <1>5. Judged'
    BY <1>1 DEF FirstReceive, Judged, LacksIssuer, MayNotServe, LacksProvider
  <1> QED
    BY <1>2, <1>4, <1>5

\* The inductive invariant of an instance's start, for every environment.
THEOREM StartupInvCorrect == StartupSpec => []StartupInv
  <1>1. StartupInv /\ [StartupNext]_startupVars => StartupInv'
    <2> SUFFICES ASSUME StartupInv, [StartupNext]_startupVars
                 PROVE  StartupInv'
      OBVIOUS
    <2>1. CASE UNCHANGED startupVars
      <3>1. UNCHANGED <<place, env, state, client, verdict>>
        BY <2>1 DEF startupVars
      <3>2. Starts' = Starts /\ Client' = Client
        BY <3>1, EnvironmentDecides
      <3> QED
        BY <3>1, <3>2 DEF StartupInv, StartupTypeOK, Built, Judged, LacksIssuer,
                          LacksProvider, MayNotServe
    <2> QED
      BY <2>1, ColdStartInv, FirstReceiveInv DEF StartupNext
  <1> QED
    BY <1>1, StartupInitInv, PTL DEF StartupSpec

\* Whatever the environment, receive() finds no part of the configuration of an instance that
\* serves missing but the issuer of mainnet (depsFromEnv and serve.ts do not ask for it); and
\* a deployed instance simulates nothing and never polls the other network's Iris.  What
\* it can still meet is an Iris that only has the name, and the other network's Stellar hosts.
THEOREM StartsRuleOut == StartupSpec => []StartRulesOut
  <1>1. StartupInv => StartRulesOut
    <2> SUFFICES ASSUME StartupInv
                 PROVE  StartRulesOut
      OBVIOUS
    <2> USE DEF StartupInv
    <2>1. verdict = "misconfigured" => client.network = "mainnet" /\ ~ env.usdcIssuer
      BY ClientLacksOnlyIssuer DEF Built, Judged, LacksIssuer, LacksProvider
    <2>2. verdict = "simulated" => place = "local"
      BY ClientIsOne DEF Built, Judged
    <2>3. ASSUME place = "deployed", verdict \in {"unattested", "elsewhere"}
          PROVE  DeployedStarts /\ client = Client
      BY <2>3 DEF Built, Judged, Starts
    <2>4. place = "deployed" /\ verdict = "unattested" => client.iris = "foreign"
      BY <2>3, DeployedFits DEF Judged, MayNotServe
    <2>5. place = "deployed" /\ verdict = "elsewhere"
            => {client.horizon, client.rpc} \subseteq StellarHosts
      BY <2>3, DeployedFits DEF Judged, LacksProvider
    <2> QED
      BY <2>1, <2>2, <2>4, <2>5 DEF StartRulesOut
  <1> QED
    BY <1>1, StartupInvCorrect, PTL
-----------------------------------------------------------------------------
(***************************************************************************)
(* What receive() has made sure of when it goes on to mint, for any number *)
(* of calls and reads of Iris.                                             *)
(***************************************************************************)
\* A call is past the polling only with an attestation that is complete, well formed and for
\* its amount; and it has an outcome only at its end.
Attested ==
  \A p \in Preps :
    /\ prep[p].pc \in {"trustline", "answered", "creating"} => iris[p] = "attested"
    /\ prep[p].pc # "done" => prep[p].out = "none"

\* A call that was told of a trustline and has not gone on is right, or the owner overtook it.
ToldRight == \A p \in Preps : Told(p) => trusted \/ p \in overtaken

\* The inductive invariant.
PreparationInv == PreparationTypeOK /\ Attested /\ ToldRight

\* What a step may write into a call.
LEMMA PrepUpdates ==
  ASSUME PreparationTypeOK, NEW p \in Preps
  PROVE  /\ \A out \in PrepOutcomes : Ended(p, out) \in [Preps -> PrepStates]
         /\ \A pc \in {"trustline", "creating"} : Moved(p, pc) \in [Preps -> PrepStates]
         /\ \A saw \in BOOLEAN : Learns(p, saw) \in [Preps -> PrepStates]
         /\ [prep EXCEPT ![p] = [NewPrep EXCEPT !.pc = "polling", !.attempt = 1]]
              \in [Preps -> PrepStates]
  <1> USE PreparationAssumption DEF PreparationTypeOK, PrepStates
  <1>1. NewPrep \in PrepStates
    BY DEF NewPrep, PrepOutcomes
  <1>2. \A out \in PrepOutcomes : Ended(p, out) \in [Preps -> PrepStates]
    BY <1>1 DEF Ended
  <1>3. \A pc \in {"trustline", "creating"} : Moved(p, pc) \in [Preps -> PrepStates]
    BY DEF Moved
  <1>5. \A saw \in BOOLEAN : Learns(p, saw) \in [Preps -> PrepStates]
    BY DEF Learns
  <1>4. [prep EXCEPT ![p] = [NewPrep EXCEPT !.pc = "polling", !.attempt = 1]]
          \in [Preps -> PrepStates]
    <2>1. [NewPrep EXCEPT !.pc = "polling", !.attempt = 1] \in PrepStates
      <3>1. 1 \in 0..MaxRetries
        OBVIOUS
      <3>2. \A v \in PrepStates, n \in 0..MaxRetries :
              [v EXCEPT !.pc = "polling", !.attempt = n] \in PrepStates
        OBVIOUS
      <3> QED
        BY <1>1, <3>1, <3>2
    <2> QED
      BY <2>1
  <1> QED
    BY <1>2, <1>3, <1>4, <1>5

\* The initial state.
LEMMA PreparationInitInv == PreparationInit => PreparationInv
  <1> SUFFICES ASSUME PreparationInit
               PROVE  PreparationInv
    OBVIOUS
  <1>1. NewPrep \in PrepStates
    BY PreparationAssumption DEF NewPrep, PrepStates, PrepOutcomes
  <1> QED
    BY <1>1 DEF PreparationInit, PreparationInv, PreparationTypeOK, Attested, ToldRight, Told, NewPrep, Rows

\* A call that ends keeps the invariant.
LEMMA EndedKeeps ==
  ASSUME PreparationInv, NEW p \in Preps, NEW out \in PrepOutcomes,
         prep' = Ended(p, out), UNCHANGED <<iris, provider, allowed, overtaken>>,
         trusted' \in BOOLEAN, trusted => trusted'
  PROVE  PreparationInv'
  <1> USE DEF PreparationInv, PreparationTypeOK, PrepStates
  <1>1. PreparationTypeOK'
    BY PrepUpdates
  <1>2. Attested'
    BY DEF Attested, Ended, NewPrep
  <1>3. ToldRight'
    BY DEF ToldRight, Told, Ended, NewPrep
  <1> QED
    BY <1>1, <1>2, <1>3

\* So does one that goes on with an attestation.
LEMMA MovedKeeps ==
  ASSUME PreparationInv, NEW p \in Preps, NEW pc \in {"trustline", "creating"},
         prep[p].pc # "done", iris[p] = "attested",
         prep' = Moved(p, pc), UNCHANGED <<iris, trusted, provider, allowed, overtaken>>
  PROVE  PreparationInv'
  <1> USE DEF PreparationInv, PreparationTypeOK, PrepStates
  <1>1. PreparationTypeOK'
    BY PrepUpdates
  <1>2. Attested'
    BY DEF Attested, Moved
  <1>3. ToldRight'
    BY DEF ToldRight, Told, Moved
  <1> QED
    BY <1>1, <1>2, <1>3

\* So does one that is told no, or the truth.
LEMMA LearnsKeeps ==
  ASSUME PreparationInv, NEW p \in Preps, NEW saw \in BOOLEAN,
         prep[p].pc # "done", iris[p] = "attested",
         prep' = Learns(p, saw), UNCHANGED <<iris, provider, allowed, overtaken>>,
         trusted' \in BOOLEAN, trusted \/ saw => trusted'
  PROVE  PreparationInv'
  <1> USE DEF PreparationInv, PreparationTypeOK, PrepStates
  <1>1. PreparationTypeOK'
    BY PrepUpdates
  <1>2. Attested'
    BY DEF Attested, Learns
  <1>3. ToldRight'
    BY DEF ToldRight, Told, Learns
  <1> QED
    BY <1>1, <1>2, <1>3

\* A read of Iris keeps it.
LEMMA PollIrisKeeps ==
  ASSUME PreparationInv, NEW p \in Preps, PollIris(p)
  PROVE  PreparationInv'
  <1> USE DEF PreparationInv
  <1>1. UNCHANGED <<iris, trusted, provider, allowed, overtaken>> /\ prep[p].pc = "polling"
        /\ trusted' \in BOOLEAN
    BY DEF PollIris, PreparationTypeOK
  <1>2. CASE iris[p] \notin {"none", "pending"} /\ MessageChecked(p)
    <2>1. CASE \E e \in {"Invalid", "MintFailed", "Other"} : prep' = Ended(p, e)
      BY <1>1, <2>1, EndedKeeps DEF PrepOutcomes
    <2>2. CASE prep' = Moved(p, "trustline") /\ iris[p] = "attested"
      BY <1>1, <2>2, MovedKeeps
    <2> QED
      BY <1>2, <2>1, <2>2 DEF MessageChecked
  <1>3. CASE prep' = ReadSaidNothing(p)
    <2>1. CASE prep[p].attempt = MaxRetries
      BY <1>1, <1>3, <2>1, EndedKeeps DEF ReadSaidNothing, PrepOutcomes
    <2>2. CASE prep[p].attempt # MaxRetries
      <3>1. prep' = [prep EXCEPT ![p].attempt = prep[p].attempt + 1]
        BY <1>3, <2>2 DEF ReadSaidNothing
      <3>2. prep[p].attempt + 1 \in 0..MaxRetries
        BY <2>2, PreparationAssumption DEF PreparationTypeOK, PrepStates
      <3>3. PreparationTypeOK'
        BY <1>1, <3>1, <3>2 DEF PreparationTypeOK, PrepStates
      <3>4. Attested'
        BY <1>1, <3>1 DEF Attested, PreparationTypeOK, PrepStates
      <3>5. ToldRight'
        BY <1>1, <3>1 DEF ToldRight, Told, PreparationTypeOK, PrepStates
      <3> QED
        BY <3>3, <3>4, <3>5
    <2> QED
      BY <2>1, <2>2
  <1> QED
    BY <1>2, <1>3 DEF PollIris

\* So does every other step.
LEMMA PreparationNextInv == PreparationInv /\ [PreparationNext]_prepVars => PreparationInv'
  <1> SUFFICES ASSUME PreparationInv, [PreparationNext]_prepVars
               PROVE  PreparationInv'
    OBVIOUS
  <1>1. ASSUME NEW p \in Preps, StartPrep(p)
        PROVE  PreparationInv'
    <2>1. UNCHANGED <<iris, trusted, provider, allowed, overtaken>> /\ trusted' \in BOOLEAN
      BY <1>1 DEF StartPrep, PreparationInv, PreparationTypeOK
    <2>2. CASE prep' = Ended(p, "Invalid") \/ prep' = Ended(p, "Other")
      BY <2>1, <2>2, EndedKeeps DEF PrepOutcomes
    <2>3. CASE prep' = [prep EXCEPT ![p] = [NewPrep EXCEPT !.pc = "polling", !.attempt = 1]]
      <3>1. PreparationTypeOK'
        BY <2>1, <2>3, PrepUpdates DEF PreparationInv, PreparationTypeOK
      <3>2. Attested'
        BY <2>1, <2>3 DEF PreparationInv, PreparationTypeOK, PrepStates, Attested, NewPrep
      <3>3. ToldRight'
        BY <2>1, <2>3 DEF PreparationInv, PreparationTypeOK, PrepStates, ToldRight, Told, NewPrep
      <3> QED
        BY <3>1, <3>2, <3>3 DEF PreparationInv
    <2> QED
      BY <1>1, <2>2, <2>3 DEF StartPrep
  <1>2. ASSUME NEW p \in Preps, PollIris(p)
        PROVE  PreparationInv'
    BY <1>2, PollIrisKeeps
  <1>3. ASSUME NEW p \in Preps, ReadTrustline(p)
        PROVE  PreparationInv'
    <2>1. /\ UNCHANGED <<iris, trusted, provider, allowed, overtaken>> /\ trusted \in BOOLEAN
          /\ prep[p].pc = "trustline" /\ iris[p] = "attested"
      BY <1>3 DEF ReadTrustline, PreparationInv, PreparationTypeOK, Attested
    <2>2. \/ \E saw \in BOOLEAN : prep' = Learns(p, saw) /\ (saw => trusted)
          \/ prep' = Ended(p, "Other")
      BY <1>3, <2>1 DEF ReadTrustline, HasTrustline
    <2> QED
      BY <2>1, <2>2, EndedKeeps, LearnsKeeps DEF PrepOutcomes
  <1>4. ASSUME NEW p \in Preps, UseAnswer(p)
        PROVE  PreparationInv'
    <2>1. /\ UNCHANGED <<iris, trusted, provider, allowed, overtaken>> /\ trusted \in BOOLEAN
          /\ prep[p].pc = "answered" /\ iris[p] = "attested"
      BY <1>4 DEF UseAnswer, PreparationInv, PreparationTypeOK, Attested
    <2>2. \/ \E e \in PrepOutcomes : prep' = Ended(p, e)
          \/ prep' = Moved(p, "creating")
      BY <1>4 DEF UseAnswer, Passes, PrepOutcomes
    <2> QED
      BY <2>1, <2>2, EndedKeeps, MovedKeeps
  <1>5. ASSUME NEW p \in Preps, CreateTrustline(p)
        PROVE  PreparationInv'
    <2>1. /\ UNCHANGED <<iris, provider, allowed, overtaken>>
          /\ prep[p].pc = "creating" /\ iris[p] = "attested"
          /\ trusted' \in BOOLEAN /\ (trusted => trusted')
      BY <1>5 DEF CreateTrustline, ProviderCanCreate, PreparationInv, PreparationTypeOK, Attested
    <2>2. \/ prep' = Learns(p, TRUE) /\ trusted'
          \/ prep' = Ended(p, "Other")
      BY <1>5 DEF CreateTrustline
    <2> QED
      BY <2>1, <2>2, EndedKeeps, LearnsKeeps DEF PrepOutcomes
  <1>6. ASSUME NEW p \in Preps, Attests(p)
        PROVE  PreparationInv'
    <2>1. PreparationTypeOK'
      BY <1>6 DEF Attests, PreparationInv, PreparationTypeOK
    <2>2. \A q \in Preps : iris[q] = "attested" => iris'[q] = "attested"
      BY <1>6 DEF Attests, PreparationInv, PreparationTypeOK
    <2>3. Attested'
      BY <1>6, <2>2 DEF Attests, PreparationInv, Attested
    <2>4. ToldRight'
      BY <1>6 DEF Attests, PreparationInv, ToldRight, Told
    <2> QED
      BY <2>1, <2>3, <2>4 DEF PreparationInv
  <1>7. CASE OwnerTrusts
    BY <1>7 DEF OwnerTrusts, PreparationInv, PreparationTypeOK, Attested, ToldRight, Told
  <1>8. CASE UNCHANGED prepVars
    BY <1>8 DEF prepVars, PreparationInv, PreparationTypeOK, Attested, ToldRight, Told
  <1> QED
    BY <1>1, <1>2, <1>3, <1>4, <1>5, <1>6, <1>7, <1>8 DEF PreparationNext, PrepStep

\* The inductive invariant holds of every state.
THEOREM PreparationInvCorrect == PreparationSpec => []PreparationInv
  BY PreparationInitInv, PreparationNextInv, PTL DEF PreparationSpec

\* ensureTrustline and the checks before it: no call goes on to mint without an attestation of
\* its burn and amount and a trustline, unless the owner removed that after Horizon's answer.
THEOREM NothingMintsUnprepared == PreparationSpec => MintsArePrepared
  <1>1. PreparationInv /\ [PreparationNext]_prepVars =>
          [\A p \in Preps : prep[p].out # "ready" /\ prep'[p].out = "ready" =>
             iris'[p] = "attested" /\ (trusted' \/ p \in overtaken')]_prepVars
    <2> SUFFICES ASSUME PreparationInv, PreparationNext, NEW p \in Preps,
                        prep[p].out # "ready", prep'[p].out = "ready"
                 PROVE  iris'[p] = "attested" /\ (trusted' \/ p \in overtaken')
      OBVIOUS
    <2> USE DEF PreparationInv, PreparationTypeOK, PrepStates, Attested
    <2>1. ASSUME NEW q \in Preps, q # p, NEW out, prep' = Ended(q, out)
          PROVE  FALSE
      BY <2>1 DEF Ended
    <2>2. ASSUME NEW q \in Preps, NEW pc, prep' = Moved(q, pc)
          PROVE  FALSE
      BY <2>2 DEF Moved
    <2>3. ASSUME NEW out, out # "ready", prep' = Ended(p, out)
          PROVE  FALSE
      BY <2>3 DEF Ended, NewPrep
    <2>4. ASSUME NEW q \in Preps, StartPrep(q)
          PROVE  FALSE
      BY <2>1, <2>3, <2>4 DEF StartPrep, NewPrep
    <2>5. ASSUME NEW q \in Preps, PollIris(q)
          PROVE  FALSE
      <3>1. ASSUME prep' = [prep EXCEPT ![q].attempt = prep[q].attempt + 1]
            PROVE  FALSE
        BY <3>1
      <3> QED
        BY <2>1, <2>2, <2>3, <2>5, <3>1 DEF PollIris, MessageChecked, ReadSaidNothing
    <2>6. ASSUME NEW q \in Preps, NEW saw, prep' = Learns(q, saw)
          PROVE  FALSE
      BY <2>6 DEF Learns
    <2>7. ASSUME NEW q \in Preps, ReadTrustline(q) \/ CreateTrustline(q)
          PROVE  FALSE
      BY <2>1, <2>3, <2>6, <2>7 DEF ReadTrustline, CreateTrustline
    <2>8. ASSUME NEW q \in Preps, UseAnswer(q)
          PROVE  iris'[p] = "attested" /\ (trusted' \/ p \in overtaken')
      <3>1. q = p
        BY <2>1, <2>2, <2>8 DEF UseAnswer, Passes
      <3>2. prep[p].saw
        BY <2>2, <2>3, <2>8, <3>1 DEF UseAnswer
      <3> QED
        BY <2>8, <3>1, <3>2 DEF UseAnswer, ToldRight, Told
    <2>9. ASSUME UNCHANGED prep
          PROVE  FALSE
      BY <2>9
    <2> QED
      BY <2>4, <2>5, <2>7, <2>8, <2>9 DEF PreparationNext, PrepStep, Attests, OwnerTrusts
  <1> QED
    BY <1>1, PreparationInvCorrect, PTL DEF PreparationSpec, MintsArePrepared

\* Steps 5 to 9 of receive() are, for the rest of the SDK, one step that takes a call to the
\* mint or ends it with one of the errors Receive knows: module Receive leaves nothing out.
THEOREM PreparationIsPrepare == PreparationSpec => PreparesAsReceive
  <1> DEFINE view == [p \in Preps |-> WholeCall(p)]
  <1>1. PreparationInv /\ [PreparationNext]_prepVars =>
          [\E p \in Preps : Whole!Prepare(p)]_view
    <2> SUFFICES ASSUME PreparationInv, [PreparationNext]_prepVars, view' # view
                 PROVE  \E p \in Preps : Whole!Prepare(p)
      OBVIOUS
    <2> USE DEF PreparationInv, PreparationTypeOK, Attested
    <2>1. PICK p \in Preps :
            /\ prep[p].pc # "done" /\ prep[p].out = "none"
            /\ \E out \in PrepOutcomes \ {"none"} : prep' = Ended(p, out)
      <3>1. ASSUME NEW q \in Preps, NEW v,
                   prep' = [prep EXCEPT ![q] = v], v.pc # "done", prep[q].pc # "done"
            PROVE  view' = view
        BY <3>1 DEF WholeCall
      <3>2. prep' # prep
        BY DEF WholeCall
      <3>3. ASSUME NEW q \in Preps, StartPrep(q)
            PROVE  \E out \in PrepOutcomes \ {"none"} : prep' = Ended(q, out)
        <4>1. [NewPrep EXCEPT !.pc = "polling", !.attempt = 1].pc = "polling"
          BY DEF NewPrep
        <4>2. prep[q].pc # "done"
          BY <3>3 DEF StartPrep
        <4> QED
          BY <3>1, <3>3, <4>1, <4>2 DEF StartPrep, PrepOutcomes
      <3>4. ASSUME NEW q \in Preps, NEW pc \in {"trustline", "creating"},
                   prep' = Moved(q, pc), prep[q].pc # "done"
            PROVE  FALSE
        <4>1. prep' = [prep EXCEPT ![q] = [prep[q] EXCEPT !.pc = pc]]
          BY <3>4 DEF Moved
        <4>2. [prep[q] EXCEPT !.pc = pc].pc = pc
          BY DEF PrepStates
        <4> QED
          BY <3>1, <3>4, <4>1, <4>2
      <3>5. ASSUME NEW q \in Preps, PollIris(q)
            PROVE  \E out \in PrepOutcomes \ {"none"} : prep' = Ended(q, out)
        <4>1. prep[q].pc = "polling"
          BY <3>5 DEF PollIris
        <4>2. ASSUME prep' = [prep EXCEPT ![q].attempt = prep[q].attempt + 1]
              PROVE  FALSE
          <5>1. prep' = [prep EXCEPT ![q] = [prep[q] EXCEPT !.attempt = prep[q].attempt + 1]]
            BY <4>2
          <5>2. [prep[q] EXCEPT !.attempt = prep[q].attempt + 1].pc = "polling"
            BY <4>1 DEF PrepStates
          <5> QED
            BY <3>1, <4>1, <5>1, <5>2
        <4> QED
          BY <3>4, <3>5, <4>1, <4>2
             DEF PollIris, MessageChecked, ReadSaidNothing, PrepOutcomes
      <3>8. ASSUME NEW q \in Preps, NEW saw, prep' = Learns(q, saw), prep[q].pc # "done"
            PROVE  FALSE
        <4>1. prep' = [prep EXCEPT ![q] = [prep[q] EXCEPT !.pc = "answered", !.saw = saw]]
          BY <3>8 DEF Learns
        <4>2. [prep[q] EXCEPT !.pc = "answered", !.saw = saw].pc = "answered"
          BY DEF PrepStates
        <4> QED
          BY <3>1, <3>8, <4>1, <4>2
      <3>6. ASSUME NEW q \in Preps, ReadTrustline(q) \/ UseAnswer(q) \/ CreateTrustline(q)
            PROVE  \E out \in PrepOutcomes \ {"none"} : prep' = Ended(q, out)
        BY <3>4, <3>6, <3>8 DEF ReadTrustline, UseAnswer, CreateTrustline, Passes, PrepOutcomes
      <3>7. ASSUME NEW q \in Preps, StartPrep(q) \/ PrepStep(q)
            PROVE  prep[q].pc # "done" /\ prep[q].out = "none"
        BY <3>7 DEF StartPrep, PrepStep, PollIris, ReadTrustline, UseAnswer, CreateTrustline
      <3> QED
        BY <3>2, <3>3, <3>5, <3>6, <3>7
           DEF PreparationNext, PrepStep, Attests, OwnerTrusts, prepVars
    <2>2. PICK out \in PrepOutcomes \ {"none"} : prep' = Ended(p, out)
      BY <2>1
    <2>3. prep'[p].pc = "done" /\ prep'[p].out = out
      BY <2>2 DEF Ended, NewPrep
    <2>4. \A q \in Preps \ {p} : prep'[q] = prep[q]
      BY <2>2 DEF Ended
    <2>5. view[p].pc = "attesting"
      BY <2>1 DEF WholeCall
    <2>6. CASE out = "ready"
      <3>1. view' = [view EXCEPT ![p].pc = "ready"]
        BY <2>1, <2>3, <2>4, <2>6 DEF WholeCall
      <3> HIDE DEF view
      <3> QED
        BY <2>5, <3>1 DEF Whole!Prepare, Whole!Goto, Whole!chainVars, view
    <2>7. CASE out # "ready"
      <3>1. view' = [view EXCEPT ![p] = [@ EXCEPT !.pc = "done", !.out = out,
                                                  !.client = "none", !.seq = 0]]
        <4>1. \A q \in Preps \ {p} : WholeCall(q)' = WholeCall(q)
          BY <2>4 DEF WholeCall
        <4>2. view[p] = [pc |-> "attesting", client |-> "client", burn |-> p, seq |-> 0,
                         out |-> "none"]
          BY <2>1 DEF WholeCall
        <4>3. WholeCall(p)' = [pc |-> "done", client |-> "none", burn |-> p, seq |-> 0,
                               out |-> out]
          BY <2>3, <2>7 DEF WholeCall
        <4>4. WholeCall(p)' = [view[p] EXCEPT !.pc = "done", !.out = out, !.client = "none",
                                              !.seq = 0]
          <5> DEFINE before == [pc |-> "attesting", client |-> "client", burn |-> p, seq |-> 0,
                                out |-> "none"]
                     Only == [pc : {"done"}, client : {"none"}, burn : {p}, seq : {0},
                              out : {out}]
          <5>1. [before EXCEPT !.pc = "done", !.out = out, !.client = "none", !.seq = 0]
                  \in Only
            OBVIOUS
          <5>2. WholeCall(p)' \in Only
            BY <4>3
          <5>3. \A a, b \in Only : a = b
            OBVIOUS
          <5>4. view[p] = before
            BY <4>2
          <5> HIDE DEF view, before, Only
          <5> QED
            BY <5>1, <5>2, <5>3, <5>4
        <4> QED
          BY <4>1, <4>4
      <3>2. Whole!Ends(p, out)
        BY <3>1 DEF Whole!Ends
      <3>3. out \in {"AttestationTimeout", "Invalid", "MintFailed", "Other"}
        BY <2>2, <2>7 DEF PrepOutcomes
      <3> QED
        BY <2>5, <3>2, <3>3 DEF Whole!Prepare, Whole!chainVars
    <2> QED
      BY <2>6, <2>7
  <1> QED
    BY <1>1, PreparationInvCorrect, PTL DEF PreparationSpec, PreparesAsReceive
-----------------------------------------------------------------------------
(***************************************************************************)
(* The fee quotes.                                                         *)
(***************************************************************************)
\* What the steps write into a request.
LEMMA AskEdits ==
  ASSUME NEW v \in AskStates, NEW tiers \in SUBSET Tiers, NEW got \in SUBSET Tiers,
         NEW pc \in {"probe", "set"}
  PROVE  /\ [v EXCEPT !.pc = "probe", !.pending = Tiers] \in AskStates
         /\ [v EXCEPT !.pending = tiers, !.got = got, !.pc = pc] \in AskStates
         /\ [v EXCEPT !.old = TRUE] \in AskStates
  <1>1. [v EXCEPT !.pc = "probe", !.pending = Tiers] \in AskStates
    BY DEF AskStates
  <1>2. [v EXCEPT !.pending = tiers, !.got = got, !.pc = pc] \in AskStates
    BY DEF AskStates
  <1>3. [v EXCEPT !.old = TRUE] \in AskStates
    BY DEF AskStates
  <1> QED
    BY <1>1, <1>2, <1>3

\* A step keeps the types of the quotes.
LEMMA FeesStep == FeesTypeOK /\ [FeesNext]_feesVars => FeesTypeOK'
  <1> SUFFICES ASSUME FeesTypeOK, [FeesNext]_feesVars
               PROVE  FeesTypeOK'
    OBVIOUS
  <1> USE FeesAssumption DEF FeesTypeOK
  <1>0. NoEntry \in [there : BOOLEAN, tiers : SUBSET Tiers, age : 0..(FeeLife + 2),
                     left : 0..FeeLife]
    BY DEF NoEntry
  <1>1. \A out \in {"refused", "quoted", "unavailable", "aborted"} :
          [NoAsk EXCEPT !.pc = "done", !.out = out] \in AskStates
    BY DEF NoAsk, AskStates, Tiers
  <1>2. ASSUME NEW q \in Asks, NEW mode \in Tiers, Ask(q, mode)
        PROVE  FeesTypeOK'
    <2>1. [NoAsk EXCEPT !.pc = "cache", !.mode = mode] \in AskStates
      BY DEF NoAsk, AskStates
    <2> QED
      BY <1>1, <1>2, <2>1 DEF Ask, Reply
  <1>3. ASSUME NEW q \in Asks, ReadCache(q)
        PROVE  FeesTypeOK'
    <2>1. CASE StartProbes(q)
      <3>1. ask' = [ask EXCEPT ![q] = [ask[q] EXCEPT !.pc = "probe", !.pending = Tiers]]
        BY <2>1 DEF StartProbes
      <3> QED
        BY <1>3, <3>1, AskEdits DEF ReadCache
    <2>2. CASE Quote(q, entry.tiers)
      BY <1>1, <1>3, <2>2 DEF ReadCache, Quote, Reply
    <2> QED
      BY <1>3, <2>1, <2>2 DEF ReadCache
  <1>4. ASSUME NEW q \in Asks, NEW t \in Tiers, ProbeTier(q, t)
        PROVE  FeesTypeOK'
    <2> DEFINE rest == ask[q].pending \ {t}
               pc == IF rest = {} THEN "set" ELSE "probe"
    <2>1. rest \in SUBSET Tiers /\ pc \in {"probe", "set"}
      BY DEF AskStates
    <2>2. PICK got \in {ask[q].got, ask[q].got \cup ({t} \cap offered)} :
            ask' = [ask EXCEPT ![q].pending = rest, ![q].got = got, ![q].pc = pc]
      BY <1>4 DEF ProbeTier
    <2>3. got \in SUBSET Tiers
      BY DEF AskStates
    <2> HIDE DEF rest, pc
    <2>4. ask' = [ask EXCEPT ![q] = [ask[q] EXCEPT !.pending = rest, !.got = got, !.pc = pc]]
      BY <2>2
    <2>5. [ask[q] EXCEPT !.pending = rest, !.got = got, !.pc = pc] \in AskStates
      BY <2>1, <2>3, AskEdits
    <2> QED
      BY <1>4, <2>4, <2>5 DEF ProbeTier
  <1>5. ASSUME NEW q \in Asks, SetCache(q)
        PROVE  FeesTypeOK'
    <2>1. entry' \in [there : BOOLEAN, tiers : SUBSET Tiers, age : 0..(FeeLife + 2),
                      left : 0..FeeLife]
      BY <1>5 DEF SetCache, AskStates
    <2>2. ask' \in [Asks -> AskStates]
      BY <1>1, <1>5 DEF SetCache, Quote, Reply
    <2> QED
      BY <1>5, <2>1, <2>2 DEF SetCache
  <1>6. ASSUME NEW q \in Asks, DropAsk(q)
        PROVE  FeesTypeOK'
    BY <1>1, <1>6 DEF DropAsk, Reply
  <1>7. CASE ForgetQuotes
    BY <1>0, <1>1, <1>7 DEF ForgetQuotes
  <1>8. CASE Reoffer
    BY <1>8 DEF Reoffer
  <1>9. CASE FeesTick
    <2>1. entry' \in [there : BOOLEAN, tiers : SUBSET Tiers, age : 0..(FeeLife + 2),
                      left : 0..FeeLife]
      <3>1. CASE entry.left <= 1
        BY <1>0, <1>9, <3>1 DEF FeesTick, Ripened
      <3>2. CASE ~ (entry.left <= 1)
        <4>1. entry.left - 1 \in 0..FeeLife
          BY <3>2
        <4>2. (IF entry.age < FeeLife + 2 THEN entry.age + 1 ELSE entry.age)
                \in 0..(FeeLife + 2)
          OBVIOUS
        <4> QED
          BY <1>9, <3>2, <4>1, <4>2 DEF FeesTick, Ripened
      <3> QED
        BY <3>1, <3>2
    <2>2. ask' \in [Asks -> AskStates]
      BY <1>9, AskEdits DEF FeesTick
    <2> QED
      BY <1>9, <2>1, <2>2 DEF FeesTick
  <1>10. CASE UNCHANGED feesVars
    BY <1>10 DEF feesVars
  <1> QED
    BY <1>2, <1>3, <1>4, <1>5, <1>6, <1>7, <1>8, <1>9, <1>10 DEF FeesNext, AskStep

\* handleFees and its cache are always well typed, for any TTL and number of requests.
THEOREM FeesTypeCorrect == FeesSpec => []FeesTypeOK
  <1>1. FeesInit => FeesTypeOK
    BY FeesAssumption DEF FeesInit, FeesTypeOK, NoEntry, NoAsk, AskStates, Tiers
  <1> QED
    BY <1>1, FeesStep, PTL DEF FeesSpec

\* RedisFeeCache's TTL bounds what a quote can be: no overlap of requests renews an entry.
THEOREM QuotesStayRecent == FeesSpec => []QuotesAreRecent
  <1>1. FeesInit => QuotesAreRecent
    BY DEF FeesInit, QuotesAreRecent, NoEntry
  <1>2. FeesTypeOK /\ QuotesAreRecent /\ [FeesNext]_feesVars => QuotesAreRecent'
    <2> SUFFICES ASSUME FeesTypeOK, QuotesAreRecent, [FeesNext]_feesVars
                 PROVE  QuotesAreRecent'
      OBVIOUS
    <2> USE FeesAssumption DEF FeesTypeOK, QuotesAreRecent
    <2>1. CASE UNCHANGED entry
      BY <2>1
    <2>2. ASSUME NEW q \in Asks, SetCache(q)
          PROVE  QuotesAreRecent'
      <3>1. entry'.left = FeeLife /\ entry'.age \in {0, 1}
        BY <2>2 DEF SetCache
      <3> QED
        BY <3>1
    <2>3. CASE ForgetQuotes
      BY <2>3 DEF ForgetQuotes, NoEntry
    <2>4. CASE FeesTick
      <3>1. CASE entry.left <= 1
        BY <2>4, <3>1 DEF FeesTick, Ripened, NoEntry
      <3>2. CASE ~ (entry.left <= 1)
        <4>1. /\ entry'.there = entry.there /\ entry'.left = entry.left - 1
              /\ entry'.age <= entry.age + 1 /\ entry'.age \in Nat
          BY <2>4, <3>2 DEF FeesTick, Ripened
        <4> QED
          BY <3>2, <4>1
      <3> QED
        BY <3>1, <3>2
    <2> QED
      BY <2>1, <2>2, <2>3, <2>4
         DEF FeesNext, feesVars, AskStep, Ask, ReadCache, ProbeTier, DropAsk, Reoffer
  <1> QED
    BY <1>1, <1>2, FeesTypeCorrect, PTL DEF FeesSpec
-----------------------------------------------------------------------------
(***************************************************************************)
(* The parts together.                                                     *)
(***************************************************************************)
\* What a behaviour of MCServices is to each part: every part moves alone or stays.
THEOREM ServicesRunParts ==
  ServicesFairSpec =>
    IntentsSpec /\ FeesSpec /\ AutoSpec /\ StartupSpec /\ PreparationSpec
  <1>1. ServicesInit =>
          IntentsInit /\ FeesInit /\ AutoInit /\ StartupInit /\ PreparationInit
    BY DEF ServicesInit, IntentsRest, FeesRest, AutoRest, StartupRest, StartupCases, PreparationRest
  <1>2. [ServicesNext]_servicesVars =>
          /\ [IntentsNext]_intentsVars
          /\ [FeesNext]_feesVars
          /\ [AutoNext]_autoVars
          /\ [StartupNext]_startupVars
          /\ [PreparationNext]_prepVars
    BY DEF ServicesNext, servicesVars
  <1> QED
    BY <1>1, <1>2, PTL
       DEF ServicesFairSpec, IntentsSpec, FeesSpec, AutoSpec, StartupSpec, PreparationSpec

\* The handlers, stores and scripts that share nothing are always well typed together.
THEOREM ServicesTypeCorrect == ServicesFairSpec => []ServicesTypeOK
  <1>1. IntentsTypeOK /\ FeesTypeOK /\ AutoInv /\ StartupInv /\ PreparationInv =>
          ServicesTypeOK
    BY DEF ServicesTypeOK, AutoInv, StartupInv, PreparationInv
  <1> QED
    BY <1>1, ServicesRunParts, IntentsTypeCorrect, FeesTypeCorrect, AutoInvCorrect,
       StartupInvCorrect, PreparationInvCorrect, PTL
=============================================================================
