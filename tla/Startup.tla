------------------------------ MODULE Startup ------------------------------
(***************************************************************************)
(* How an instance decides, from its environment, to serve in real mode,   *)
(* and what receive() then finds configured.  A "deployed" instance is a   *)
(* Vercel function (serverlessDeps over depsFromEnv of kv.ts), a "local"   *)
(* one the server of serve.ts; both build their client with                *)
(* createAnchorCCTPFromEnv.                                                *)
(*                                                                         *)
(* A variable of the environment is unset, or has one of the values the    *)
(* checks tell apart.                                                      *)
(***************************************************************************)

VARIABLES
  place,      \* where the instance runs
  env,       \* its environment, which does not change while it lives
  state,     \* cold, refused (it throws, again on each request), or up
  client,    \* what the client was built with
  verdict    \* what a receive() found

startupVars == <<place, env, state, client, verdict>>

\* Stellar URLs are of a *.stellar.org host of one network or the other, of localhost, or of
\* another host; Iris URLs of one of Circle's two hosts, of another host that is named like it
\* (iris-api.example.org, iris-api-sandbox.example.org), or of any other.
\* `fields` stands for what is checked for its form alone: that URLs are https, the
\* destination and the secret that must match it, dust collector, forwarder, issuer and cap.
Environments ==
  [simMode : BOOLEAN,
   network : {"unset", "testnet", "mainnet", "other"},
   secret : BOOLEAN,
   horizonUrl : {"unset", "testnet", "mainnet", "localhost", "foreign"},
   sorobanRpcUrl : {"unset", "testnet", "mainnet", "localhost", "foreign"},
   attestationUrl : {"unset", "sandbox", "sandbox-like", "mainnet", "mainnet-like", "foreign"},
   usdcIssuer : BOOLEAN,
   kv : BOOLEAN,
   fields : {"valid", "invalid"}]

NoClient == [network |-> "none", signer |-> FALSE, iris |-> "none", rpc |-> "none",
             horizon |-> "none", usdcIssuer |-> FALSE]

Networks == {"testnet", "mainnet"}

\* What is behind a URL, if anything.
Hosts == Networks \cup {"none", "localhost", "foreign"}

\* The type invariant of an instance.
StartupTypeOK ==
  /\ place \in {"deployed", "local"}
  /\ env \in Environments
  /\ state \in {"cold", "refused", "up"}
  /\ client \in [network : Networks \cup {"none"}, signer : BOOLEAN, iris : Hosts,
                 rpc : Hosts, horizon : Hosts, usdcIssuer : BOOLEAN]
  /\ verdict \in {"none", "proceeds", "unattested", "elsewhere", "misconfigured", "simulated"}

StartupInit ==
  /\ place \in {"deployed", "local"}
  /\ env \in Environments
  /\ state = "cold"
  /\ client = NoClient
  /\ verdict = "none"
-----------------------------------------------------------------------------
Network == IF env.network = "unset" THEN "testnet" ELSE env.network

\* Mutant: any https host will do for Iris.
AttestationUrlIsHttps == env.attestationUrl # "unset"

\* requireAttestationUrl: explicit, https, and a host that starts like the network's own Iris.
AttestationUrlFits ==
  env.attestationUrl \in (IF Network = "mainnet" THEN {"mainnet", "mainnet-like"}
                                                ELSE {"sandbox", "sandbox-like"})

\* STELLAR_HOST_OK: which network the host is of is not looked at.
StellarHosts == Networks \cup {"localhost"}

\* assertColdStartEnv.
ColdStartEnv ==
  /\ Network \in Networks
  /\ env.horizonUrl \in StellarHosts
  /\ env.sorobanRpcUrl \in StellarHosts
  /\ AttestationUrlFits

\* What createAnchorCCTPFromEnv does not throw at.
BuildsClient ==
  /\ Network \in Networks
  /\ env.fields = "valid"
  /\ env.horizonUrl \in StellarHosts \cup {"unset"}

\* The issuer has a default on testnet only.
Issuer == env.usdcIssuer \/ Network = "testnet"

\* AttestationClient: without a base URL it is the mainnet API, whatever the network.
Iris ==
  CASE env.attestationUrl = "sandbox" -> "testnet"
    [] env.attestationUrl \in {"unset", "mainnet"} -> "mainnet"
    [] OTHER -> "foreign"

Host(url) == IF url = "unset" THEN "none" ELSE url

\* createAnchorCCTPFromEnv and createAnchorCCTP.  The trustline provider, which asks Horizon,
\* is there only with a key and an issuer.
Client ==
  [network |-> Network,
   signer |-> env.secret,
   iris |-> Iris,
   rpc |-> Host(env.sorobanRpcUrl),
   horizon |-> IF env.secret /\ Issuer THEN Host(env.horizonUrl) ELSE "none",
   usdcIssuer |-> Issuer]

\* depsFromEnv, and serverlessDeps before it.
DeployedStarts ==
  /\ ~ env.simMode
  /\ ColdStartEnv
  /\ env.kv
  /\ BuildsClient
  /\ Client.signer
  /\ Client.rpc # "none"

\* serve.ts: real mode fails fast; SIM_MODE builds no client and needs nothing.
LocalStarts ==
  \/ env.simMode
  \/ /\ env.secret
     /\ env.sorobanRpcUrl # "unset"
     /\ env.horizonUrl # "unset"
     /\ BuildsClient

Starts == IF place = "deployed" THEN DeployedStarts ELSE LocalStarts

ColdStart ==
  /\ state = "cold"
  /\ \/ /\ Starts
        /\ state' = "up"
        /\ client' = IF env.simMode THEN NoClient ELSE Client
     \/ /\ ~ Starts
        /\ state' = "refused"
        /\ UNCHANGED client
  /\ UNCHANGED <<place, env, verdict>>

LacksIssuer == client.network = "mainnet" /\ ~ client.usdcIssuer

LacksProvider == ~ client.signer \/ client.horizon = "none" \/ client.rpc = "none"

\* Only the network's own host is sure to serve it, and the other network's not to.
MayServe(host) == host \notin Networks \ {client.network}

MayNotServe(host) == host # client.network

\* receive(), as far as the configuration decides: the mainnet issuer, the poll of Iris, then
\* the signer, the trustline provider and the transport, and whether they are of the network
\* the client signs for.  Forwarder and sponsor always are.
FirstReceive ==
  /\ state = "up"
  /\ verdict = "none"
  /\ \/ client = NoClient /\ verdict' = "simulated"
     \/ /\ client # NoClient
        /\ LacksIssuer
        /\ verdict' = "misconfigured"
     \/ /\ client # NoClient
        /\ ~ LacksIssuer
        /\ MayNotServe(client.iris)
        /\ verdict' = "unattested"
     \/ /\ client # NoClient
        /\ ~ LacksIssuer
        /\ MayServe(client.iris)
        /\ \/ LacksProvider /\ verdict' = "misconfigured"
           \/ /\ ~ LacksProvider
              /\ MayNotServe(client.horizon) \/ MayNotServe(client.rpc)
              /\ verdict' = "elsewhere"
           \/ /\ ~ LacksProvider
              /\ MayServe(client.horizon) /\ MayServe(client.rpc)
              /\ verdict' = "proceeds"
  /\ UNCHANGED <<place, env, state, client>>

StartupNext == ColdStart \/ FirstReceive

StartupSpec == StartupInit /\ [][StartupNext]_startupVars
-----------------------------------------------------------------------------
\* What the checks of a start rule out for receive(): a part of the configuration that is
\* missing, except for the issuer of mainnet; and, of a deployed instance, simulation, the other
\* network's Iris (kv.ts: "never default across networks") and Stellar hosts that are not
\* stellar.org's or localhost.  They leave open an Iris that only has the name, and a Horizon
\* or an RPC server of the other network.
StartRulesOut ==
  /\ verdict = "misconfigured" => client.network = "mainnet" /\ ~ env.usdcIssuer
  /\ verdict = "simulated" => place = "local"
  /\ place = "deployed" /\ verdict = "unattested" => client.iris = "foreign"
  /\ place = "deployed" /\ verdict = "elsewhere" => {client.horizon, client.rpc} \subseteq StellarHosts
=============================================================================
