------------------------- MODULE Deployment_proofs --------------------------
(***************************************************************************)
(* Theorems about Deployment for any number of runs: what contracts.ts     *)
(* publishes is one complete deployment, and no oracle gets an old price,  *)
(* wherever a script ends or a file is torn.                               *)
(***************************************************************************)
EXTENDS Deployment, TLAPS

Deploys == script.kind \in {"l1", "l2", "generic"}

(* Where each kind of script can be, and with which deployment.            *)
Course ==
  ~At("idle") =>
    /\ runs \in 1..MaxRuns
    /\ script.kind = "updatePrice" =>
         script.stage \in {"quoting", "saving", "lookup", "oracle"}
    /\ script.kind = "generic" =>
         script.stage \notin {"saving", "lookup", "oracle", "delegating"}
    /\ At("lookup") => script.kind = "updatePrice"
    /\ At("oracle") /\ script.kind = "updatePrice" =>
         networks # Torn /\ networks[script.net].core # 0

(* What is on chain when a script comes to its later steps.                *)
Steps ==
  /\ script.stage \in {"staking", "delegating", "networks", "contracts"} =>
       chain[runs].configured
  /\ script.stage \in {"delegating", "networks", "contracts"} =>
       chain[runs].funded
  /\ script.stage \in {"networks", "contracts"} /\ Managers # 0 =>
       chain[runs].managed
  /\ At("contracts") /\ networks # Torn => networks[Name].core = runs

(* Deployments in the files are those of past runs.                        *)
Known ==
  \A n \in Names :
    /\ networks # Torn => networks[n].core <= runs
    /\ contracts # Torn => contracts[n].core <= runs

IInv ==
  TypeOK /\ Course /\ Steps /\ Known /\ PublishedWhole /\ OraclePriceIsSane
-----------------------------------------------------------------------------
(***************************************************************************)
(* What is known of the current script and of the names of the files.      *)
(***************************************************************************)
LEMMA NamesOfScripts ==
  /\ \A kind \in Scripts, net \in Hardhat : NameOf(kind, net) \in Names
  /\ \A net \in Hardhat : net \in Names
<1>1. \A kind \in Scripts, net \in Hardhat : NameOf(kind, net) \in Names
  BY DEF Names
<1>2. \A net \in Hardhat : NameOf("updatePrice", net) = net
  BY DEF NameOf
<1>3. "updatePrice" \in Scripts
  BY DEF Scripts
<1> QED BY <1>1, <1>2, <1>3

LEMMA TornIsNoFile == Torn \notin [Names -> Entries]
<1>1. "local" \in Names /\ "local" \in Hardhat
  BY NamesOfScripts DEF Hardhat
<1>2. Torn["local"].core = MaxRuns + 1
  BY <1>1 DEF Torn
<1>3. \A e \in Entries : e.core \in 0..MaxRuns
  BY DEF Entries, Ids
<1> QED BY <1>1, <1>2, <1>3, DeploymentConstants

LEMMA Running ==
  ASSUME TypeOK, Course, ~At("idle")
  PROVE  /\ script \in [kind : Scripts, net : Hardhat, stage : Stages]
         /\ runs \in 1..MaxRuns
         /\ Name \in Names
         /\ script.net \in Names
<1>1. script \in [kind : Scripts, net : Hardhat, stage : Stages]
  BY DEF TypeOK, At, NoScript
<1> QED BY <1>1, NamesOfScripts DEF Course, Name

LEMMA PriceContents == Quote \in Prices /\ Default \in Prices
BY DEF Quote, Default, Prices

LEMMA OraclePriceType ==
  ASSUME TypeOK
  PROVE  EthPrice \in Prices /\ ~EthPrice.old
<1>1. ~Default.old
  BY DEF Default
<1>2. CASE priceFile \in {MissingPrice, TornPrice}
  BY <1>1, <1>2, PriceContents DEF EthPrice
<1>3. CASE priceFile \notin {MissingPrice, TornPrice} /\ priceFile.old
  BY <1>1, <1>3, PriceContents DEF EthPrice
<1>4. CASE priceFile \notin {MissingPrice, TornPrice} /\ ~priceFile.old
  BY <1>4 DEF EthPrice, TypeOK
<1> QED BY <1>2, <1>3, <1>4

(* A script ends: nothing holds for its stage any more.                    *)
LEMMA EndKeeps ==
  ASSUME End
  PROVE  /\ script' \in [kind : Scripts, net : Hardhat, stage : Stages]
                          \cup {NoScript}
         /\ Course' /\ Steps'
BY DEF End, NoScript, Course, Steps, At

-----------------------------------------------------------------------------
(***************************************************************************)
(* The invariant, action by action.                                        *)
(***************************************************************************)
LEMMA InitInvariant == Init => IInv
<1> SUFFICES ASSUME Init PROVE IInv
  OBVIOUS
<1> USE DEF Init
<1>1. TypeOK
  BY DeploymentConstants DEF TypeOK, Unset, NoEntry, Entries, Ids
<1>2. Course /\ Steps
  BY DEF Course, Steps, At, NoScript
<1>3. \A n \in Names : networks[n].core = 0 /\ contracts[n].core = 0
  BY DEF NoEntry
<1>4. Known /\ PublishedWhole
  BY <1>3 DEF Known, PublishedWhole
<1>5. OraclePriceIsSane
  BY DEF OraclePriceIsSane, Unset
<1> QED BY <1>1, <1>2, <1>4, <1>5 DEF IInv

LEMMA StartKeeps ==
  ASSUME IInv, NEW kind \in Scripts, NEW net \in Hardhat, Start(kind, net)
  PROVE  IInv'
<1> USE DEF IInv, Start
<1>1. /\ runs' = runs + 1 /\ runs \in Nat /\ runs' \in 1..MaxRuns
      /\ UNCHANGED <<chain, networks, contracts, priceFile>>
  BY DeploymentConstants DEF TypeOK
<1>2. /\ script'.kind = kind /\ script'.net = net
      /\ script'.stage = IF kind = "updatePrice" THEN "quoting"
                         ELSE "deploying"
  OBVIOUS
<1>3. TypeOK'
  BY <1>1 DEF TypeOK, Stages
<1>4. Course' /\ Steps'
  BY <1>1, <1>2 DEF Course, Steps, At
<1>5. \A n \in Names : /\ networks # Torn => networks[n].core \in Nat
                       /\ contracts # Torn => contracts[n].core \in Nat
  BY DEF TypeOK, Entries, Ids
<1>6. Known'
  BY <1>1, <1>5 DEF Known
<1>7. PublishedWhole' /\ OraclePriceIsSane'
  BY <1>1 DEF PublishedWhole, OraclePriceIsSane
<1> QED BY <1>3, <1>4, <1>6, <1>7

(* Steps that touch no more than the price file and the stage.             *)
LEMMA PriceStepsKeep ==
  ASSUME IInv, FetchAndSaveEthPrice \/ UseDefaultPrice \/ LookUp
  PROVE  IInv'
<1> USE DEF IInv
<1>1. /\ ~At("idle")
      /\ UNCHANGED <<runs, chain, networks, contracts>>
  BY DEF FetchAndSaveEthPrice, UseDefaultPrice, LookUp, At
<1>2. /\ script \in [kind : Scripts, net : Hardhat, stage : Stages]
      /\ runs \in 1..MaxRuns
  BY <1>1, Running
<1>3. priceFile' \in Prices \cup {MissingPrice, TornPrice}
  <2>1. priceFile \in Prices \cup {MissingPrice, TornPrice}
    BY DEF TypeOK
  <2>2. priceFile' \in {Quote, Default, priceFile, TornPrice}
    BY DEF FetchAndSaveEthPrice, UseDefaultPrice, LookUp, Saves
  <2> QED BY <2>1, <2>2, PriceContents
<1>4. Known' /\ PublishedWhole' /\ OraclePriceIsSane'
  BY <1>1 DEF Known, PublishedWhole, OraclePriceIsSane
<1>5. CASE End
  BY <1>1, <1>3, <1>4, <1>5, EndKeeps DEF TypeOK
<1>6. CASE ~End
  <2>1. \E stage \in {"saving", "lookup", "oracle"} :
          /\ GoTo(stage)
          /\ stage = "saving" => script.kind # "generic"
          /\ stage = "lookup" => script.kind = "updatePrice"
          /\ stage = "oracle" =>
               /\ script.kind # "generic"
               /\ script.kind = "updatePrice" =>
                    networks # Torn /\ networks[script.net].core # 0
    BY <1>2, <1>6 DEF FetchAndSaveEthPrice, UseDefaultPrice, LookUp, Course,
       At, Scripts
  <2>2. PICK stage \in {"saving", "lookup", "oracle"} :
          /\ GoTo(stage)
          /\ stage = "saving" => script.kind # "generic"
          /\ stage = "lookup" => script.kind = "updatePrice"
          /\ stage = "oracle" =>
               /\ script.kind # "generic"
               /\ script.kind = "updatePrice" =>
                    networks # Torn /\ networks[script.net].core # 0
    BY <2>1
  <2>3. /\ script'.kind = script.kind /\ script'.net = script.net
        /\ script'.stage = stage
        /\ script' \in [kind : Scripts, net : Hardhat, stage : Stages]
    BY <1>2, <2>2 DEF GoTo, Stages
  <2>4. TypeOK'
    BY <1>1, <1>3, <2>3 DEF TypeOK
  <2>5. Course' /\ Steps'
    BY <1>1, <1>2, <2>2, <2>3 DEF Course, Steps, At
  <2> QED BY <1>4, <2>4, <2>5
<1> QED BY <1>5, <1>6

(* What a run has deployed gains, and keeps what it has.                   *)
Deployed ==
  [node : {0, 8545, 8546}, price : Prices \cup {Unset},
   configured : BOOLEAN, funded : BOOLEAN, managed : BOOLEAN]

Grows(old, new) ==
  /\ new \in Deployed
  /\ old.configured => new.configured
  /\ old.funded => new.funded
  /\ old.managed => new.managed
  /\ ~old.price.old => ~new.price.old

LEMMA GrowthKeeps ==
  ASSUME IInv, UNCHANGED <<runs, networks, contracts>>,
         chain' \in [1..MaxRuns -> Deployed],
         \A d \in 1..MaxRuns : Grows(chain[d], chain'[d])
  PROVE  Known' /\ PublishedWhole' /\ OraclePriceIsSane'
<1> USE DEF IInv
<1>1. Known'
  BY DEF Known
<1>2. ASSUME NEW n \in Names, contracts # Torn, contracts[n].core # 0
      PROVE  contracts[n].core \in 1..MaxRuns
  BY <1>2, DeploymentConstants DEF TypeOK, Entries, Ids
<1>3. PublishedWhole'
  BY <1>2 DEF PublishedWhole, Grows
<1>4. OraclePriceIsSane'
  BY DEF OraclePriceIsSane, Grows
<1> QED BY <1>1, <1>3, <1>4

(* The parts of a deployment that gains something.                         *)
LEMMA Gains ==
  ASSUME NEW old \in Deployed, NEW node \in {0, 8545, 8546},
         NEW price \in Prices \cup {Unset}, ~old.price.old => ~price.old,
         NEW configured \in BOOLEAN, old.configured => configured,
         NEW funded \in BOOLEAN, old.funded => funded,
         NEW managed \in BOOLEAN, old.managed => managed,
         NEW new,
         new = [node |-> node, price |-> price, configured |-> configured,
                funded |-> funded, managed |-> managed]
  PROVE  /\ new \in Deployed /\ Grows(old, new)
         /\ new.configured = configured /\ new.funded = funded
         /\ new.managed = managed
<1>1. new \in Deployed
  BY DEF Deployed
<1>2. /\ new.price = price /\ new.configured = configured
      /\ new.funded = funded /\ new.managed = managed
  OBVIOUS
<1>3. /\ old.configured => new.configured
      /\ old.funded => new.funded
      /\ old.managed => new.managed
      /\ ~old.price.old => ~new.price.old
  BY <1>2
<1> QED BY <1>1, <1>2, <1>3 DEF Grows

LEMMA DeployedParts ==
  ASSUME NEW old \in Deployed
  PROVE  /\ old.node \in {0, 8545, 8546} /\ old.price \in Prices \cup {Unset}
         /\ old.configured \in BOOLEAN /\ old.funded \in BOOLEAN
         /\ old.managed \in BOOLEAN
         /\ old = [node |-> old.node, price |-> old.price,
                   configured |-> old.configured, funded |-> old.funded,
                   managed |-> old.managed]
BY DEF Deployed

LEMMA Updates ==
  ASSUME NEW old \in Deployed, NEW yes \in BOOLEAN,
         NEW price \in Prices \cup {Unset}
  PROVE  /\ [old EXCEPT !.price = price] =
              [node |-> old.node, price |-> price,
               configured |-> old.configured, funded |-> old.funded,
               managed |-> old.managed]
         /\ [old EXCEPT !.configured = yes] =
              [node |-> old.node, price |-> old.price,
               configured |-> yes, funded |-> old.funded,
               managed |-> old.managed]
         /\ [old EXCEPT !.funded = yes] =
              [node |-> old.node, price |-> old.price,
               configured |-> old.configured, funded |-> yes,
               managed |-> old.managed]
         /\ [old EXCEPT !.managed = yes] =
              [node |-> old.node, price |-> old.price,
               configured |-> old.configured, funded |-> old.funded,
               managed |-> yes]
BY DEF Deployed

LEMMA GainsConfiguration ==
  ASSUME NEW old \in Deployed, NEW new,
         new = [node |-> old.node, price |-> old.price,
                configured |-> TRUE, funded |-> old.funded,
                managed |-> old.managed]
  PROVE  /\ new \in Deployed /\ Grows(old, new) /\ new.configured
         /\ new.funded = old.funded /\ new.managed = old.managed
<1>1. new \in Deployed
  BY DEF Deployed
<1>2. /\ new.configured /\ new.price = old.price
      /\ new.funded = old.funded /\ new.managed = old.managed
  OBVIOUS
<1>3. /\ old.configured => new.configured
      /\ old.funded => new.funded
      /\ old.managed => new.managed
      /\ ~old.price.old => ~new.price.old
  BY <1>2
<1> QED BY <1>1, <1>2, <1>3 DEF Grows

LEMMA GainsFunds ==
  ASSUME NEW old \in Deployed, NEW new,
         new = [node |-> old.node, price |-> old.price,
                configured |-> old.configured, funded |-> TRUE,
                managed |-> old.managed]
  PROVE  /\ new \in Deployed /\ Grows(old, new) /\ new.funded
         /\ new.configured = old.configured /\ new.managed = old.managed
<1>1. new \in Deployed
  BY DEF Deployed
<1>2. /\ new.funded /\ new.price = old.price
      /\ new.configured = old.configured /\ new.managed = old.managed
  OBVIOUS
<1>3. /\ old.configured => new.configured
      /\ old.funded => new.funded
      /\ old.managed => new.managed
      /\ ~old.price.old => ~new.price.old
  BY <1>2
<1> QED BY <1>1, <1>2, <1>3 DEF Grows

LEMMA GainsManagers ==
  ASSUME NEW old \in Deployed, NEW new,
         new = [node |-> old.node, price |-> old.price,
                configured |-> old.configured, funded |-> old.funded,
                managed |-> TRUE]
  PROVE  /\ new \in Deployed /\ Grows(old, new) /\ new.managed
         /\ new.configured = old.configured /\ new.funded = old.funded
<1>1. new \in Deployed
  BY DEF Deployed
<1>2. /\ new.managed /\ new.price = old.price
      /\ new.configured = old.configured /\ new.funded = old.funded
  OBVIOUS
<1>3. /\ old.configured => new.configured
      /\ old.funded => new.funded
      /\ old.managed => new.managed
      /\ ~old.price.old => ~new.price.old
  BY <1>2
<1> QED BY <1>1, <1>2, <1>3 DEF Grows

(* The deployment of the current run gains something, and the script goes  *)
(* on to a stage for which this is enough.                                 *)
LEMMA DeployingKeeps ==
  ASSUME IInv, Deploys, ~At("idle"),
         NEW new \in Deployed, Grows(chain[runs], new),
         chain' = [chain EXCEPT ![runs] = new],
         NEW stage \in Stages, GoTo(stage),
         UNCHANGED <<runs, networks, contracts>>,
         priceFile' \in Prices \cup {MissingPrice, TornPrice},
         stage \notin {"saving", "lookup", "oracle", "contracts"},
         stage = "delegating" => script.kind # "generic",
         stage \in {"staking", "delegating", "networks"} => new.configured,
         stage \in {"delegating", "networks"} => new.funded,
         stage = "networks" /\ Managers # 0 => new.managed
  PROVE  IInv'
<1> USE DEF IInv
<1>1. /\ script \in [kind : Scripts, net : Hardhat, stage : Stages]
      /\ runs \in 1..MaxRuns
  BY Running
<1>2. /\ script'.kind = script.kind /\ script'.net = script.net
      /\ script'.stage = stage
      /\ script' \in [kind : Scripts, net : Hardhat, stage : Stages]
  BY <1>1 DEF GoTo
<1>3. /\ chain \in [1..MaxRuns -> Deployed]
      /\ chain' \in [1..MaxRuns -> Deployed] /\ chain'[runs] = new
  BY <1>1 DEF TypeOK, Deployed
<1>4. \A d \in 1..MaxRuns : Grows(chain[d], chain'[d])
  BY <1>1, <1>3 DEF Grows
<1>5. Known' /\ PublishedWhole' /\ OraclePriceIsSane'
  BY <1>3, <1>4, GrowthKeeps
<1>6. TypeOK'
  BY <1>2, <1>3 DEF TypeOK, Deployed
<1>7. Course'
  BY <1>1, <1>2 DEF Course, At, Deploys
<1>8. Steps'
  BY <1>2, <1>3 DEF Steps, At, Managers
<1> QED BY <1>5, <1>6, <1>7, <1>8

LEMMA DeployCoreKeeps ==
  ASSUME IInv, DeployCore
  PROVE  IInv'
<1> USE DEF IInv
<1>1. ~At("idle") /\ At("deploying")
  BY DEF DeployCore, At
<1>2. /\ runs \in 1..MaxRuns /\ chain[runs] \in Deployed
      /\ script \in [kind : Scripts, net : Hardhat, stage : Stages]
  BY <1>1, Running DEF TypeOK, Deployed
<1>3. Deploys
  BY <1>1, <1>2 DEF Deploys, Course, At, Scripts
<1> DEFINE old == chain[runs]
           new == [node |-> Node(script.net), price |-> old.price,
                   configured |-> old.configured, funded |-> old.funded,
                   managed |-> old.managed]
<1>4. Node(script.net) \in {0, 8545, 8546}
  BY DEF Node
<1>5. new \in Deployed /\ Grows(old, new)
  BY <1>2, <1>4, DeployedParts, Gains
<1>6. new = [old EXCEPT !.node = Node(script.net)]
  BY <1>2 DEF Deployed
<1> HIDE DEF new
<1>7. chain' = [chain EXCEPT ![runs] = new] /\ GoTo("quoting")
  BY <1>6 DEF DeployCore
<1>8. "quoting" \in Stages
  BY DEF Stages
<1>9. /\ UNCHANGED <<runs, networks, contracts>>
      /\ priceFile' \in Prices \cup {MissingPrice, TornPrice}
  BY DEF DeployCore, TypeOK
<1> QED BY <1>1, <1>3, <1>5, <1>7, <1>8, <1>9, DeployingKeeps

LEMMA CoinMarketCapKeeps ==
  ASSUME IInv, UpdatePriceFromCoinMarketCap
  PROVE  IInv'
<1> USE DEF IInv
<1>1. ~At("idle") /\ At("quoting") /\ script.kind = "generic"
  BY DEF UpdatePriceFromCoinMarketCap, At
<1>2. runs \in 1..MaxRuns /\ chain[runs] \in Deployed
  BY <1>1, Running DEF TypeOK, Deployed
<1>3. PICK p \in {"quote", "fallback"} :
        chain' = [chain EXCEPT ![runs].price = [price |-> p, old |-> FALSE]]
  BY DEF UpdatePriceFromCoinMarketCap
<1> DEFINE old == chain[runs]
           price == [price |-> p, old |-> FALSE]
           new == [node |-> old.node, price |-> price,
                   configured |-> old.configured, funded |-> old.funded,
                   managed |-> old.managed]
<1>4. price \in Prices /\ ~price.old
  BY DEF Prices
<1> HIDE DEF price
<1>5. new = [old EXCEPT !.price = price]
  BY <1>2, <1>4, Updates
<1>6. new \in Deployed /\ Grows(old, new)
  BY <1>2, <1>4, DeployedParts, Gains
<1> HIDE DEF new
<1>7. chain' = [chain EXCEPT ![runs] = new] /\ GoTo("configuring")
  BY <1>3, <1>5 DEF price, UpdatePriceFromCoinMarketCap
<1>8. "configuring" \in Stages /\ Deploys
  BY <1>1 DEF Stages, Deploys
<1>9. /\ UNCHANGED <<runs, networks, contracts>>
      /\ priceFile' \in Prices \cup {MissingPrice, TornPrice}
  BY DEF UpdatePriceFromCoinMarketCap, TypeOK
<1> QED BY <1>1, <1>6, <1>7, <1>8, <1>9, DeployingKeeps

LEMMA ConfigureKeeps ==
  ASSUME IInv, Configure
  PROVE  IInv'
<1> USE DEF IInv
<1>1. ~At("idle") /\ At("configuring")
  BY DEF Configure, At
<1>2. /\ runs \in 1..MaxRuns /\ chain[runs] \in Deployed
      /\ script \in [kind : Scripts, net : Hardhat, stage : Stages]
  BY <1>1, Running DEF TypeOK, Deployed
<1>3. Deploys
  BY <1>1, <1>2 DEF Deploys, Course, At, Scripts
<1> DEFINE old == chain[runs]
           new == [node |-> old.node, price |-> old.price,
                   configured |-> TRUE, funded |-> old.funded,
                   managed |-> old.managed]
<1>4. new = [old EXCEPT !.configured = TRUE]
  BY <1>2, Updates
<1>5. new \in Deployed /\ Grows(old, new) /\ new.configured
  BY <1>2, GainsConfiguration
<1> HIDE DEF new
<1>6. chain' = [chain EXCEPT ![runs] = new] /\ GoTo("staking")
  BY <1>4 DEF Configure
<1>7. "staking" \in Stages
  BY DEF Stages
<1>8. /\ UNCHANGED <<runs, networks, contracts>>
      /\ priceFile' \in Prices \cup {MissingPrice, TornPrice}
  BY DEF Configure, TypeOK
<1> QED BY <1>1, <1>3, <1>5, <1>6, <1>7, <1>8, DeployingKeeps

LEMMA DeployStakingPoolKeeps ==
  ASSUME IInv, DeployStakingPool
  PROVE  IInv'
<1> USE DEF IInv
<1>1. ~At("idle") /\ At("staking")
  BY DEF DeployStakingPool, At
<1>2. /\ runs \in 1..MaxRuns /\ chain[runs] \in Deployed
      /\ script \in [kind : Scripts, net : Hardhat, stage : Stages]
  BY <1>1, Running DEF TypeOK, Deployed
<1>3. Deploys /\ chain[runs].configured
  BY <1>1, <1>2 DEF Deploys, Course, Steps, At, Scripts
<1> DEFINE old == chain[runs]
           new == [node |-> old.node, price |-> old.price,
                   configured |-> old.configured, funded |-> TRUE,
                   managed |-> old.managed]
           stage == IF script.kind = "generic" THEN "networks" ELSE "delegating"
<1>4. new = [old EXCEPT !.funded = TRUE]
  BY <1>2, Updates
<1>5. /\ new \in Deployed /\ Grows(old, new)
      /\ new.configured /\ new.funded
  BY <1>2, <1>3, GainsFunds
<1> HIDE DEF new
<1>6. chain' = [chain EXCEPT ![runs] = new] /\ GoTo(stage)
  BY <1>4 DEF DeployStakingPool
<1>7. /\ stage \in Stages \ {"saving", "lookup", "oracle", "contracts"}
      /\ stage = "delegating" => script.kind # "generic"
      /\ stage = "networks" => Managers = 0
  BY DEF Stages, Managers
<1>8. /\ UNCHANGED <<runs, networks, contracts>>
      /\ priceFile' \in Prices \cup {MissingPrice, TornPrice}
  BY DEF DeployStakingPool, TypeOK
<1> HIDE DEF stage
<1> QED BY <1>1, <1>3, <1>5, <1>6, <1>7, <1>8, DeployingKeeps

LEMMA DeployManagersKeeps ==
  ASSUME IInv, DeployManagers
  PROVE  IInv'
<1> USE DEF IInv
<1>1. ~At("idle") /\ At("delegating")
  BY DEF DeployManagers, At
<1>2. /\ runs \in 1..MaxRuns /\ chain[runs] \in Deployed
      /\ script \in [kind : Scripts, net : Hardhat, stage : Stages]
  BY <1>1, Running DEF TypeOK, Deployed
<1>3. Deploys /\ chain[runs].configured /\ chain[runs].funded
  BY <1>1, <1>2 DEF Deploys, Course, Steps, At, Scripts
<1> DEFINE old == chain[runs]
           new == [node |-> old.node, price |-> old.price,
                   configured |-> old.configured, funded |-> old.funded,
                   managed |-> TRUE]
<1>4. new = [old EXCEPT !.managed = TRUE]
  BY <1>2, Updates
<1>5. /\ new \in Deployed /\ Grows(old, new)
      /\ new.configured /\ new.funded /\ new.managed
  BY <1>2, <1>3, GainsManagers
<1> HIDE DEF new
<1>6. chain' = [chain EXCEPT ![runs] = new] /\ GoTo("networks")
  BY <1>4 DEF DeployManagers
<1>7. "networks" \in Stages
  BY DEF Stages
<1>8. /\ UNCHANGED <<runs, networks, contracts>>
      /\ priceFile' \in Prices \cup {MissingPrice, TornPrice}
  BY DEF DeployManagers, TypeOK
<1> QED BY <1>1, <1>3, <1>5, <1>6, <1>7, <1>8, DeployingKeeps

(* The oracle of the current run or, for updatePrice, of a recorded one.   *)
LEMMA UpdateOraclePriceKeeps ==
  ASSUME IInv, UpdateOraclePrice
  PROVE  IInv'
<1> USE DEF IInv
<1> DEFINE updates == script.kind = "updatePrice"
           d == IF updates THEN networks[script.net].core ELSE runs
<1>1. ~At("idle") /\ At("oracle")
  BY DEF UpdateOraclePrice, At
<1>2. /\ script \in [kind : Scripts, net : Hardhat, stage : Stages]
      /\ runs \in 1..MaxRuns
      /\ chain \in [1..MaxRuns -> Deployed]
  BY <1>1, Running DEF TypeOK, Deployed
<1>3. EthPrice \in Prices /\ ~EthPrice.old
  BY OraclePriceType
<1>4. priceFile' \in Prices \cup {MissingPrice, TornPrice}
  <2>1. priceFile' \in {priceFile, EthPrice, TornPrice}
    BY DEF UpdateOraclePrice, Saves
  <2> QED BY <1>3, <2>1 DEF TypeOK
<1>5. \/ chain' = chain
      \/ chain' = [chain EXCEPT ![d].price = EthPrice]
  BY DEF UpdateOraclePrice
<1>6. ASSUME NEW c \in 1..MaxRuns
      PROVE  chain'[c] \in Deployed /\ Grows(chain[c], chain'[c])
  <2>1. chain[c] \in Deployed
    BY <1>2
  <2>2. CASE chain'[c] = chain[c]
    BY <2>1, <2>2 DEF Grows
  <2>3. CASE chain'[c] = [chain[c] EXCEPT !.price = EthPrice]
    BY <1>3, <2>1, <2>3 DEF Grows, Deployed
  <2> QED BY <1>2, <1>5, <2>2, <2>3
<1>7. chain' \in [1..MaxRuns -> Deployed]
  BY <1>2, <1>5, <1>6
<1>8. UNCHANGED <<runs, networks, contracts>>
  BY DEF UpdateOraclePrice
<1>9. Known' /\ PublishedWhole' /\ OraclePriceIsSane'
  BY <1>6, <1>7, <1>8, GrowthKeeps
<1>10. CASE updates
  <2>1. End
    BY <1>10 DEF UpdateOraclePrice
  <2> QED BY <1>4, <1>7, <1>8, <1>9, <2>1, EndKeeps DEF TypeOK, Deployed
<1>11. CASE ~updates
  <2>1. /\ script'.kind = script.kind /\ script'.net = script.net
        /\ script'.stage = "configuring"
        /\ script' \in [kind : Scripts, net : Hardhat, stage : Stages]
    BY <1>2, <1>11 DEF UpdateOraclePrice, GoTo, Stages
  <2>2. TypeOK'
    BY <1>4, <1>7, <1>8, <2>1 DEF TypeOK, Deployed
  <2>3. Course' /\ Steps'
    BY <1>2, <1>8, <1>11, <2>1 DEF Course, Steps, At
  <2> QED BY <1>9, <2>2, <2>3
<1> QED BY <1>10, <1>11

-----------------------------------------------------------------------------
(***************************************************************************)
(* Publishing, and what goes wrong.                                        *)
(***************************************************************************)
LEMMA UpdateNetworksKeeps ==
  ASSUME IInv, UpdateNetworks
  PROVE  IInv'
<1> USE DEF IInv
<1>1. ~At("idle") /\ At("networks")
  BY DEF UpdateNetworks, At
<1>2. /\ script \in [kind : Scripts, net : Hardhat, stage : Stages]
      /\ runs \in 1..MaxRuns /\ Name \in Names
      /\ UNCHANGED <<runs, chain, contracts, priceFile>>
  BY <1>1, Running DEF UpdateNetworks
<1>3. OraclePriceIsSane'
  BY <1>2 DEF OraclePriceIsSane
<1>4. CASE networks = Torn
  BY <1>2, <1>3, <1>4, EndKeeps
     DEF UpdateNetworks, TypeOK, Known, PublishedWhole
<1>5. CASE networks # Torn
  <2> DEFINE entry ==
        [core |-> runs,
         managers |-> IF Managers = 0 THEN networks[Name].managers
                      ELSE Managers]
  <2>1. networks \in [Names -> Entries] /\ entry \in Entries
    BY <1>2, <1>5 DEF TypeOK, Entries, Ids, Managers
  <2>2. networks' = [networks EXCEPT ![Name] = entry] /\ GoTo("contracts")
    BY <1>5, <2>1 DEF UpdateNetworks
  <2>3. /\ networks' \in [Names -> Entries]
        /\ networks'[Name].core = runs
        /\ \A n \in Names \ {Name} : networks'[n] = networks[n]
    BY <1>2, <2>1, <2>2
  <2>4. /\ script'.kind = script.kind /\ script'.net = script.net
        /\ script'.stage = "contracts"
        /\ script' \in [kind : Scripts, net : Hardhat, stage : Stages]
    BY <1>2, <2>2 DEF GoTo, Stages
  <2>5. TypeOK'
    BY <1>2, <2>3, <2>4 DEF TypeOK
  <2>6. Course'
    BY <1>1, <1>2, <2>4 DEF Course, At
  <2>7. Name' = Name /\ Managers' = Managers
    BY <1>2, <2>4 DEF Name, Managers
  <2>8. Steps'
    BY <1>1, <1>2, <2>3, <2>4, <2>7 DEF Steps, At
  <2>9. ASSUME NEW n \in Names
        PROVE  /\ networks[n].core <= networks'[n].core
               /\ networks'[n].core <= runs
               /\ networks[n].core \in Nat /\ networks'[n].core \in Nat
    BY <1>2, <1>5, <2>1, <2>3 DEF Known, Entries, Ids
  <2>10. ASSUME NEW n \in Names, contracts # Torn
         PROVE  contracts[n].core \in Nat
    BY <2>10 DEF TypeOK, Entries, Ids
  <2>11. Known'
    BY <1>2, <2>9 DEF Known
  <2>12. PublishedWhole'
    BY <1>2, <1>5, <2>9, <2>10 DEF PublishedWhole
  <2> QED BY <1>3, <2>5, <2>6, <2>8, <2>11, <2>12
<1> QED BY <1>4, <1>5

(* An entry of contracts.ts is written when everything it names is there.  *)
LEMMA UpdateContractsKeeps ==
  ASSUME IInv, UpdateContracts
  PROVE  IInv'
<1> USE DEF IInv
<1>1. ~At("idle") /\ At("contracts")
  BY DEF UpdateContracts, At
<1>2. /\ script \in [kind : Scripts, net : Hardhat, stage : Stages]
      /\ runs \in 1..MaxRuns /\ Name \in Names
      /\ UNCHANGED <<runs, chain, networks, priceFile>>
      /\ End
  BY <1>1, Running DEF UpdateContracts
<1>3. ExistingConfig \in [Names -> Entries]
  <2>1. NoEntry \in Entries
    BY DeploymentConstants DEF NoEntry, Entries, Ids
  <2>2. [n \in Names |-> NoEntry] \in [Names -> Entries]
    BY <2>1
  <2> QED BY <2>2 DEF ExistingConfig, TypeOK
<1>4. Entry \in Entries /\ Entry.core = runs /\ Entry.managers = Managers
  <2>1. runs \in Ids /\ Managers \in Ids
    BY <1>2, DeploymentConstants DEF Ids, Managers
  <2> QED BY <2>1 DEF Entry, Entries
<1>5. /\ contracts' \in [Names -> Entries]
      /\ contracts'[Name] = Entry
      /\ \A n \in Names \ {Name} : contracts'[n] = ExistingConfig[n]
  BY <1>2, <1>3, <1>4 DEF UpdateContracts
<1>6. \A n \in Names : \/ ExistingConfig[n].core = 0
                       \/ contracts # Torn /\ ExistingConfig[n] = contracts[n]
  BY DEF ExistingConfig, NoEntry
<1>7. TypeOK' /\ Course' /\ Steps'
  BY <1>2, <1>5, EndKeeps DEF TypeOK
<1>8. Known'
  BY <1>2, <1>4, <1>5, <1>6 DEF Known
<1>9. PublishedWhole'
  <2>1. /\ chain[runs].configured /\ chain[runs].funded
        /\ Managers \in {0, runs}
        /\ Managers # 0 => chain[runs].managed
        /\ networks = Torn \/ networks[Name].core >= runs
    BY <1>1, <1>2 DEF Steps, At, Managers
  <2>2. ASSUME NEW n \in Names, contracts'[n].core # 0
        PROVE  LET entry == contracts'[n]
               IN  /\ chain[entry.core].configured /\ chain[entry.core].funded
                   /\ entry.managers \in {0, entry.core}
                   /\ entry.managers # 0 => chain[entry.core].managed
                   /\ networks = Torn \/ networks[n].core >= entry.core
    <3>1. CASE n = Name
      BY <1>4, <1>5, <2>1, <3>1
    <3>2. CASE n # Name
      BY <1>5, <1>6, <2>2, <3>2 DEF PublishedWhole
    <3> QED BY <3>1, <3>2
  <2> QED BY <1>2, <2>2 DEF PublishedWhole
<1>10. OraclePriceIsSane'
  BY <1>2 DEF OraclePriceIsSane
<1> QED BY <1>7, <1>8, <1>9, <1>10

LEMMA FailKeeps ==
  ASSUME IInv, Fail
  PROVE  IInv'
BY EndKeeps DEF Fail, IInv, TypeOK, Known, PublishedWhole, OraclePriceIsSane

LEMMA TearKeeps ==
  ASSUME IInv, Tear
  PROVE  IInv'
<1>1. End /\ UNCHANGED <<runs, chain>>
  BY DEF Tear
<1>2. /\ networks' \in {networks, Torn}
      /\ contracts' \in {contracts, Torn}
      /\ priceFile' \in {priceFile, TornPrice}
  BY DEF Tear
<1> QED
  BY <1>1, <1>2, EndKeeps
     DEF IInv, TypeOK, Known, PublishedWhole, OraclePriceIsSane

LEMMA AgeKeeps ==
  ASSUME IInv, Age
  PROVE  IInv'
<1>1. priceFile' \in Prices
  BY DEF Age, Prices
<1> QED
  BY <1>1 DEF Age, IInv, TypeOK, Course, Steps, At, Name, Managers, Known,
     PublishedWhole, OraclePriceIsSane

LEMMA InvariantStep == IInv /\ [Next]_vars => IInv'
<1> SUFFICES ASSUME IInv, [Next]_vars PROVE IInv'
  OBVIOUS
<1>1. CASE UNCHANGED vars
  BY <1>1 DEF vars, IInv, TypeOK, Course, Steps, At, Name, Managers, Known,
     PublishedWhole, OraclePriceIsSane
<1> QED
  BY <1>1, StartKeeps, DeployCoreKeeps, PriceStepsKeep, CoinMarketCapKeeps,
     UpdateOraclePriceKeeps, ConfigureKeeps, DeployStakingPoolKeeps,
     DeployManagersKeeps, UpdateNetworksKeeps, UpdateContractsKeeps, FailKeeps,
     TearKeeps, AgeKeeps
     DEF Next

-----------------------------------------------------------------------------
(***************************************************************************)
(* Theorems.                                                               *)
(***************************************************************************)
(* The inductive invariant holds throughout.                               *)
THEOREM Invariance == Spec => []IInv
<1> QED BY InitInvariant, InvariantStep, PTL DEF Spec

(* The files and the chain keep their form: a file is whole or torn, and a *)
(* script is never at a stage of another kind of script.                   *)
THEOREM TypeCorrect == Spec => []TypeOK
<1>1. IInv => TypeOK
  BY DEF IInv
<1> QED BY <1>1, Invariance, PTL

(* An entry of contracts.ts names the contracts of one finished deployment *)
(* that networks.json knows, after any runs, failures and torn files.      *)
THEOREM PublicationIsWhole == Spec => []PublishedWhole
<1>1. IInv => PublishedWhole
  BY DEF IInv
<1> QED BY <1>1, Invariance, PTL

(* No script gives an oracle a price that has been saved for a day.        *)
THEOREM OraclesGetFreshPrices == Spec => []OraclePriceIsSane
<1>1. IInv => OraclePriceIsSane
  BY DEF IInv
<1> QED BY <1>1, Invariance, PTL
=============================================================================
