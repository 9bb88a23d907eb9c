----------------------------- MODULE Deployment -----------------------------
(***************************************************************************)
(* The deployment scripts: scripts/deploy/deploy-l1.ts, deploy-l2.ts and   *)
(* deployAndUpdateAddresses.ts, and utils/updatePrice.ts, with the files   *)
(* they leave behind: test/config/networks.json, frontend/config/          *)
(* contracts.ts and test/config/eth-price.json.  Scripts run one after the *)
(* other, as the README lists them; any of them can fail at any step or be *)
(* killed, also while a file is being written (writeFileSync first empties *)
(* the file).  The nodes keep their contracts.                             *)
(***************************************************************************)
EXTENDS Naturals

CONSTANTS MaxRuns   (* bound: so many scripts are run                      *)

ASSUME DeploymentConstants == MaxRuns \in Nat

VARIABLES
  runs,       (* scripts started so far; the number of the current one     *)
  script,     (* the current script                                        *)
  chain,      (* what each run has deployed                                *)
  networks,   (* networks.json, or Torn                                    *)
  contracts,  (* CONTRACT_ADDRESSES of contracts.ts, or Torn               *)
  priceFile   (* eth-price.json, MissingPrice or TornPrice                 *)

vars == <<runs, script, chain, networks, contracts, priceFile>>

Scripts == {"l1", "l2", "generic", "updatePrice"}
Hardhat == {"mainnetFork", "optimismFork", "local"}  (* --network          *)

(* Both files are keyed by these names.                                    *)
NameOf(kind, net) ==
  CASE kind = "l1"          -> "local"
    [] kind = "l2"          -> IF net = "optimismFork" THEN "optimism"
                               ELSE "optimismLocal"
    [] kind = "generic"     -> IF net = "mainnetFork" THEN "mainnet" ELSE net
    [] kind = "updatePrice" -> net

Names == {NameOf(k, n) : k \in Scripts, n \in Hardhat}

(* optimismFork is a node of its own, the other two share one.             *)
Node(net) == IF net = "optimismFork" THEN 8546 ELSE 8545

NoScript == [kind |-> "none", net |-> "local", stage |-> "idle"]
Stages   == {"deploying", "quoting", "saving", "lookup", "oracle",
             "configuring", "staking", "delegating", "networks", "contracts"}

(* A deployment is named by its run.  In networks.json and contracts.ts    *)
(* managers stands for delegateManager and autoRebalancer, core for the    *)
(* other addresses, 0 for none.                                            *)
Ids     == 0..MaxRuns
Entries == [core : Ids, managers : Ids]
NoEntry == [core |-> 0, managers |-> 0]

(* A file that does not parse.                                             *)
Torn == [n \in Names |-> [core |-> MaxRuns + 1, managers |-> 0]]

(* "quote" is a price within the bounds, "fallback" the 2000 of the        *)
(* generic script; old: more than 24 hours.                                *)
Prices  == [price : {"quote", "default", "fallback"}, old : BOOLEAN]
Quote   == [price |-> "quote", old |-> FALSE]
Default == [price |-> "default", old |-> FALSE]
Unset   == [price |-> "none", old |-> FALSE]

MissingPrice == [price |-> "missing", old |-> FALSE]
TornPrice    == [price |-> "torn", old |-> FALSE]

TypeOK ==
  /\ runs \in 0..MaxRuns
  /\ script \in [kind : Scripts, net : Hardhat, stage : Stages] \cup {NoScript}
  /\ chain \in [1..MaxRuns ->
       [node : {0, 8545, 8546}, price : Prices \cup {Unset},
        configured : BOOLEAN, funded : BOOLEAN, managed : BOOLEAN]]
  /\ networks \in [Names -> Entries] \cup {Torn}
  /\ contracts \in [Names -> Entries] \cup {Torn}
  /\ priceFile \in Prices \cup {MissingPrice, TornPrice}

Init ==
  /\ runs = 0
  /\ script = NoScript
  /\ chain = [d \in 1..MaxRuns |->
                [node |-> 0, price |-> Unset, configured |-> FALSE,
                 funded |-> FALSE, managed |-> FALSE]]
  /\ networks = [n \in Names |-> NoEntry]
  /\ contracts = [n \in Names |-> NoEntry]
  /\ priceFile = MissingPrice

-----------------------------------------------------------------------------
At(stage)   == script.stage = stage
GoTo(stage) == script' = [script EXCEPT !.stage = stage]
End         == script' = NoScript

Start(kind, net) ==
  /\ At("idle") /\ runs < MaxRuns
  /\ runs' = runs + 1
  /\ script' = [kind |-> kind, net |-> net,
                stage |-> IF kind = "updatePrice" THEN "quoting"
                          ELSE "deploying"]
  /\ UNCHANGED <<chain, networks, contracts, priceFile>>

(* Tokens, oracle, lending protocols, API manager; WETH for the accounts.  *)
DeployCore ==
  /\ At("deploying")
  /\ chain' = [chain EXCEPT ![runs].node = Node(script.net)]
  /\ GoTo("quoting")
  /\ UNCHANGED <<runs, networks, contracts, priceFile>>

-----------------------------------------------------------------------------
(* The price.                                                              *)

(* What writeFileSync leaves: the new content, or an error and the old     *)
(* content or none.                                                        *)
Saves(p) == priceFile' \in {p, priceFile, TornPrice}

(* fetchAndSaveEthPrice: an error of the API, of the bounds or of the file *)
(* leads to the default, which is saved as well.                           *)
FetchAndSaveEthPrice ==
  /\ At("quoting") /\ script.kind # "generic"
  /\ \/ /\ priceFile' = Quote
        /\ GoTo(IF script.kind = "updatePrice" THEN "lookup" ELSE "oracle")
     \/ /\ Saves(priceFile)
        /\ GoTo("saving")
  /\ UNCHANGED <<runs, chain, networks, contracts>>

UseDefaultPrice ==
  /\ At("saving")
  /\ Saves(Default)
  /\ GoTo(IF script.kind = "updatePrice" THEN "lookup" ELSE "oracle")
  /\ UNCHANGED <<runs, chain, networks, contracts>>

(* updatePriceFromCoinMarketCap of the generic script: no file.            *)
UpdatePriceFromCoinMarketCap ==
  /\ At("quoting") /\ script.kind = "generic"
  /\ \E p \in {"quote", "fallback"} :
       chain' = [chain EXCEPT ![runs].price = [price |-> p, old |-> FALSE]]
  /\ GoTo("configuring")
  /\ UNCHANGED <<runs, networks, contracts, priceFile>>

(* updatePrice finds its oracle, or exits.                                 *)
LookUp ==
  /\ At("lookup")
  /\ IF networks # Torn /\ networks[script.net].core # 0
     THEN GoTo("oracle") ELSE End
  /\ UNCHANGED <<runs, chain, networks, contracts, priceFile>>

(* Mutant of EthPrice: the age is not looked at.                           *)
EthPriceOfAnyAge ==
  IF priceFile \in {MissingPrice, TornPrice} THEN Default ELSE priceFile

(* getEthPrice.                                                            *)
EthPrice ==
  IF priceFile \in {MissingPrice, TornPrice} THEN Default
  ELSE IF priceFile.old THEN Default ELSE priceFile

(* updateOraclePrice.  Using the default saves it.  An error is only a     *)
(* warning.  On a node without this contract the call has no effect.       *)
UpdateOraclePrice ==
  /\ At("oracle")
  /\ IF EthPrice = priceFile THEN UNCHANGED priceFile ELSE Saves(EthPrice)
  /\ LET updates == script.kind = "updatePrice"
         d       == IF updates THEN networks[script.net].core ELSE runs
     IN /\ \/ UNCHANGED chain
           \/ /\ chain[d].node = Node(script.net)
              /\ chain' = [chain EXCEPT ![d].price = EthPrice]
        /\ IF updates THEN End ELSE GoTo("configuring")
  /\ UNCHANGED <<runs, networks, contracts>>

-----------------------------------------------------------------------------
(* setTokenConfig, approvals, LIQUIDATOR_ROLE, and the integration service *)
(* of l1 and of the generic script.                                        *)
Configure ==
  /\ At("configuring")
  /\ chain' = [chain EXCEPT ![runs].configured = TRUE]
  /\ GoTo("staking")
  /\ UNCHANGED <<runs, networks, contracts, priceFile>>

(* StakingPool and its reward tokens.                                      *)
DeployStakingPool ==
  /\ At("staking")
  /\ chain' = [chain EXCEPT ![runs].funded = TRUE]
  /\ GoTo(IF script.kind = "generic" THEN "networks" ELSE "delegating")
  /\ UNCHANGED <<runs, networks, contracts, priceFile>>

(* DelegateManager, AutoRebalancer and DELEGATE_ROLE.                      *)
DeployManagers ==
  /\ At("delegating")
  /\ chain' = [chain EXCEPT ![runs].managed = TRUE]
  /\ GoTo("networks")
  /\ UNCHANGED <<runs, networks, contracts, priceFile>>

-----------------------------------------------------------------------------
(* updateContractConfigs.                                                  *)
Name     == NameOf(script.kind, script.net)
Managers == IF script.kind = "generic" THEN 0 ELSE runs

(* networks.json cannot be parsed: the script ends without publishing.     *)
(* Addresses the script does not have keep their old value.                *)
UpdateNetworks ==
  /\ At("networks")
  /\ IF networks = Torn
     THEN End /\ UNCHANGED networks
     ELSE /\ networks' = [networks EXCEPT ![Name] =
                 [core |-> runs,
                  managers |-> IF Managers = 0 THEN @.managers ELSE Managers]]
          /\ GoTo("contracts")
  /\ UNCHANGED <<runs, chain, contracts, priceFile>>

(* What eval makes of contracts.ts: nothing, if it cannot be read.         *)
ExistingConfig ==
  IF contracts = Torn THEN [n \in Names |-> NoEntry] ELSE contracts

(* Mutants of Entry: no default for the managers; the old ones are kept.   *)
EntryUndefined == IF Managers = 0 THEN [core |-> runs]
                  ELSE [core |-> runs, managers |-> Managers]

EntryMerged ==
  [core |-> runs,
   managers |-> IF Managers = 0 THEN ExistingConfig[Name].managers ELSE Managers]

Entry == [core |-> runs, managers |-> Managers]

UpdateContracts ==
  /\ At("contracts")
  /\ contracts' = [ExistingConfig EXCEPT ![Name] = Entry]
  /\ End
  /\ UNCHANGED <<runs, chain, networks, priceFile>>

-----------------------------------------------------------------------------
(* An error nobody catches, or the process is killed between two steps.    *)
Fail ==
  /\ ~At("idle")
  /\ End
  /\ UNCHANGED <<runs, chain, networks, contracts, priceFile>>

(* The process is killed while it writes a file.                           *)
Tear ==
  /\ End
  /\ \/ /\ script.stage \in {"quoting", "saving"} /\ script.kind # "generic"
        /\ priceFile' = TornPrice /\ UNCHANGED <<networks, contracts>>
     \/ /\ At("networks") /\ networks' = Torn
        /\ UNCHANGED <<contracts, priceFile>>
     \/ /\ At("contracts") /\ contracts' = Torn
        /\ UNCHANGED <<networks, priceFile>>
  /\ UNCHANGED <<runs, chain>>

(* A day passes.                                                           *)
Age ==
  /\ At("idle") /\ priceFile \in Prices
  /\ priceFile' = [priceFile EXCEPT !.old = TRUE]
  /\ UNCHANGED <<runs, script, chain, networks, contracts>>

Next ==
  \/ \E kind \in Scripts, net \in Hardhat : Start(kind, net)
  \/ DeployCore \/ FetchAndSaveEthPrice \/ UseDefaultPrice
  \/ UpdatePriceFromCoinMarketCap \/ LookUp \/ UpdateOraclePrice
  \/ Configure \/ DeployStakingPool \/ DeployManagers
  \/ UpdateNetworks \/ UpdateContracts
  \/ Fail \/ Tear \/ Age

Spec == Init /\ [][Next]_vars

-----------------------------------------------------------------------------
(* Whatever was deployed, failed or killed before: contracts.ts names, for *)
(* each network, contracts of one deployment only, which was configured    *)
(* and funded, with managers only if they were deployed; and networks.json *)
(* records this deployment or a later one, unless it is torn.              *)
PublishedWhole ==
  contracts # Torn =>
    \A n \in Names :
      LET entry == contracts[n]
      IN entry.core # 0 =>
           /\ chain[entry.core].configured /\ chain[entry.core].funded
           /\ entry.managers \in {0, entry.core}
           /\ entry.managers # 0 => chain[entry.core].managed
           /\ networks = Torn \/ networks[n].core >= entry.core

(* An oracle never gets a price older than a day, although a price may     *)
(* survive in the file when saving the next one fails.                     *)
OraclePriceIsSane ==
  \A d \in 1..MaxRuns : ~chain[d].price.old
=============================================================================
