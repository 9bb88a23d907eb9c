--------------------------- MODULE NetworkSession ---------------------------
(***************************************************************************)
(* How the page follows the network of the wallet: pages/index.tsx holds   *)
(* the provider, components/EnhancedLendingDApp.tsx the contracts and the  *)
(* flags that lock the page, components/NetworkSelector.tsx asks for a     *)
(* switch.  Every timer and every await continues with the state of the    *)
(* render it was started in (its closure); effects run after an update and *)
(* before the next event.  A timer may fire at any time, and a request to  *)
(* the node or the wallet may fail: so it is also with a provider that was *)
(* tied to a network which the wallet has left.  Of the handlers of the    *)
(* tabs the page knows that they set loading and clear it.                 *)
(***************************************************************************)
EXTENDS Naturals, FiniteSets

CONSTANTS
  Chains,      (* networks the wallet may be on                            *)
  MaxActions,  (* bound: the user acts so often                            *)
  MaxSwitches  (* bound: so many switches run at the same time             *)

Known == {"local", "optimism"}   (* of CHAIN_IDS, what the page follows    *)

(* The networks in CHAIN_IDS are networks of the wallet.                   *)
ASSUME SessionConstants ==
  /\ Known \subseteq Chains
  /\ "none" \notin Chains
  /\ MaxActions \in Nat
  /\ MaxSwitches \in Nat

VARIABLES
  wallet,     (* the network MetaMask is on                                *)
  announced,  (* whether the page has got the last chainChanged event      *)
  actions,    (* what the user has done so far, counted                    *)
  provider,   (* whether the page has a Web3Provider                       *)
  connected,  (* whether account is set                                    *)
  handlers,   (* connection handlers in progress: asking the wallet for    *)
              (* the user or after chainChanged, or reading contracts      *)
  app,        (* the state of EnhancedLendingDApp                          *)
  rendered,   (* what the effects depend on, at their last run; another    *)
              (* object for the same provider makes them run, too          *)
  read,       (* whether the first effect asks the provider for its network*)
  loops,      (* polls of checkChainId, with their closures                *)
  inits,      (* who called initializeContract, which is in progress;      *)
              (* "delayed": a poll will call it after 800 ms               *)
  switches,   (* handleNetworkChange in progress, with closures            *)
  refreshes,  (* Refresh Data in progress, with closures                   *)
  tabs,       (* handlers of the tabs in progress that set loading         *)
  isSwitching, (* the selector's own lock                                  *)
  safety      (* the timeout that ends a switch                            *)

tasks == <<read, loops, inits, switches, refreshes, tabs, isSwitching>>
page  == <<provider, connected, handlers, app, rendered, tasks, safety>>
sessionVars  == <<wallet, announced, actions, page>>

Deployments == Known \cup {"mainnet", "none"}
Callers     == {"effect", "poll", "switch", "refresh"}
ChainIds    == Chains \cup {"none"}

AppStates ==
  [chainId : ChainIds, networkSwitching : BOOLEAN, uiLoading : BOOLEAN,
   loading : BOOLEAN, isContractsInitialized : BOOLEAN,
   failed : BOOLEAN,   (* error is "Failed to initialize contracts ..."     *)
   lendingProtocol : Deployments, tokens : Deployments]

Renders ==
  [provider : {"none", "set", "replaced"}, connected : BOOLEAN,
   chainId : ChainIds, switching : BOOLEAN, initialized : BOOLEAN]

Stages == {"prompt", "switched", "timer", "unlock"}

Switches ==
  [stage : Stages, target : ChainIds, chainId : ChainIds, usable : BOOLEAN,
   initialized : BOOLEAN]

Refreshes ==
  [chainId : ChainIds, initialized : BOOLEAN, loaded : BOOLEAN]

SessionTypeOK ==
  /\ wallet \in Chains
  /\ announced \in BOOLEAN
  /\ actions \in 0..MaxActions
  /\ provider \in {"none", "set"}
  /\ connected \in BOOLEAN
  /\ handlers \subseteq {"user", "chainChanged", "contracts"}
  /\ app \in AppStates
  /\ rendered \in Renders
  /\ read \in BOOLEAN
  /\ loops \subseteq [chainId : ChainIds, switching : BOOLEAN,
                      initialized : BOOLEAN]
  /\ inits \subseteq Callers \cup {"delayed"}
  /\ switches \subseteq Switches
  /\ refreshes \subseteq Refreshes
  /\ tabs \in Nat
  /\ isSwitching \in BOOLEAN
  /\ safety \in BOOLEAN

Deps == [provider    |-> provider,
         connected   |-> connected,
         chainId     |-> app.chainId,
         switching   |-> app.networkSwitching,
         initialized |-> app.isContractsInitialized]

FreshApp ==
  [chainId |-> "none", networkSwitching |-> FALSE, uiLoading |-> FALSE,
   loading |-> FALSE, isContractsInitialized |-> FALSE, failed |-> FALSE,
   lendingProtocol |-> "none", tokens |-> "none"]

(* Mutant of AddressesFor: no default for a network it does not know.      *)
AddressesOfKnown(chain, named) ==
  IF chain = "optimism" /\ ~named THEN "undefined" ELSE chain

(* getContractAddresses: without a name even Optimism gets the local ones, *)
(* like every network it does not know.                                    *)
AddressesFor(chain, named) ==
  IF chain = "optimism" /\ named THEN "optimism"
  ELSE IF chain = "mainnet" THEN "mainnet" ELSE "local"

(* The page as it is loaded, or after the user has connected the wallet    *)
(* and everything has come to rest.                                        *)
SessionInit ==
  /\ wallet \in Known /\ announced = TRUE /\ actions = 0
  /\ \/ provider = "none" /\ connected = FALSE /\ app = FreshApp
     \/ /\ provider = "set" /\ connected = TRUE
        /\ app = [FreshApp EXCEPT !.chainId = wallet,
                                  !.isContractsInitialized = TRUE,
                                  !.lendingProtocol = AddressesFor(wallet, TRUE),
                                  !.tokens = AddressesFor(wallet, FALSE)]
  /\ handlers = {} /\ rendered = Deps
  /\ read = FALSE /\ loops = {} /\ inits = {} /\ switches = {}
  /\ refreshes = {} /\ tabs = 0 /\ isSwitching = FALSE /\ safety = FALSE

-----------------------------------------------------------------------------
Idle == rendered = Deps   (* no effect is due                              *)

(* The connect button, the buttons of the tabs and the selector are        *)
(* disabled; the selector has a lock of its own besides.                   *)
Locked == app.loading \/ app.networkSwitching

(* A switch goes on to its next wait.                                      *)
Proceed(s, next) == switches' = (switches \ {s}) \cup {next}

(* The last wait of a switch does not use what the closure holds.          *)
Unlocking ==
  [stage |-> "unlock", target |-> "none", chainId |-> "none",
   usable |-> FALSE, initialized |-> FALSE]

Acts == actions < MaxActions /\ actions' = actions + 1

-----------------------------------------------------------------------------
(* The wallet.                                                             *)
ChangeWallet ==
  /\ Acts
  /\ \E c \in Chains \ {wallet} : wallet' = c
  /\ announced' = FALSE
  /\ UNCHANGED page

(* switchNetwork: the user accepts, or rejects, or the wallet fails.       *)
AnswerPrompt(s) ==
  /\ s.stage = "prompt"
  /\ \/ /\ wallet' = s.target
        /\ announced' = (announced /\ wallet = s.target)
        /\ Proceed(s, [s EXCEPT !.stage = "switched", !.target = "none"])
     \/ /\ Proceed(s, [s EXCEPT !.stage = "timer", !.target = "none"])
        /\ UNCHANGED <<wallet, announced>>
  /\ UNCHANGED <<actions, provider, connected, handlers, app, rendered, read,
                 loops, inits, refreshes, tabs, isSwitching, safety>>

-----------------------------------------------------------------------------
(* pages/index.tsx                                                         *)

(* setProvider with a new object, or with null.                            *)
Provide(p) ==
  /\ provider' = p
  /\ rendered' = IF p = "none" THEN rendered
                 ELSE [rendered EXCEPT !.provider = "replaced"]

DropConnection == connected' = FALSE /\ Provide("none")

(* handleConnect and the start of handleWalletConnection.  For an account  *)
(* that is connected already nothing changes.                              *)
HandleConnect ==
  /\ Acts
  /\ ~Locked
  /\ "user" \notin handlers /\ ~connected
  /\ handlers' = handlers \cup {"user"}
  /\ UNCHANGED <<wallet, announced, provider, connected, app, rendered, tasks,
                 safety>>

(* handleWalletConnection gets an answer.  For chainChanged it runs with   *)
(* the empty account of the first render and so always sets the provider.  *)
FinishConnect(who) ==
  /\ who \in handlers \ {"contracts"}
  /\ \/ /\ connected' = TRUE /\ Provide("set")
        /\ handlers' = (handlers \ {who}) \cup {"contracts"}
     \/ /\ DropConnection
        /\ handlers' = handlers \ {who}
  /\ UNCHANGED <<wallet, announced, actions, app, tasks, safety>>

(* The contracts and the block number are read, or one of them is not.     *)
ReadContracts ==
  /\ "contracts" \in handlers
  /\ handlers' = handlers \ {"contracts"}
  /\ UNCHANGED <<provider, connected, rendered>> \/ DropConnection
  /\ UNCHANGED <<wallet, announced, actions, app, tasks, safety>>

(* handleAccountsChanged: no account left, or another one, for which the   *)
(* page drops its error message.                                           *)
ChangeAccount ==
  /\ Acts
  /\ connected
  /\ \/ DropConnection /\ UNCHANGED <<handlers, app>>
     \/ /\ connected' = TRUE /\ Provide("set")
        /\ handlers' = handlers \cup {"contracts"}
        /\ app' = [app EXCEPT !.failed = FALSE]
  /\ UNCHANGED <<wallet, announced, tasks, safety>>

(* window.location.reload                                                  *)
Reload ==
  /\ provider' = "none" /\ connected' = FALSE /\ handlers' = {}
  /\ app' = FreshApp /\ rendered' = Deps'
  /\ read' = FALSE /\ loops' = {} /\ inits' = {} /\ switches' = {}
  /\ refreshes' = {} /\ tabs' = 0 /\ isSwitching' = FALSE /\ safety' = FALSE

(* handleChainChanged; for an unknown network the page is loaded anew.     *)
ChainChanged ==
  /\ ~announced
  /\ announced' = TRUE
  /\ IF wallet \in Known
     THEN /\ Provide("set")
          /\ handlers' = handlers \cup {"chainChanged"}
          /\ UNCHANGED <<connected, app, tasks, safety>>
     ELSE Reload
  /\ UNCHANGED <<wallet, actions>>

(* The end of handleNetworkChange of the page, 1 s after the switch.       *)
SetProvider(s) ==
  /\ s.stage = "switched"
  /\ Provide("set")
  /\ Proceed(s, [s EXCEPT !.stage = "timer"])
  /\ UNCHANGED <<wallet, announced, actions, connected, handlers, app, read,
                 loops, inits, refreshes, tabs, isSwitching, safety>>

-----------------------------------------------------------------------------
(* components/EnhancedLendingDApp.tsx and NetworkSelector.tsx              *)

(* handleNetworkChange of the selector and of the page up to its await;    *)
(* without a provider the page does not ask the wallet.                    *)
SelectNetwork(c) ==
  /\ Acts
  /\ ~Locked /\ ~isSwitching
  /\ Cardinality(switches) < MaxSwitches
  /\ c # app.chainId
  /\ app' = [app EXCEPT !.networkSwitching = TRUE, !.uiLoading = TRUE,
                        !.isContractsInitialized = FALSE, !.failed = FALSE]
  /\ isSwitching' = TRUE
  /\ switches' = switches \cup
       {[stage  |-> IF provider = "none" THEN "timer" ELSE "prompt",
         target |-> IF provider = "none" THEN "none" ELSE c,
         chainId |-> app.chainId,
         usable |-> provider = "set" /\ connected,
         initialized |-> app.isContractsInitialized]}
  /\ UNCHANGED <<wallet, announced, provider, connected, handlers, rendered,
                 read, loops, inits, refreshes, tabs, safety>>

(* The selector's timeout, 10 s after the selection, or 1 s after the      *)
(* effect that sees the selection or another chain id.  Both do the same,  *)
(* and none is left over from an earlier selection.                        *)
ReleaseSelector ==
  /\ isSwitching
  /\ isSwitching' = FALSE
  /\ UNCHANGED <<wallet, announced, actions, provider, connected, handlers,
                 app, rendered, read, loops, inits, switches, refreshes, tabs,
                 safety>>

(* Mutant of Unlocked: a failed switch leaves the page locked.             *)
UnlockedOnlySwitching(a) == [a EXCEPT !.networkSwitching = FALSE]

(* What every failure of a switch does to the flags.                       *)
Unlocked(a) == [a EXCEPT !.networkSwitching = FALSE, !.uiLoading = FALSE]

(* The timeout of handleNetworkChange after 1.5 s.  The chain id is set if *)
(* it is another than at the click, and initializeContract returns at once *)
(* when the contracts were initialised at the click.                       *)
FinishSwitch(s) ==
  /\ s.stage = "timer"
  /\ \/ /\ s.usable
        /\ app' = [app EXCEPT !.chainId = IF wallet = s.chainId THEN @
                                          ELSE wallet,
                              !.networkSwitching = ~s.initialized /\ @,
                              !.loading = ~s.initialized \/ @]
        /\ inits' = IF s.initialized THEN inits ELSE inits \cup {"switch"}
        /\ Proceed(s, Unlocking)
     \/ /\ app' = Unlocked(app)
        /\ switches' = switches \ {s}
        /\ UNCHANGED inits
  /\ UNCHANGED <<wallet, announced, actions, provider, connected, handlers,
                 rendered, read, loops, refreshes, tabs, isSwitching, safety>>

(* Another 3 s later.                                                      *)
Unlock(s) ==
  /\ s.stage = "unlock"
  /\ app' = [app EXCEPT !.uiLoading = FALSE]
  /\ switches' = switches \ {s}
  /\ UNCHANGED <<wallet, announced, actions, provider, connected, handlers,
                 rendered, read, loops, inits, refreshes, tabs, isSwitching,
                 safety>>

(* Mutant of SafetyAfter: the cleanup clears the timeout, and no other is  *)
(* set when the effect runs again.                                         *)
SafetyCleared(rechecks) == ~rechecks /\ safety

(* The cleanup of the second effect clears the safety timeout; the effect  *)
(* sets a new one during a switch.                                         *)
SafetyAfter(rechecks) == IF rechecks THEN app.networkSwitching ELSE safety

(* The effects, after an update changed what they depend on.  The polls    *)
(* of an earlier run of the second one go on.                              *)
RunEffects ==
  /\ ~Idle
  /\ rendered' = Deps
  /\ read' = (read \/ (provider = "set" /\ rendered.provider # "set"))
  /\ LET usable   == provider = "set" /\ connected
         checks   == app.networkSwitching \/ app.chainId = "none"
         rechecks == [rendered EXCEPT !.initialized = Deps.initialized] # Deps
         starts   == /\ usable /\ app.chainId # "none"
                     /\ ~app.isContractsInitialized /\ ~app.networkSwitching
     IN /\ safety' = SafetyAfter(rechecks)
        /\ loops' = IF rechecks /\ usable /\ checks
                    THEN loops \cup
                      {[chainId |-> app.chainId,
                        switching |-> app.networkSwitching,
                        initialized |-> app.isContractsInitialized]}
                    ELSE loops
        /\ inits' = IF starts THEN inits \cup {"effect"} ELSE inits
        /\ app' = [app EXCEPT !.loading = starts \/ @,
                              !.failed = @ /\ rendered.connected = connected]
  /\ UNCHANGED <<wallet, announced, actions, provider, connected, handlers,
                 switches, refreshes, tabs, isSwitching>>

(* loadChainId gets an answer, or none.                                    *)
ReadChainId ==
  /\ read
  /\ read' = FALSE
  /\ app' \in {app, [app EXCEPT !.chainId = wallet]}
  /\ UNCHANGED <<wallet, announced, actions, provider, connected, handlers,
                 rendered, loops, inits, switches, refreshes, tabs,
                 isSwitching, safety>>

(* checkChainId: a poll that began during a switch goes on every 400 ms,   *)
(* even after it, until the wallet is on another network than at its       *)
(* beginning.  All polls that wait for this see it at once.                *)
CheckChainId ==
  LET surprised == {l \in loops : wallet # l.chainId}
  IN /\ surprised # {}
     /\ loops' = {l \in loops \ surprised : l.switching}
     /\ app' = [app EXCEPT !.chainId = wallet,
                           !.isContractsInitialized = FALSE,
                           !.lendingProtocol = "none", !.tokens = "none"]
     /\ inits' = inits \cup {c \in {"delayed"} :
                               \E l \in surprised : ~l.initialized}
     /\ UNCHANGED <<wallet, announced, actions, provider, connected, handlers,
                    rendered, read, switches, refreshes, tabs, isSwitching,
                    safety>>

(* 800 ms later the poll calls initializeContract.                         *)
StartDelayed ==
  /\ "delayed" \in inits
  /\ inits' = (inits \ {"delayed"}) \cup {"poll"}
  /\ app' = [app EXCEPT !.loading = TRUE]
  /\ UNCHANGED <<wallet, announced, actions, provider, connected, handlers,
                 rendered, read, loops, switches, refreshes, tabs, isSwitching,
                 safety>>

(* 10 s after the last change during a switch.                             *)
SafetyTimeout ==
  /\ safety
  /\ safety' = FALSE
  /\ app' = [app EXCEPT !.networkSwitching = FALSE]
  /\ UNCHANGED <<wallet, announced, actions, provider, connected, handlers,
                 rendered, tasks>>

(* Mutant of Initialized: an error leaves the buttons disabled.            *)
InitializedStillLoading(a) ==
  [a EXCEPT !.isContractsInitialized = TRUE, !.networkSwitching = FALSE]

(* On every path initializeContract ends like this.                        *)
Initialized(a) ==
  [a EXCEPT !.isContractsInitialized = TRUE, !.networkSwitching = FALSE,
            !.loading = FALSE]

(* The end of initializeContract.  It fails with a message when the node   *)
(* does not tell the network.  getContracts, which may fail as well, names *)
(* the network; the token and staking contracts are looked up without a    *)
(* name.                                                                   *)
InitializeContract(caller) ==
  /\ caller \in inits \ {"delayed"}
  /\ inits' = inits \ {caller}
  /\ \/ app' = Initialized([app EXCEPT !.failed = TRUE])
     \/ \E lending \in {app.lendingProtocol, AddressesFor(wallet, TRUE)} :
          app' = Initialized([app EXCEPT !.lendingProtocol = lending,
                                         !.tokens = AddressesFor(wallet, FALSE),
                                         !.failed = FALSE])
  /\ UNCHANGED <<wallet, announced, actions, provider, connected, handlers,
                 rendered, read, loops, switches, refreshes, tabs, isSwitching,
                 safety>>

-----------------------------------------------------------------------------
(* Refresh Data, the button below the message of a failed initialisation,  *)
(* up to its await.                                                        *)
RefreshData ==
  /\ Acts
  /\ app.failed /\ provider = "set" /\ connected
  /\ app' = [app EXCEPT !.failed = FALSE, !.loading = TRUE]
  /\ refreshes' = refreshes \cup
       {[chainId     |-> app.chainId,
         initialized |-> app.isContractsInitialized,
         loaded      |-> app.lendingProtocol # "none"]}
  /\ UNCHANGED <<wallet, announced, provider, connected, handlers, rendered,
                 read, loops, inits, switches, tabs, isSwitching, safety>>

(* The rest of it, once the wallet has told its network, or has not.  What *)
(* is missing is initialised anew: by the handler itself, if it was        *)
(* missing at the click already, else by the effect, for the function of   *)
(* the handler's closure returns at once.                                  *)
Refresh(f) ==
  /\ \E chain \in {app.chainId, IF wallet = f.chainId THEN app.chainId
                                ELSE wallet} :
       app' = [app EXCEPT
                 !.chainId = chain,
                 !.isContractsInitialized = @ /\ f.initialized /\ f.loaded,
                 !.loading = ~f.initialized]
  /\ inits' = IF f.initialized THEN inits ELSE inits \cup {"refresh"}
  /\ refreshes' = refreshes \ {f}
  /\ UNCHANGED <<wallet, announced, actions, provider, connected, handlers,
                 rendered, read, loops, switches, tabs, isSwitching, safety>>

(* A handler of a tab begins and clears or replaces the message; it ends.  *)
StartTab ==
  /\ Acts
  /\ ~Locked /\ provider = "set" /\ connected
  /\ tabs' = tabs + 1
  /\ app' = [app EXCEPT !.loading = TRUE, !.failed = FALSE]
  /\ UNCHANGED <<wallet, announced, provider, connected, handlers, rendered,
                 read, loops, inits, switches, refreshes, isSwitching, safety>>

EndTab ==
  /\ tabs > 0
  /\ tabs' = tabs - 1
  /\ app' \in {[app EXCEPT !.loading = FALSE],
               [app EXCEPT !.loading = FALSE, !.failed = FALSE]}
  /\ UNCHANGED <<wallet, announced, actions, provider, connected, handlers,
                 rendered, read, loops, inits, switches, refreshes, isSwitching,
                 safety>>

(* A position that is loaded takes the message away.                       *)
ClearError ==
  /\ app.failed /\ app.isContractsInitialized /\ ~app.networkSwitching
  /\ app' = [app EXCEPT !.failed = FALSE]
  /\ UNCHANGED <<wallet, announced, actions, provider, connected, handlers,
                 rendered, tasks, safety>>

-----------------------------------------------------------------------------
UserStep ==
  \/ HandleConnect \/ ChangeAccount \/ RefreshData \/ StartTab
  \/ \E c \in Known : SelectNetwork(c)

(* What happens without the user; a prompt waits for the user, and so may  *)
(* the handler of a tab.                                                   *)
Continue ==
  \/ \E who \in handlers : FinishConnect(who)
  \/ ReadContracts \/ ChainChanged \/ SafetyTimeout
  \/ \E s \in switches : SetProvider(s) \/ FinishSwitch(s) \/ Unlock(s)
  \/ ReleaseSelector \/ ReadChainId \/ CheckChainId \/ StartDelayed
  \/ \E f \in refreshes : Refresh(f)
  \/ \E caller \in inits : InitializeContract(caller)

SessionNext ==
  \/ RunEffects
  \/ /\ Idle
     /\ \/ UserStep
        \/ Continue
        \/ ChangeWallet
        \/ EndTab
        \/ ClearError
        \/ \E s \in switches : AnswerPrompt(s)

(* React runs due effects, the browser fires every timer, every request to *)
(* the node ends.  Nobody has to answer a prompt of the wallet.            *)
SessionFairness == WF_sessionVars(RunEffects) /\ WF_sessionVars(Idle /\ Continue)

SessionSpec == SessionInit /\ [][SessionNext]_sessionVars /\ SessionFairness

-----------------------------------------------------------------------------
(* Nothing locks the page without something on its way that releases it,   *)
(* however effects, polls, retries, refreshes, failures and changes of     *)
(* wallet or account interleave: a switch has its safety timeout, or an    *)
(* effect is due that sets it; the buttons are disabled only while an      *)
(* initialisation runs, Refresh Data asks the wallet, or a handler of a    *)
(* tab is in progress; the page is covered only during a switch.           *)
LocksAreServed ==
  /\ app.networkSwitching => safety \/ ~Idle
  /\ app.loading => inits \cap Callers # {} \/ refreshes # {} \/ tabs > 0
  /\ app.uiLoading => switches # {}

(* Connect button and selector are enabled, but for a handler of a tab.    *)
ControlsFree ==
  ~app.networkSwitching /\ ~isSwitching /\ (app.loading => tabs > 0)

(* The connect button and the network selector, which its own lock         *)
(* disables as well, come back, again and again: the page does not stay in *)
(* the middle of a switch, not even when the user ignores the prompt of    *)
(* the wallet, nor in an initialisation or a refresh, whatever fails.      *)
(* Only the handler of a tab may keep them disabled: it waits for the user. *)
ControlsReturn == []<>ControlsFree

(* The page is unlocked after a switch, successful or not, unless a prompt *)
(* of the wallet is still open.                                            *)
PageUnlocks ==
  app.uiLoading ~>
    (~app.uiLoading \/ \E s \in switches : s.stage = "prompt")
=============================================================================
