# A formal model of the lending dApp

TLA+ specifications of the programs in this repository: the Solidity contracts
under `contracts/`, the Next.js front end and its activity API under
`frontend/`, the PostgreSQL schema under `prisma/` and the deployment scripts
under `scripts/`. TLC checks the specifications on small instances; TLAPS
proves the theorems in the `*_proofs` modules for every value of the constants.

Paths are relative to the repository root. `Enhanced:128` stands for line 128
of `contracts/core/EnhancedLendingProtocol.sol`, `Staking:` and `Delegate:` for
`StakingPool.sol` and `DelegateManager.sol` beside it, `index:` for
`frontend/pages/index.tsx`, `activity:` for `frontend/pages/api/activity.ts`,
`DApp:` for `frontend/components/EnhancedLendingDApp.tsx`, and a `*Tab:` for
the component of that name.

## 1. Inventory of the system

| Component | State it keeps | Operations | Talks to |
|---|---|---|---|
| Lending pool (`core/EnhancedLendingProtocol.sol`) | per token: interest index, time of the last accrual, total deposits, total borrows, balance; per user and token: deposit, debt, index, time; token configuration, oracle address, pause flag | deposit, withdraw, borrow, repay, liquidate, borrowBehalf, setTokenConfig, updateOracle, pause, unpause; many views | price oracle (call), tokens (transfer), delegate manager (role and call) |
| Price oracle (`mocks/MockPriceOracle.sol`) | a price per token | getPrice (reverts without a price), updatePrice, batchUpdatePrices | read by the pool and the rebalancer |
| Delegation (`core/DelegateManager.sol`) | delegation per owner and delegate (cap, stake, expiry), multisig approvals, executed operations | create, revoke, increaseStake, borrowOnBehalf, contractBorrowOnBehalf, approveMultisigBorrow | calls `borrowBehalf` of the pool |
| Auto-rebalancer (`core/AutoRebalancer.sol`) | configuration and last rebalance per user | configureUser, executeRebalanceIfNeeded, stake | reads the pool, calls the delegate manager, repays the pool |
| Staking pool (`core/StakingPool.sol`) | per user: amount, start of the stake, stored reward; reward balance | stake, withdraw, storeCurrentRewards, claimReward, continueStaking, replenishRewards | token transfers |
| Test protocol (`core/TestLendingProtocol.sol`) | deposits and loans per user | deposit, withdraw, borrow, repay | token transfers |
| API manager, event index (`integration/*.sol`) | append-only records | index, mark processed, range query, logging | none |
| Activity API (`frontend/pages/api/activity.ts`, `services/database.ts`, `prisma/schema.prisma`) | tables User, Market, UserActivity, MarketActivity, Position, Event, PriceData, ProtocolStats | one POST handler for activities, failed transactions and market data | database transaction, reads the chain in the middle of it |
| Event listener (`frontend/pages/index.tsx`) | `lastProcessedBlock`, `processingTxs`, one debounce timer per transaction, `isCleanedUp` of each run of the effect | contract event callbacks, timer callbacks, cleanup, connection handlers | posts to the activity API |
| Integration service (`services/IntegrationService.ts`) | the same tables | `syncDatabase`; listeners of deposits and logged activities that write activity and market rows | database; started by the deployment scripts |
| Lending tabs (`DepositWithdrawTab.tsx`, `BorrowRepayTab.tsx`, `LiquidationTab.tsx`) | form values, the flags `loading` and `liquidationLoading` they share | six handlers: check, approve, send, wait, refresh, log | wallet, chain, activity API |
| Staking tab (`StakingTab.tsx`) | stake and reward shown, base of the estimate, countdown | continue, stake, withdraw, claim; load at mount and every 30 s, estimate every second | wallet, staking pool |
| Shell, network switch (`EnhancedLendingDApp.tsx`, `NetworkSelector.tsx`, `utils/web3.ts`, `pages/index.tsx`) | account, provider, chain id, contracts, the flags that lock the page, the selector's own lock | connect, switch network, initialise contracts, Refresh Data, the timers of page and selector | wallet, node; writes the flag `loading` of the tabs |
| Deployment scripts (`scripts/`) | the files `networks.json`, `contracts.ts`, `eth-price.json`, and the contracts on chain | three deployments, price update | chain, files, a price API |
| Presentation (`components/ui`) | none | rendering | none |
| Tests (`test/`, `web3_test/`) | none | | read as statements of intent |

How they interact: a tab sends a transaction through the wallet to a contract;
when it is mined, the tab logs it through the activity API, and so does the
event listener of every open page. The network switch exchanges the provider
under both. The deployment scripts write the addresses all of them start from.

### What is hard about it, and what makes it correct

* **Lending pool.** A transaction is atomic, but users, a liquidator, the
  administrator and the clock interleave freely, and every operation charges
  interest lazily, one user at a time, against a shared index. Three stored
  totals, the token balance and the positions have to agree although they are
  updated by separate truncating computations, and the views compute pending
  interest in code of their own. Correct means: the books balance; no debt
  changes except by interest or by a payment that arrived; nobody's operation
  moves another user's position; what a view shows is what the next
  transaction stores; a debt without an index, or an index without a debt,
  never exists.
* **Delegation.** Caps are checked per call; approvals, revocations, renewals
  and executions of a multisig loan arrive in any order. Correct means: an
  operation needs as many distinct approvers as its threshold and is executed
  once, the list of delegates is the list of active ones, every stake on
  record can be paid back.
* **Staking pool.** Rewards depend on time and are stored at some operations
  only. Correct means: a stake can always be withdrawn, no reward is paid
  twice, none is lost.
* **Activity API.** Requests for one transaction hash race through two
  duplicate checks, a read of the chain and a database transaction that may be
  rolled back, or die with the server. Correct means: a hash is recorded once
  and in all tables; nobody is told "recorded" who is not; every request is
  answered.
* **Event listener.** Runs of the effect outlive their cleanup, share a
  watermark that a connection handler assigns after an await, and log 500 ms
  after they accepted an event. Correct means: no event is posted by two runs;
  a run that was cleaned up does not begin to log; what was begun is finished.
* **Network switch.** Effects, polls, retries and timers write the same flags
  from closures over older state, while the wallet may move on. Correct means:
  the page always becomes usable again.
* **Lending tabs.** A handler checks, asks the user and acts several blocks
  later, beside other handlers and beside the shell, which clears their flag;
  what was sent is mined even if its handler has given up. Correct means: the
  check still holds when the transaction is mined, and where it does not, one
  can say why; what is reported is what was mined and recorded; the buttons
  come back.
* **Staking tab.** Stake, reward and countdown are each read, estimated,
  stored and shown by code that interleaves with loads in the background.
  Correct means: no click loses a reward; no button stays disabled; what is
  shown becomes the truth again.
* **Deployment scripts.** A script may end at any step and leave a file half
  written; the next one builds upon it. Correct means: the front end is never
  given a mixture of deployments; an oracle never gets a stale price.

## 2. Modules

```
InterestIndex <--EXTENDS-- LendingPool <--EXTENDS-- LendingPoolClaims <-- MCLendingPool
                             | KeepsBook    ^
                             v              +--EXTENDS-- LendingPool_proofs
                           LendingBook        (refinement: INSTANCE ... WITH)

StakingPool <--EXTENDS-- StakingTab         ActivityLog <--INSTANCE-- ActivityApi
                         (composition)                    (refinement)

DelegateManager    EventListener    NetworkSession    LendingTabs    Deployment

X <--EXTENDS-- MCX           for each of the nine components
X <--EXTENDS-- X_proofs      for LendingPool, DelegateManager, ActivityApi,
                             LendingTabs, Deployment

StakingTab                    <--EXTENDS-- Staking_proofs
EventListener, NetworkSession <--EXTENDS-- Page_proofs

FiniteSums <--EXTENDS-- LendingPool_proofs, DelegateManager_proofs, Staking_proofs
```

| Module | Role |
|---|---|
| `InterestIndex` | the arithmetic of an index: whole intervals, truncating divisions |
| `LendingPool` | the state machine of the contract, its invariants and action properties |
| `LendingBook` | the abstract promise: who may claim what, who owes what, what the vault holds |
| `LendingPoolClaims` | what a revert message of the contract says and the contract does not do |
| `DelegateManager` | delegations, stakes and multisig approvals |
| `StakingPool` | stakes, timers, stored and pending rewards |
| `ActivityLog` | the abstract promise of the activity API: one indivisible, final record per key, and answers that can be relied on |
| `ActivityApi` | the POST handler, await by await, over the tables; with roll-backs and crashes |
| `EventListener` | the effect that registers the listeners, its cleanup, timers and watermark |
| `NetworkSession` | wallet, provider, flags and timers of a network switch, initialisation and Refresh Data |
| `LendingTabs` | the six handlers of the three lending tabs, with the flags they share with each other and with the shell, and what they have sent |
| `StakingTab` | the staking tab composed with `StakingPool` |
| `Deployment` | the scripts and the files they leave behind |
| `FiniteSums` | theorems about sums over a finite set |
| `*_proofs` | theorems about these modules for all values of the constants |
| `MC*` | small instances; their bounds are in the `.cfg` files |

### LendingPool and the contract

| Variable | In the code |
|---|---|
| `market[t]` | `globalInterestIndices`, `lastGlobalUpdate`, `totalDeposits`, `totalBorrows` (Enhanced:46-49) and `cash`, the pool's balance of the token |
| `position[t][u]` | `userPositions[t][u]` (Enhanced:38-43, 50) |
| `config`, `paused`, `price` | `tokenConfigs`, `Pausable`, the current oracle's `prices`, 0 for "Price not available" |
| `now` | `block.timestamp` |
| `history` | no counterpart: running sums that the properties compare with; no action reads them |

| Action | Function | What the action includes |
|---|---|---|
| `Deposit` | `deposit`, Enhanced:206-233 | accrual, transfer in (a native deposit is wrapped to WETH first, with the same effect) |
| `Withdraw` | `withdraw`, 240-266 | accrual, the balance check, the health check on the state before, transfer out |
| `Borrow`, `BorrowBehalf` | `borrow` 273-312, `borrowBehalf` 778-831 | accrual, health check, the index of a first loan |
| `Repay` | `repay`, 319-372 | accrual, the limit of the view, clearing of the index with the last unit |
| `Liquidate` | `liquidate`, 536-576 | accrual, liquidation health, close factor, seizure priced by the oracle, payment in WETH |
| `SetTokenConfig`, `UpdateOracle`, `UpdatePrice`, `Pause`, `Unpause` | 602-636, `MockPriceOracle` 45-53 | no accrual |
| `Tick` | the next block's timestamp | |

A `require` that fails reverts the whole transaction; it is therefore a guard.
A Solidity 0.8 or SafeMath subtraction that would underflow reverts as well:
those comparisons are guards too (`amount <= m.totalBorrows` in `Repay`), and
`TotalsCoverPositions` shows that they never block a legal operation. The
health factor counts the WETH position only, as `getSupportedTokens` does
(Enhanced:639-645), and an operation on another token leaves that position
uncharged. `notFlashLoan` and the roles say who may call and are reduced to a
comment at the action.

`LendingBook` knows neither indices nor rates nor totals. A step concerns one
user's entry for one token and is a transfer, a loan, a payment or a
settlement; what an entry gains or loses goes through the vault to the unit;
interest may only be added to a debt that already exists; a settlement may
never clear a debt. `LendingPool!KeepsBook` instantiates it with deposits,
debts and balances; TLC checks the refinement and `PoolKeepsBook` proves it.

### DelegateManager and the contract

| Variable | In the code |
|---|---|
| `delegations[o][d]` | `delegations` (Delegate:38-47) |
| `ownerDelegates[o]` | `ownerDelegates`, an enumerable set |
| `approvals[o][op]`, `approvalCount[o][op]` | `multisigApprovals`, `multisigApprovalCount` |
| `executed[o]` | `executedOperations` |
| `balance[t]` | what the manager holds of a token: stakes and loans in one balance |
| `now` | `block.timestamp` |
| `history` | no counterpart: what each delegate paid in and did not get back, how often each operation was executed |

An operation is identified in the code by the hash of owner, token, amount and
expiry (Delegate:286-292). The model uses the record of the last three, indexed
by the owner: two operations are the same exactly when those agree.

| Action | Function | What the action includes |
|---|---|---|
| `CreateDelegation` | 108-154 | the required stake, the limit of delegates, overwriting of an earlier delegation of the same delegate |
| `RevokeDelegation` | 160-178 | the stake is paid back; approvals stay |
| `IncreaseStake` | 185-202 | |
| `BorrowOnBehalf`, `ContractBorrowOnBehalf` | 210-260 | the cap, the type; the pool pays the manager |
| `ApproveMultisigBorrow` | 269-334 | the approval, the count, and the execution once the threshold of this approver is reached |
| `Tick` | the next block's timestamp | |

The pool's `borrowBehalf` and the token transfers are external: they succeed or
revert the whole call. Nothing in the manager ever sends a borrowed token on,
so a loan is a plain increase of `balance`.

### StakingPool and the contract

| Variable | In the code |
|---|---|
| `stakes[u]` | `stakes` (Staking:18-23): amount, `startTime`, `lastRewardTime`, stored reward |
| `stakedWeth`, `rewardUsdc` | the contract's balances of WETH and of USDC |
| `now` | `block.timestamp` |
| `history[u]` | no counterpart: the user's WETH-seconds and the rewards received |

| Action | Function | What the action includes |
|---|---|---|
| `Stake` | 74-96 | the pending reward is stored before the timer restarts; `startTime` is set once |
| `Withdraw` | 98-114 | the same; the `startTime` of an emptied stake stays as it was |
| `StoreCurrentRewards`, `ContinueStaking` | 54-72 | store and restart, or nothing without a stake; restart only |
| `ClaimReward` | 116-136 | pays stored and current reward or reverts |
| `ReplenishRewards` | 177-180 | |
| `Tick` | the next block's timestamp | |

### ActivityApi and the handler

| Variable | In the code |
|---|---|
| `request[r]` | the body of a POST: a user activity with a transaction hash, a failed transaction, or market data |
| `stage[r]` | the await the handler of `r` is in, activity:362-658 |
| `answer[r]` | what the client was told; "lost" after a crash |
| `unpriced` | the requests whose price insert failed and was only reported, activity:58-62 |
| `db` | the committed rows of the tables: parents (users, markets), events by primary key, the four tables with a row per activity, positions |

| Action | Code | What the action includes |
|---|---|---|
| `Send` | `services/database.ts` 35-121 | any body, also one for a hash another request carries |
| `PreCheck`, `Recheck` | activity:371-398 | the duplicate check before and inside the transaction; the second returns from the transaction |
| `UpsertParents` | 400-422 | waits for an open insert of the same user or of the market row "default" |
| `ReadChain` | 12-106, 157-272, 428-456 | position, price, statistics; a price insert that fails before it reaches the database (a body without `token`) is swallowed and the transaction goes on without the row; the statistics may fail the request |
| `WriteRows` | 458-530 | waits for the position row of the same user |
| `RecordEvent` | 532-561, 612-643 | the event row: waits for an open insert of the same key, fails on a committed one or on a missing market row |
| `Commit`, `Answer` | 563-570 | everything becomes visible at once; then the response |
| `Abort` | 564-567, 652-658 | time-out, database error, failing call: roll-back and status 500 |
| `UpdateMarket` | 572-591 | one upsert, no transaction |
| `Crash` | the process | roll-back of all open transactions, no answers |
| `SyncDatabase` | `IntegrationService.ts` 74-101 | another writer of the market row "default" |

`ActivityApi!Log` instantiates `ActivityLog` with the event ids as keys and the
event rows as the records: whatever the handler does in eight awaits must look
like one `Record` followed by one truthful `Reply`.

### EventListener and the page

| Variable | In the code |
|---|---|
| `head`, `mined` | the chain and its events |
| `lastProcessedBlock` | the module variable of that name (index:19) |
| `effects`, `live` | how often the effect of index:213-521 has run; the run with `isCleanedUp` false |
| `from[e]`, `seen[e]`, `timers[e]` | per run: where its listeners start, what they were given, `processingTxs` with the timers |
| `posted` | the requests to the activity API, for the liquidator and the borrower of a liquidation separately |
| `connecting` | a connection handler between `getBlockNumber` and the assignment (index:203-204) |
| `lowered` | no counterpart: whether that assignment set the watermark back |

`ChangeProvider`, `Connect` and `Disconnect` run the effect or its cleanup;
`ReadBlockNumber` and `AssignWatermark` are the two halves of the assignment;
`SetUp` is the end of `setupContractListeners`, which does not look at
`isCleanedUp` again; `Skip` and `Accept` are the callbacks, `FireTimer` the
debounced half of them, `PostForBorrower` the second request of a liquidation;
`Mine` is the chain. A run keeps getting events after its cleanup, because
`removeAllListeners` reaches the new contract objects only.

### NetworkSession and the page

| Variable | In the code |
|---|---|
| `wallet`, `announced` | MetaMask's network; whether the page has got the `chainChanged` event for it |
| `provider`, `connected`, `handlers` | state of `pages/index.tsx`; connection handlers that wait for the wallet (asked by the user or after `chainChanged`) or read contracts and the block number |
| `app` | chain id, contracts, `networkSwitching`, `uiLoading`, `loading`, `isContractsInitialized` of `EnhancedLendingDApp`; `failed` while `error` is the message of a failed initialisation |
| `rendered` | what the effects depended on when they last ran |
| `read`, `loops`, `switches` | `loadChainId`, the polls of `checkChainId`, the runs of `handleNetworkChange`, each with its closure |
| `inits` | the calls of `initializeContract` in progress, by their four call sites; "delayed" while a poll waits for its 800 ms (DApp:249-256) |
| `refreshes` | Refresh Data at its await (DApp:793), with what the closure holds |
| `tabs` | handlers of the tabs that have set `loading`, counted |
| `isSwitching` | the selector's own lock (NetworkSelector:17) |
| `safety` | the 10 s timeout of DApp:265-279 |

`HandleConnect`, `FinishConnect`, `ReadContracts`, `ChangeAccount`, `ChainChanged` and
`SetProvider` are the handlers of the page; `SelectNetwork`, `FinishSwitch` and `Unlock` the
parts of `handleNetworkChange` before its await, in its timeout of 1.5 s and in
that of 3 s; `AnswerPrompt` the wallet's answer in between; `RunEffects` the
effects of DApp:141-300, which are due whenever `rendered` is out of date and
run before anything else; `ReadChainId`, `CheckChainId`, `StartDelayed`,
`SafetyTimeout` and `InitializeContract` their continuations. `RefreshData` and
`Refresh` are the handler of DApp:784-818 before and after its await;
`StartTab` and `EndTab` a handler of a tab, of which only `loading` and the
message matter here; `ReleaseSelector` the timers of NetworkSelector:38-81;
`ClearError` a position that loads (DApp:157-164). `ChangeWallet` is the user
at the wallet. `AddressesFor` is `getContractAddresses`: Optimism by name
only, mainnet, and the local addresses for everything else.

### LendingTabs and the handlers

| Variable | In the code |
|---|---|
| `run[c]` | the handler that click `c` started: its kind, amount and await, how many transactions it got mined, whether it logged, how it ended |
| `loading`, `liquidationLoading` | the flags that disable the buttons |
| `shell` | how many initialisations and refreshes of the shell are in progress: they set `loading`, and clear it as they end (DApp:534, 612-630, 790-813) |
| `intruded` | no counterpart: whether one of them cleared `loading` under a handler |
| `listing` | who is in `loadLiquidatablePositions` (the handler or the tab itself) |
| `sent` | the account's transactions that are not mined yet, in nonce order |
| `chain` | deposit and debt of the account |

Each handler is a route, the sequence of its awaits in the order of its code:

| Route | Handler |
|---|---|
| `DepositRoute`, `WithdrawRoute` | `DepositWithdrawTab:39-175` |
| `BorrowRoute`, `RepayRoute`, `FullRepayRoute` | `BorrowRepayTab:119-573`, the last with a second payment of what is left |
| `LiquidateRoute` | `LiquidationTab:320-405`, which does not hold `loading` |

`GetContracts`, `CheckPosition`, `Approve`, `Allow`, `Confirm`, `Mine`,
`Refresh`, `Recheck`, `LogActivity` each end one kind of await; `Allow` is
`approveTx.wait()`, which is no prompt. `Revert` is a transaction that is mined
without effect, `Replaced` one that the wallet replaced, so that it is mined
and throws. `Fail` is an await that throws; at `tx.wait()` the handler ends and
its transaction stays in `sent`: the handler is "orphaned" and the transaction
mined, or reverted, in its turn. `Reload` ends all handlers and orphans what
they have sent or the wallet still shows. `ShellStarts` and `ShellEnds` are the
initialisations and refreshes of the shell, at any time; `NetworkSession` says
when they run. `OpenLiquidation` and `Listed` are the listing; `OthersMove` is
interest or a liquidation by somebody else.

### StakingTab over the contract

`StakingTab` extends `StakingPool`, so that every transaction of a handler is
the action of the contract; its own definitions of what both modules have are
named `TabInit`, `TabNext` and so on.

| Variable | In the code |
|---|---|
| `tab` | what is shown and the refs: stake, pending reward, base of the estimate, `stakeRef`, `lastRewardTime`, `timerStopped`, `loading` |
| `handler[b]`, `closure[b]` | the await of the handler of each button; the `timerStopped` and, to continue, the stake shown that it saw at the click |
| `snapshot` | what a load in the background has read and not yet written |

| Action | Code |
|---|---|
| `Press` | the four buttons and their conditions, StakingTab:580-611, 729-776 |
| `StoreRewards`, `ReadReward`, `RestartTimer` | `handleContinueStaking`, 450-486, with its nested timeouts |
| `Approve`, `SendStake`, `SendWithdraw` | 508-567 |
| `StoreRewards`, `VerifyStored`, `SendClaim`, `StopAfterClaim` | `handleClaim`, 592-649 |
| `LoadAndReturn`, `Fail` | the ends of the handlers |
| `StartLoad`, `FinishLoad`, `FailLoad` | `loadStakingInfo`, 237-340 |
| `UpdateRewardsInRealtime`, `CountdownFinish` | 210-235, 356-389 |
| `Reload`, `Environment` | a new page; the owner's replenishment and time |

### Deployment and the scripts

| Variable | In the code |
|---|---|
| `runs`, `script` | the number, kind, network and step of the current script |
| `chain[d]` | what deployment `d` has on chain: node, oracle price, configured, funded, with managers |
| `networks`, `contracts` | `test/config/networks.json` and `frontend/config/contracts.ts`, or `Torn` |
| `priceFile` | `test/config/eth-price.json`, missing, torn, fresh or old |

`Start` begins `deploy-l1.ts`, `deploy-l2.ts`, `deployAndUpdateAddresses.ts` or
`updatePrice.ts` on one of the three networks of `hardhat.config.ts`.
`DeployCore`, `Configure`, `DeployStakingPool`, `DeployManagers` are the
stretches of a deployment; `FetchAndSaveEthPrice`, `UseDefaultPrice`,
`UpdateOraclePrice` are `priceManager.ts`; `UpdatePriceFromCoinMarketCap` is
the price of the generic script; `LookUp` is `updatePrice.ts` finding its
oracle; `UpdateNetworks` and `UpdateContracts` are `updateConfigs.ts`. `Fail`
ends a script anywhere, `Tear` while it writes a file, `Age` lets a day pass.

## 3. Runs

| Run | Instance | Shows |
|---|---|---|
| `pool_users` | two users, one token, two prices, deposits up to 3, time up to 4 (two intervals) | all interleavings of two users, with interest, unhealthy positions and liquidations; the refinement of `LendingBook` |
| `pool_tokens` | one user, WETH and a second token, two rates, deposits up to 2, time up to 2 | liquidation across tokens and changes of the rate: the books, the totals, and what a liquidation across tokens may take out of WETH |
| `staking` | two interchangeable users, time up to 5 | stakes, withdrawals, claims and restarts in every order, with too little USDC |
| `delegation` | one owner, two places for three delegates, one of them a contract, thresholds 0 to 2, an expiry | creation, renewal, revocation, loans and approvals of all kinds in every order |
| `activity` | three requests of two users, one hash and one pool | races for one hash, roll-backs, a crash; the refinement of `ActivityLog` |
| `listener` | two blocks of up to two events, two runs of the effect, the kinds `Liquidate` and `MarketDataUpdated` | a run that outlives its cleanup beside its successor, over one watermark |
| `session` | local, optimism and mainnet, two actions of the user, two switches; from a page at rest on the local network | every order of effects, polls, timers, refreshes, answers of the wallet and failures: each lock has what releases it on its way, and is released |
| `tabs` | two clicks of any kind, two initialisations at a time, amount 1, deposit and debt up to 2 | handlers side by side, prompts, failures, replacements, a reload, the shell that writes their flag |
| `staking_tab` | one user, three handlers at once, time up to 2, reward interval 1 | handlers, loads, countdown and clock over the contract |
| `deployment` | three scripts of any kind on any network | failures and torn files at every step, and what the next scripts make of them |
| `claim_loan`, `claim_borrower` | the instance of `pool_users`, with larger deposits, and that of `activity` | two statements of the source that the code violates, section 5 |

**Bounds.** Every bound is a constant with a comment in its module.

* `MCLendingPool` takes `SCALE = 4` for the 1e18 unit, an interval of 2 seconds
  and a year of 4, so that one interval at the configured rate adds half of a
  debt: interest is visible on debts of one or two units, and truncation is
  frequent. The close factor, the basis points and the collateral factors are
  those of the deployment (`scripts/deploy/deploy-l1.ts`). `MaxDeposits` stops
  deposits and `MaxTime` the clock; debts grow as far as the intervals take
  them. This covers two accruals of one debt with a transaction of another user
  between them, a first loan after interest has accrued, partial and full
  repayment, a liquidation after interest alone made a position unhealthy, and
  the reuse of a position whose debt was cleared. Plain
  `Solvent` is false with two tokens, see section 5; `pool_tokens` checks what
  is true instead, `SolventButForSeizures`.
* In `MCStakingPool` a WETH earns a third of a USDC unit per second, so that
  every period is truncated. In `MCStakingTab` a unit earns a unit per second:
  a reward is visible, and the countdown over, after one tick; the second tick
  is a countdown that was continued.
* In `MCDelegateManager` a cap of 10 requires a stake of 1. Three delegates in
  two places make a quorum possible with an approver who was revoked or
  renewed in between.
* Three requests are the smallest number with a duplicate that waits for a
  third one's rows; one hash makes every pair of activities a race.
* Two runs of the effect are one that outlives its cleanup and one that is
  live; two events in a block are one that raises the watermark and one that
  the watermark then drops. `Liquidate` stands for the five events with a
  timer and is the only one with two parts.
* Two actions of the user are a switch and one disturbance of it (another
  account, the wallet's own network menu, a connection), or two changes in a
  row. Two switches overlap when the first waits at a prompt for longer than the
  safety timeout, which enables the selector again.
* The three networks are the two that the page follows and one for which
  `CONTRACT_ADDRESSES` has a deployment but on which the page loads itself anew.
  The page that is not connected yet is reached through such a reload; the
  theorems of section 4 also cover a start from it.
* Two clicks of any kind are a handler beside a liquidation, or beside another
  one after the shell has enabled the buttons, or beside the transaction of a
  handler that gave up. Two initialisations at once are one that clears the flag
  which the other has set. That a liquidation ends while two handlers of the
  other tabs contend takes a third click; for this, and for any number, there
  are the theorems.
* Three scripts: a deployment, one that fails on top of it, and one that
  starts from what the second left.

For larger instances the theorems of section 4 speak, where there are any.

Deadlock checking is on in the three runs of contracts with a clock or a
replenishment that always leaves somebody able to act (`pool_*`, `staking`,
`delegation`). In the others it is off: a bounded number of requests, clicks,
events, scripts or user actions ends, and then the system rests.

### Properties

| Property | Says | Would be broken by |
|---|---|---|
| `LendingPool!TypeOK` | no total, balance, debt or index leaves the naturals | an inverted ratio of indices |
| `DebtIndexed` | an index exists exactly while a debt does; positions are never ahead of their market | a liquidation that may clear the debt |
| `ViewMatchesCommit` | the debt a view reports is the debt the next transaction stores | a view without pending interest |
| `BooksBalance` | balance + loans = deposits + interest, up to what liquidations moved | interest missing from `totalBorrows` |
| `TotalsCoverPositions` | totals exceed the sums of the positions by exactly what liquidators repaid and seized | the same |
| `SolventButForSeizures` | balance + debts cover all deposits; only WETH may be short, by at most what was seized in other tokens | a charge that lowers a debt |
| `DebtFallsOnlyByPayment` | at constant rates a reported debt falls only by what the pool receives, one debt at a time | forgetting the position's own index |
| `IndexNeverFalls` | no index and no accrual time ever goes back, and no transaction moves the index that is reported for its own moment: a period is charged once, and all of its whole intervals | an accrual that does not move the time |
| `KeepsBook` | the contract implements `LendingBook` | a liquidation of a whole debt |
| `NeverOverpaid` | stored, pending and received rewards never exceed the rate for the time the stake lay in the pool | storing a reward without restarting its timer |
| `PrincipalCovered` | every stake can be withdrawn | a withdrawal that keeps the record |
| `RewardNeverLost` | a pending reward disappears only by being paid, or by its owner's `continueStaking` | a deposit that restarts the timer without storing |
| `DelegatesListed` | the set of delegates and the active flags agree, the limit holds | a renewal that is not entered |
| `StakesCovered` | the manager's WETH covers all recorded stakes, whatever is borrowed beside them | recording a stake twice |
| `ExecutedOnce` | an operation draws its amount at most once | executed operations left approvable |
| `QuorumBeforeExecution` | an execution has as many approvers as the threshold of the active delegate who completed it, before the expiry | counting a repeated approval |
| `RecordedWhole` | a hash is recorded by one request, with its event, statistics and both activity rows, or in none of them; the price row is there too unless `updatePriceData` gave it up, and never without the rest | a random key for every event row |
| `ImplementsLog` | the handler implements `ActivityLog`: one step, one record per key, truthful answers | an error that is answered with status 200 |
| `EveryRequestAnswered` | no request hangs, behind another's locks or otherwise | an early return without a response |
| `PostedOnce` | no two runs of the effect post one event, unless the watermark was set back | a listener without the watermark |
| `OnlyLiveRunLogs` | a cleaned-up run does not begin to log | a timer that does not look at `isCleanedUp` |
| `LoggingCatchesUp` | timers fire or are cleared, and a liquidation is posted for both sides | dropping the borrower after a cleanup |
| `LocksAreServed` | a switch has a safety timeout or an effect due that sets it, `loading` an initialisation, a Refresh Data or a handler of a tab, `uiLoading` a switch on its way | a cleanup that clears the timeout when it is not set again |
| `ControlsReturn` | neither `networkSwitching` nor the selector's `isSwitching` stays set, nor `loading`, except by a handler of a tab, which may wait for the user | `initializeContract` that leaves `loading` set |
| `PageUnlocks` | the page is unlocked after a switch, unless a prompt is open | a failed switch that only clears one flag |
| `OutcomesAreRecorded` | a handler without an error had its transaction mined and recorded; nothing unmined is recorded | a repayment that is not logged |
| `NoWithdrawalInDebt` | no withdrawal is mined under its handler while the account owes, unless a loan was mined after its handler had given it up, or the shell cleared `loading` under a handler | a button that `loading` does not disable |
| `ButtonsReturn` | `loading` is released, whoever else sets or clears it, unless a handler waits for the user at the wallet | releasing it only after success |
| `TabKeepsReward` | a pending reward falls only by being paid in full, whatever the tab does | `continueStaking` in place of `storeCurrentRewards` |
| `DisabledByHandler` | the buttons are disabled only while a handler is running | a timeout that restarts the countdown and forgets the buttons |
| `ShownStakeSettles` | again and again the stake shown is the contract's | a load that does not refresh a stake once shown |
| `PublishedWhole` | `contracts.ts` names parts of one finished deployment per network, which `networks.json` knows | keeping the managers of the deployment before |
| `OraclePriceIsSane` | no oracle gets a price older than a day | a price file used at any age |

Each module has a type invariant as well (that of `StakingPool` is part of
`TabTypeOK`); every one of them is broken by a mistake in
an operation (a negative estimate, a watermark above the chain, a third
transaction of one handler, contracts without an address and so on). The
operators named "Mutant of ..." in the modules are those mistakes.

### Fairness

| Module | Assumed | Why the code justifies it |
|---|---|---|
| `ActivityApi` | weak fairness of each request's `Handle` | Node runs every ready continuation; the database transaction ends after 10 s at the latest and calls to the node time out |
| `EventListener` | weak fairness of each run's `Log` | the browser fires every timer and every fetch ends |
| `NetworkSession` | weak fairness of `RunEffects` and of `Continue` when no effect is due | React runs effects after a render; timers fire, requests end. `EndTab` is left out: a handler may wait for the user |
| `LendingTabs` | weak fairness of `Continue` per handler, of `Listed` and of `ShellEnds` | the same; what was sent is mined or reverts. Refusals at a prompt, errors of `tx.wait()` and replacements are not assumed to happen |
| `StakingTab` | weak fairness of `StartLoad`, strong fairness of `FinishLoad` | the interval of 30 s goes on; a node that fails a read does not fail every one of them for ever |

Nothing is assumed of users, of prompts of the wallet, or of the wallet's own
menu: the liveness properties except an open prompt explicitly. The contracts
and the scripts are checked for safety only: nothing in the code forces anybody
to call a contract or to run a script again.

## 4. Proofs

`FiniteSums` and the seven `*_proofs` modules are checked by TLAPS to the last
leaf. Each `*_proofs` module has the same shape: an inductive invariant of
named parts (`IInv`, `PoolInv`, `TabInv`, `SessionInv`), lemmas about the
operators, one lemma per action or group of actions, a lemma for the whole
step, the theorem that the invariant always holds, and the results, each of
which follows from it. The only assumptions are those the modules state of their constants, which
TLC evaluates in every run; one theorem, `WethPoolIsSolvent`, has a hypothesis
of its own.

Where a property is a sum, the set it is taken over is assumed to be finite:
users, owners, delegates and tokens are addresses of 20 bytes.

**`FiniteSums`** is about `SumFunction` of the community modules, with which
the models write their sums. It is a fold that takes elements out of a set in
an order fixed by `CHOOSE`. Its recursion is shown to have a solution, by
building one up by the size of the set (`SumsExist`); induction is stated over
sets, as the least element of a set of naturals, since a theorem with a
predicate as parameter cannot be instantiated. `SumIsNatural`, `SumOfZeros`,
`SumReplaced` (one term changes, the sum changes by the difference) and
`TermInSum` (no term exceeds the sum) are lemmas for the other modules: an
action changes one term of each sum. They say nothing of the program by
themselves.

**`LendingPool_proofs`** assumes `InterestConstants` (the unit, the initial
index, the interval and the year are positive) and `PoolConstants` (WETH is a
token, users and tokens are finite sets, amounts and prices are naturals,
prices positive, `MAX_UINT256` is at least one in basis points).

* **The inductive invariant** is `IInv == TypeOK /\ DebtIndexed`. Type
  correctness alone is not inductive: a debt with index zero would be divided
  by zero, and a position ahead of its market would be charged a negative
  amount. `DebtIndexed` supplies what the divisions and subtractions need.
* **Lemmas about the arithmetic** come first: an index never falls when it
  grows, a debt is never smaller at a larger index and is unchanged at its own
  index, a truncated charge is a natural number. Lemmas about `GlobalAccrued`
  and `UserAccrued` lift them to records; they say that an accrual keeps a
  market and a position well formed and in order.
* `TypeCorrect`, `DebtsAreIndexed` follow. `BooksAreBalanced` is proved by
  adding `BooksBalance`: each action changes both sides by the same amounts.
  `IndicesNeverFall` is the action property, from the same invariant. Its
  second half, that a transaction leaves the reported index where it is, rests
  on `UserStepAccrues`: a transaction either accrues a market up to now, to the
  index the view foresaw, or leaves index, time and loans of it alone. From
  this `IndexIsForeseen`.
  `ViewsAreExact` shows that the two separate computations of pending interest
  agree in every reachable state.
* **The sums.** `TotalsAreExact` shows that the totals follow the sums of the
  positions: an accrual adds to the total what it adds to the one position it
  settles (`SumsFollow`, `TotalFollows`), so truncation never makes them
  drift. With several tokens one liquidation touches two of them, and
  `PayoutsMatch` keeps what the vault paid out: nothing but WETH, and of WETH
  exactly what was seized. `ShortfallIsSeized` combines the books, the totals
  and the payouts. `WethPoolIsSolvent` follows for `Tokens = {WETH}`; the
  hypothesis is needed, for with two tokens `Solvent` is false (section 5).
* **Debts.** `DebtsAreOnlyPaidOff` needs that interest is monotone through all
  its truncations: a product and a quotient grow with their arguments, the
  index rises with time, and the debt with the index (`ProductGrows`,
  `QuotientGrows`, `IndexRisesWithTime`, `DebtRisesWithIndex`). An accrual
  itself shows nothing, since the view already contained it; a transaction
  moves one user's debt only (`OneDebtMoves`), and if that falls, by what was
  received (`PaidDebtsFall`).
* `PoolKeepsBook` is the refinement: initial states map to initial states, and
  every action to one of `Transfer`, `Lend`, `Pay`, `Settle`, or to a stutter.

**`DelegateManager_proofs`** assumes `DelegationConstants`. Its `IInv` joins
`TypeOK`, `DelegatesListed`, `ApprovalsCounted`, `ExecutedOnce` and the
finiteness of the sets whose size the contract compares. It falls into three
parts about disjoint variables (delegations; approvals and executions; balance
and time), and each operation is shown to preserve the part it touches. The
count is exact because an approver who is already in the set adds neither to
the set nor to the counter. `TypeCorrect`, `ListsAgree`, `NoReplay` and
`CountsAreExact` are parts of `IInv`; `QuorumIsReached`, an action property,
follows from the exact count. `StakesAreCovered` is about a sum over all
pairs of an owner and a delegate, of which each operation changes one term;
with `TermInSum` it gives `EveryStakeIsThere`: no revocation fails for want of
tokens.

**`Staking_proofs`** assumes `StakingConstants` and `TabConstants` (the tab's
account is a user of the pool), and covers `StakingPool` and the tab that runs
it.

* **The contract.** `NeverOverpaid` is not inductive, for it forgets when the
  stake was made. `PoolInv` keeps per user that stored plus received reward,
  scaled, is at most the rate times the WETH-seconds up to the last start of
  the timer (`Honest`); the truncating division of a new period can only lose.
  `PrincipalIsCovered` adds that the pool's WETH is the sum of the stakes, and
  `EveryStakeIsThere` that each of them can be paid out. `RewardsAreKept` is an
  action property over the same invariant.
* **The tab.** `TabRunsThePool` shows that every behaviour of the page is one
  of the contract: each step of the tab is a transaction, the clock, or leaves
  the contract alone. So what was proved of the contract holds under the tab
  (`TabPoolIsHonest`).
* `TabInv` joins `TabTypeOK`, `PoolInv` and `DisabledByHandler` with: no
  period, of the stake, of the tab or of a load in flight, begins in the
  future. Without
  this the estimate would be computed for a negative time. A group of lemmas
  says of each transaction that it stores what is pending before it starts a
  period, pays it, or lets it grow (`Kept`); a second group shows that the page
  stays well typed and that a handler frees the buttons when it ends.
  `RewardIsKept` and `ButtonsAreFreed` follow.

**`ActivityApi_proofs`** assumes `ApiConstants`: the keys of activities and of
failed transactions are different. `RecordedWhole` says nothing of requests in
progress, so `IInv` adds how stage, kind and answer of a request belong
together (`Phases`), that committed events have distinct keys and belong to
requests past their commit (`Events`), that a request about to commit holds
its key alone (`Holds`: this is what the unique key of the event row and the
waiting for it give), that an answer tells the truth (`Answers`), and that the
other tables follow the event table (`Rows`), the price table only for requests
whose price insert was not given up. `RecordsAreWhole` is then a fact about
sets with at most one element. `HandlerImplementsLog` maps `Send` to
`Submit` or a stutter, `Commit` to `Record`, every response and a crash to
`Reply`, and all the rest to stutters.

**`Page_proofs`**, about the two halves of `pages/index.tsx`. For
`EventListener` it assumes `ListenerConstants`. `PostedOnce` is not
inductive, as it does not see the events that wait for their timer. Call an
event taken up by a run when it waits or is posted. What was taken up lies at
or below the watermark unless that was set back (`BelowWatermark`); a run takes
up only what lies above it; hence nothing is taken up by two runs
(`TakenOnce`). `EventsArePostedOnce` follows. `DeadRunsDoNotLog` is the action
property.

For `NetworkSession` it assumes `SessionConstants`: the two networks of
`CHAIN_IDS` that the page follows are networks of the wallet, and "none" is
not. Any other network may be one of the wallet's, mainnet among them: what
`getContractAddresses` gives for it is a deployment of `CONTRACT_ADDRESSES`. A
prompt knows its target (`Targeted`): otherwise the wallet could end up on no
network.
`LocksAreServed` is not inductive: that an effect is due says nothing of what
it will do. `Timed` says instead that the timeout is set once a render saw the
switch; a switch begins only when no effect is due, so the next render sees the
flag change and sets the timeout, and later renders keep it or set it anew.
For `loading`, whoever sets it joins the callers of `initializeContract`, the
refreshes or the tabs in the same step, and every one that leaves these clears
it; a Refresh Data hands it on to the initialisation that it starts.
`SessionTypeCorrect` and `EveryLockIsServed` follow. This is the safety half of
`ControlsReturn`: whoever is to release a lock is on the way; that they arrive
is fairness, and left to TLC.

**`LendingTabs_proofs`** assumes `TabsConstants`. Lemmas about the six routes
come first: no await occurs twice in a route, so `After` is the next one. The
invariant says what each handler has done by its await, or had done when it was
orphaned (`Sound`). As long as the shell has not cleared the flag under a
handler (`intruded`), `loading` is set while one of the five handlers that hold
it is in progress, and there is one such handler only (`Locked`). From `Sound` alone, `ReportsAreTrue`: the
shell has no influence on it. With `Unowed` (a withdrawal that passed its check
finds no debt, unless intruded or after a late loan), `LoansBlockWithdrawals`:
only a borrowing handler could add a loan; while the lock holds it cannot run
beside a withdrawal, and if its transaction is mined after it, the loan is a
late one (`LateLoan`) and stays one.

**`Deployment_proofs`** assumes that `MaxRuns` is a natural number. A script is
at the steps of its own kind only (`Course`), what is on chain when it comes to
its last steps is known (`Steps`), and the files name past runs (`Known`).
`PublicationIsWhole` needs `Steps` at the moment of publication and, from then
on, that a deployment only gains: nothing on chain is unconfigured again.
`OraclesGetFreshPrices` follows the price from the file to the oracle.

**Only model-checked** is all liveness: `EveryRequestAnswered`,
`LoggingCatchesUp`, `ControlsReturn`, `PageUnlocks`, `ButtonsReturn`,
`ShownStakeSettles`. It rests on fairness and on `ENABLED`, which the provers
do not handle. Every invariant, action property and refinement that a passing
run checks is proved. Of the contract's `Solvent` and of the type invariant of
`StakingPool` by itself there are theorems and no run; the runs check the
more general `SolventButForSeizures` and `TabTypeOK`.

## 5. Where the code disagrees with itself

| Run | Sentence | What the code does |
|---|---|---|
| `claim_loan` | "Insufficient collateral", Enhanced:287 | the health factor is checked before the loan is added; a first loan needs no collateral |
| `claim_borrower` | "Log for borrower (the one being liquidated)", index:410 | the request carries the hash under which the liquidator was logged; the API answers "Event already processed" and records nothing |

### Seen while modelling

Behaviour that the models contain as the code has it, and that no property
excludes:

* A transaction inside an interest interval discards the part of the interval
  that has passed: only whole intervals are charged, and the time of the last
  accrual is set regardless (Enhanced:118, 153).
* The annual rate, "in basis points" (Enhanced:34), is divided by 100 and not
  by 10000 (Enhanced:128): it is a hundred times as high.
* A liquidation writes the collateral off the deposit in the repaid token and
  pays it in WETH (Enhanced:570-573): with two tokens the pool may owe more
  WETH than it has.
* A change of the rate does not accrue first: the new rate applies to the time
  since the last accrual (Enhanced:614), and a lower rate lowers the debt that
  is shown.
* A renewed delegation overwrites the record of the earlier stake, which stays
  in the manager (Delegate:135).
* A loan taken through the manager stays in the manager, which has no operation
  that passes it on (Delegate:333).
* The listener's watermark is a block number, so the second event of a block
  is dropped (index:263), and so is everything before an assignment from the
  connection handler (index:204).
* When a refresh or the logging fails after the transaction was mined, the tab
  reports a failed transaction.
* A failed transaction cannot be recorded before the market row "default"
  exists (activity:612-643).
* The cleanup of the refresh interval is returned to `setTimeout`, so the
  interval is never cleared (DApp:498-510).
* The end of an initialisation clears `loading` (DApp:612, 622, 630), and so
  does Refresh Data (DApp:810), also when a handler of a tab has set it: its
  buttons are enabled before it is done (`intruded` in `LendingTabs`).
* `handleWithdraw` looks for a loan before it asks the user
  (DepositWithdrawTab:132). A loan that is begun after the shell has enabled
  the buttons, or one that was sent before and whose `tx.wait()` threw, is not
  seen by this check and may be mined before the withdrawal. These are the two
  exceptions of `NoWithdrawalInDebt`.
* Refresh Data calls the `initializeContract` of its own render, which returns
  at once if the contracts counted as initialised then, as they do after a
  failure (DApp:608-631); the handler clears the flag, and the effect that sees
  it calls the function again (DApp:799-804).
* A price that cannot be inserted is given up without an error (activity:58-62):
  the transaction commits without the price row.
* `networks.json` merges a deployment into the entry it finds
  (updateConfigs:23-26): after the generic script it may name the managers of
  an older deployment beside a new core. `PublishedWhole` is about
  `contracts.ts`, which the front end reads.
* An approval stays counted when its delegate is revoked (Delegate:298-309):
  the quorum is one of delegates that approved while they were active.
* Two deployment scripts at once read, change and write the same files: one of
  the two updates would be lost.

## 6. Not modelled

* `AutoRebalancer`: a triggered rebalance repays a debt of its own, which it
  does not have, so `repay` reverts; there is no behaviour beyond its
  configuration.
* `TestLendingProtocol`, which nothing but its deployment refers to, and
  `APIIntegrationManager` and `EventIndexer`, whose functions store their
  arguments.
* The listeners of `IntegrationService` (40-71): they write activity and market
  rows beside those of the API, without a check for duplicates, and a feed
  that nothing reads. `frontend/utils/networkHandler.ts`: nothing imports it.
  `_app.tsx` and `components/ui`: rendering.
* `run-local-l1-l2.js` (starts processes), `simulate-time-passage.js` (moves
  the clock, which every model moves anyway), `clearDatabase.ts` (empties the
  tables). Other networks of `hardhat.config.ts` than the three of the scripts.
* Amounts in the database and what is shown of a position: the models keep
  which rows exist, and the stake. Hence no property says that a stored
  position is the latest one (activity:428).
* The overflow guard of 2^256: numbers are unbounded naturals. The
  `interestPaid` figure of the Repay event (Enhanced:353-360). The diagnostic
  views (Enhanced:379-401, 659-737), `getRewardInfo`, the unused `nonces`.
* Who holds which role; what users hold outside the contracts.
* The overrun of a delegation's cap by several loans: the cap bounds each call,
  and the contract keeps no sum it could be compared with.
* Validation of input, messages, formatting, styling.

Simplifications of what is modelled:

* `ActivityApi`: the acknowledgement of a commit is lost only in a crash, not
  by a broken connection to the database.
* `EventListener`: a transaction emits one event; the node may withhold events
  and delivers those of one kind in the order of their blocks; one connection
  handler at a time is between reading the block number and assigning it.
* `NetworkSession`: any request may fail, which covers a provider that was tied
  to a network the wallet has left; calls of `initializeContract` from one call
  site, and handlers waiting for the same answer, count as one. The two timers
  of the selector are one action. Of a tab's handler there is only that it sets
  and clears `loading`; of the messages only the one that shows Refresh Data.
* `LendingTabs`: deposit and debt are whole units above the thresholds for dust;
  the two reads at the start of a full repayment are one step; the pool's
  interest is `OthersMove`. One account and one pool for as long as the page is
  open: of a network switch there is what it does to `loading`. The mined
  transaction of an orphaned allowance changes nothing and is left out.
* `StakingTab`: a load at the end of a handler is one step, and a load reads
  all or nothing; no handler runs twice at a time; what was sent before the tab
  is left is not mined later; browser and chain share a clock.
* `Deployment`: scripts run one after the other; the nodes keep their contracts.

## 7. What is left to do

1. The position a tab shows and the one the API stores, with their amounts:
   the readings that arrive late after a switch (DApp:303) or a slower request
   (activity:428).
2. `DelegatedLending`: one manager and one pool composed, the loan of the
   manager being the `borrowBehalf` of the pool.
3. The listener and the API composed over one database, with the tab as the
   second writer.
