---------------------------- MODULE LendingPool ----------------------------
(***************************************************************************)
(* The pool of contracts/core/EnhancedLendingProtocol.sol.                 *)
(*                                                                         *)
(* Every external function of the contract is one action: a transaction is *)
(* atomic and the contract is nonReentrant.  A require that fails reverts  *)
(* the whole transaction, so it is a guard.  The price oracle              *)
(* (contracts/mocks/MockPriceOracle.sol) and block time are part of the    *)
(* state; the ETH and WETH that users hold outside the pool are not.       *)
(***************************************************************************)
EXTENDS InterestIndex, FiniteSetsExt

CONSTANTS
  Users,         (* accounts that hold positions                           *)
  Tokens,        (* ERC20 tokens                                           *)
  WETH,          (* the wrapped native token, the only one that counts     *)
                 (* in a health factor (getSupportedTokens)                *)
  Amounts,       (* token amounts a caller may pass                        *)
  Prices,        (* prices the oracle may report                           *)
  Configs,       (* arguments the administrator passes to setTokenConfig   *)
  MAX_UINT256,
  MaxDeposits,   (* bound: deposits stop at this total per token           *)
  MaxTime        (* bound: block time stops here                           *)

ConfigType ==
  [isSupported : BOOLEAN, collateralFactor : Nat, liquidationThreshold : Nat,
   liquidationPenalty : Nat, interestRate : Nat]

ASSUME PoolConstants ==
  /\ IsFiniteSet(Users) /\ IsFiniteSet(Tokens)
  /\ WETH \in Tokens
  /\ Amounts \subseteq Nat
  /\ Prices \subseteq Nat \ {0}
  /\ Configs \subseteq ConfigType
  /\ MAX_UINT256 \in Nat
  /\ MAX_UINT256 >= BASIS_POINTS
  /\ MaxDeposits \in Nat
  /\ MaxTime \in Nat

VARIABLES
  market,        (* per token: globalInterestIndices, lastGlobalUpdate,    *)
                 (* totalDeposits, totalBorrows and the pool's own balance *)
  position,      (* userPositions                                          *)
  config,        (* tokenConfigs                                           *)
  price,         (* prices of the current oracle, 0 when it has none       *)
  paused,
  now,           (* block.timestamp                                        *)
  history        (* history variable, see below                            *)

vars == <<market, position, config, price, paused, now, history>>

(***************************************************************************)
(* history has no counterpart in the contract and no action reads it.  Per *)
(* token it adds up the interest charged to positions, what liquidators    *)
(* repaid, the collateral written off positions and the tokens handed to   *)
(* liquidators.                                                            *)
(***************************************************************************)
HistoryType ==
  [interest : Nat, liquidated : Nat, seized : Nat, paidOut : Nat]

MarketType ==
  [globalIndex : Nat, lastGlobalUpdate : Nat, totalDeposits : Nat,
   totalBorrows : Nat, cash : Nat]

PositionType ==
  [depositAmount : Nat, borrowAmount : Nat, interestIndex : Nat,
   lastUpdateTime : Nat]

TypeOK ==
  /\ market \in [Tokens -> MarketType]
  /\ position \in [Tokens -> [Users -> PositionType]]
  /\ config \in [Tokens -> ConfigType]
  /\ price \in [Tokens -> Nat]
  /\ paused \in BOOLEAN
  /\ now \in Nat
  /\ history \in [Tokens -> HistoryType]

UnsupportedToken ==
  [isSupported |-> FALSE, collateralFactor |-> 0, liquidationThreshold |-> 0,
   liquidationPenalty |-> 0, interestRate |-> 0]

(* The contract as its constructor leaves it: all mappings are zero.       *)
Init ==
  /\ market = [t \in Tokens |->
       [globalIndex |-> 0, lastGlobalUpdate |-> 0, totalDeposits |-> 0,
        totalBorrows |-> 0, cash |-> 0]]
  /\ position = [t \in Tokens |-> [u \in Users |->
       [depositAmount |-> 0, borrowAmount |-> 0, interestIndex |-> 0,
        lastUpdateTime |-> 0]]]
  /\ config = [t \in Tokens |-> UnsupportedToken]
  /\ price = [t \in Tokens |-> 0]
  /\ paused = FALSE
  /\ now = 0
  /\ history = [t \in Tokens |->
       [interest |-> 0, liquidated |-> 0, seized |-> 0,
        paidOut |-> 0]]

-----------------------------------------------------------------------------
(***************************************************************************)
(* Accrual.                                                                *)
(***************************************************************************)
IndexOrInitial(m) ==
  IF m.globalIndex = 0 THEN INITIAL_INTEREST_INDEX ELSE m.globalIndex

(* Mutant of GlobalAccrued: the time of the last update is not moved.      *)
GlobalAccruedUntimed(m, rate, time) ==
  LET current == IndexOrInitial(m)
      new     == GrownIndex(current, rate, time - m.lastGlobalUpdate)
  IN  [m EXCEPT !.globalIndex = IF m.totalBorrows > 0 /\ new > current
                                THEN new ELSE m.globalIndex]

(* updateGlobalInterest: market record m brought to a time.  The timestamp *)
(* moves even when no whole interval has passed.                           *)
GlobalAccrued(m, rate, time) ==
  LET current == IndexOrInitial(m)
      new     == GrownIndex(current, rate, time - m.lastGlobalUpdate)
  IN  [m EXCEPT
        !.lastGlobalUpdate = time,
        !.globalIndex = IF m.totalBorrows > 0 /\ new > current
                        THEN new ELSE m.globalIndex]

(* Mutant of UserIndex: the position's own index is forgotten.             *)
UserIndexForgotten(m, p) == IndexOrInitial(m)

UserIndex(m, p) ==
  IF p.interestIndex = 0 THEN IndexOrInitial(m) ELSE p.interestIndex

(* Mutant of Charge: the ratio of the two indices is upside down.          *)
ChargeInverted(m, p) ==
  IF p.borrowAmount > 0 /\ m.globalIndex > UserIndex(m, p)
  THEN DebtAt(p.borrowAmount, m.globalIndex, UserIndex(m, p)) - p.borrowAmount
  ELSE 0

(* updateUserInterest: the interest market m adds to position p.           *)
Charge(m, p) ==
  IF p.borrowAmount > 0 /\ m.globalIndex > UserIndex(m, p)
  THEN DebtAt(p.borrowAmount, UserIndex(m, p), m.globalIndex) - p.borrowAmount
  ELSE 0

(* updateUserInterest: position p charged by market m.                     *)
UserAccrued(m, p, time) ==
  [p EXCEPT
    !.borrowAmount = p.borrowAmount + Charge(m, p),
    !.interestIndex = IF p.borrowAmount = 0 THEN p.interestIndex
                      ELSE IF m.globalIndex > UserIndex(m, p)
                           THEN m.globalIndex ELSE UserIndex(m, p),
    !.lastUpdateTime = time]

(* The two updates with which every user operation on token t starts.      *)
Interest(t, u) ==
  Charge(GlobalAccrued(market[t], config[t].interestRate, now), position[t][u])

(* Mutant of AccruedMarket: totalBorrows misses the interest.              *)
AccruedMarketOnly(t, u) ==
  GlobalAccrued(market[t], config[t].interestRate, now)

AccruedMarket(t, u) ==
  LET m == GlobalAccrued(market[t], config[t].interestRate, now)
  IN  [m EXCEPT !.totalBorrows = m.totalBorrows + Interest(t, u)]

AccruedPosition(t, u) ==
  UserAccrued(GlobalAccrued(market[t], config[t].interestRate, now),
              position[t][u], now)

-----------------------------------------------------------------------------
(***************************************************************************)
(* Views.                                                                  *)
(***************************************************************************)
(* Mutant of CurrentGlobalIndex: interest not yet stored is left out.      *)
StoredGlobalIndex(m, rate) == IndexOrInitial(m)

(* getCurrentGlobalIndex                                                   *)
CurrentGlobalIndex(m, rate) ==
  IF m.globalIndex # 0 /\ m.lastGlobalUpdate < now /\ m.totalBorrows > 0
  THEN GrownIndex(m.globalIndex, rate, now - m.lastGlobalUpdate)
  ELSE IndexOrInitial(m)

(* getCurrentBorrowAmount                                                  *)
CurrentBorrowAmount(m, p, rate) ==
  IF p.borrowAmount = 0 THEN 0
  ELSE DebtAt(p.borrowAmount,
              IF p.interestIndex = 0 THEN INITIAL_INTEREST_INDEX
                                     ELSE p.interestIndex,
              CurrentGlobalIndex(m, rate))

(* getHealthFactor and getLiquidationHealthFactor, which differ in the     *)
(* factor only.  m and p are the WETH market and the user's WETH position. *)
HealthFactor(m, p, factor) ==
  LET collateral == (p.depositAmount * price[WETH] * factor) \div BASIS_POINTS
      borrow == CurrentBorrowAmount(m, p, config[WETH].interestRate)
                  * price[WETH]
  IN  IF borrow = 0 THEN MAX_UINT256
      ELSE (collateral * BASIS_POINTS) \div borrow

(* The user's health factors as a transaction on token t sees them: the    *)
(* WETH position is charged first when t is WETH, and only then.           *)
WethMarket(t, u)   == IF t = WETH THEN AccruedMarket(t, u) ELSE market[WETH]
WethPosition(t, u) == IF t = WETH THEN AccruedPosition(t, u)
                                  ELSE position[WETH][u]

IsHealthy(t, u) ==
  /\ price[WETH] > 0
  /\ HealthFactor(WethMarket(t, u), WethPosition(t, u),
                  config[WETH].collateralFactor) >= BASIS_POINTS

IsLiquidatable(t, u) ==
  /\ price[WETH] > 0
  /\ HealthFactor(WethMarket(t, u), WethPosition(t, u),
                  config[WETH].liquidationThreshold) < BASIS_POINTS

(* calculateCollateralToSeize                                              *)
CollateralToSeize(t, amount) ==
  ((amount * (BASIS_POINTS + config[t].liquidationPenalty) * price[t])
     \div price[WETH]) \div BASIS_POINTS

-----------------------------------------------------------------------------
(***************************************************************************)
(* Operations of users, delegates and liquidators.                         *)
(***************************************************************************)
(* whenNotPaused and onlyValidToken                                        *)
IsOpen(t) == ~paused /\ config[t].isSupported

Store(t, u, m, p) ==
  /\ market'   = [market EXCEPT ![t] = m]
  /\ position' = [position EXCEPT ![t][u] = p]

Deposit(u, t, amount) ==
  LET m == AccruedMarket(t, u)
      p == AccruedPosition(t, u)
  IN  /\ IsOpen(t)
      /\ amount > 0
      /\ market[t].totalDeposits + amount <= MaxDeposits
      /\ Store(t, u,
           [m EXCEPT !.totalDeposits = m.totalDeposits + amount,
                     !.cash = m.cash + amount],
           [p EXCEPT !.depositAmount = p.depositAmount + amount])
      /\ history' = [history EXCEPT ![t].interest = @ + Interest(t, u)]
      /\ UNCHANGED <<config, price, paused, now>>

Withdraw(u, t, amount) ==
  LET m == AccruedMarket(t, u)
      p == AccruedPosition(t, u)
  IN  /\ IsOpen(t)
      /\ amount <= p.depositAmount
      /\ IsHealthy(t, u)
      /\ amount <= m.totalDeposits
      /\ amount <= m.cash
      /\ Store(t, u,
           [m EXCEPT !.totalDeposits = m.totalDeposits - amount,
                     !.cash = m.cash - amount],
           [p EXCEPT !.depositAmount = p.depositAmount - amount])
      /\ history' = [history EXCEPT ![t].interest = @ + Interest(t, u)]
      /\ UNCHANGED <<config, price, paused, now>>

(* The body borrow and borrowBehalf share: u is the account that will owe  *)
(* the amount.  Only the state before the loan is checked for health.      *)
Lend(u, t, amount) ==
  LET m == AccruedMarket(t, u)
      p == AccruedPosition(t, u)
      firstBorrow == p.interestIndex = 0
  IN  /\ IsOpen(t)
      /\ amount > 0
      /\ IsHealthy(t, u)
      /\ amount <= m.cash
      /\ Store(t, u,
           [m EXCEPT !.totalBorrows = m.totalBorrows + amount,
                     !.cash = m.cash - amount,
                     !.globalIndex = IF firstBorrow THEN IndexOrInitial(m)
                                                    ELSE m.globalIndex],
           [p EXCEPT !.borrowAmount = p.borrowAmount + amount,
                     !.interestIndex = IF firstBorrow THEN IndexOrInitial(m)
                                                      ELSE p.interestIndex])
      /\ history' = [history EXCEPT ![t].interest = @ + Interest(t, u)]
      /\ UNCHANGED <<config, price, paused, now>>

(* notFlashLoan: the caller u is an externally owned account.              *)
Borrow(u, t, amount) == Lend(u, t, amount)

(* A holder of DELEGATE_ROLE takes the tokens, borrower u owes them.       *)
BorrowBehalf(u, t, amount) == Lend(u, t, amount)

Repay(u, t, amount) ==
  LET m == AccruedMarket(t, u)
      p == AccruedPosition(t, u)
      rate == config[t].interestRate
      left == p.borrowAmount - amount
  IN  /\ IsOpen(t)
      /\ amount <= CurrentBorrowAmount(m, p, rate)
      /\ amount <= m.totalBorrows
      /\ amount <= p.borrowAmount
      /\ Store(t, u,
           [m EXCEPT !.totalBorrows = m.totalBorrows - amount,
                     !.cash = m.cash + amount],
           [p EXCEPT !.borrowAmount = left,
                     !.interestIndex = IF left = 0 THEN 0
                                                   ELSE p.interestIndex])
      /\ history' = [history EXCEPT ![t].interest = @ + Interest(t, u)]
      /\ UNCHANGED <<config, price, paused, now>>

(* Mutant of LIQUIDATION_CLOSE_FACTOR: all of a debt may be liquidated.    *)
WHOLE_DEBT == 10000

LIQUIDATION_CLOSE_FACTOR == 5000

(* The debt and the collateral are written off the position in token t;    *)
(* the collateral is paid out in WETH; the totals keep their old values.   *)
Liquidate(u, t, amount) ==
  LET m == AccruedMarket(t, u)
      p == AccruedPosition(t, u)
      maxLiquidation ==
        (p.borrowAmount * LIQUIDATION_CLOSE_FACTOR) \div BASIS_POINTS
      seize  == CollateralToSeize(t, amount)
      repaid == [market EXCEPT ![t] = [m EXCEPT !.cash = m.cash + amount]]
  IN  /\ IsOpen(t)
      /\ IsLiquidatable(t, u)
      /\ amount <= maxLiquidation
      /\ price[t] > 0
      /\ seize <= p.depositAmount
      /\ seize <= repaid[WETH].cash
      /\ market' = [repaid EXCEPT ![WETH].cash = @ - seize]
      /\ position' = [position EXCEPT ![t][u] =
           [p EXCEPT !.borrowAmount = p.borrowAmount - amount,
                     !.depositAmount = p.depositAmount - seize]]
      /\ history' = [history EXCEPT
           ![t].interest   = @ + Interest(t, u),
           ![t].liquidated = @ + amount,
           ![t].seized     = @ + seize,
           ![WETH].paidOut = @ + seize]
      /\ UNCHANGED <<config, price, paused, now>>

-----------------------------------------------------------------------------
(***************************************************************************)
(* Administration, the oracle and time.                                    *)
(***************************************************************************)
(* No accrual precedes the change: the interest rate of c applies to the   *)
(* time since lastGlobalUpdate too.                                        *)
SetTokenConfig(t, c) ==
  /\ c.collateralFactor <= BASIS_POINTS
  /\ c.liquidationThreshold <= BASIS_POINTS
  /\ config' = [config EXCEPT ![t] = c]
  /\ UNCHANGED <<market, position, price, paused, now, history>>

(* The new oracle comes with prices of its own, or with none.              *)
UpdateOracle(prices) ==
  /\ price' = prices
  /\ UNCHANGED <<market, position, config, paused, now, history>>

UpdatePrice(t, value) ==
  /\ value > 0
  /\ price' = [price EXCEPT ![t] = value]
  /\ UNCHANGED <<market, position, config, paused, now, history>>

Pause ==
  /\ ~paused
  /\ paused' = TRUE
  /\ UNCHANGED <<market, position, config, price, now, history>>

Unpause ==
  /\ paused
  /\ paused' = FALSE
  /\ UNCHANGED <<market, position, config, price, now, history>>

(* The next block carries a later timestamp.                               *)
Tick ==
  /\ now < MaxTime
  /\ now' = now + 1
  /\ UNCHANGED <<market, position, config, price, paused, history>>

UserStep ==
  \E u \in Users, t \in Tokens, amount \in Amounts :
    \/ Deposit(u, t, amount)
    \/ Withdraw(u, t, amount)
    \/ Borrow(u, t, amount)
    \/ BorrowBehalf(u, t, amount)
    \/ Repay(u, t, amount)
    \/ Liquidate(u, t, amount)

AdminStep ==
  \/ \E t \in Tokens, c \in Configs : SetTokenConfig(t, c)
  \/ \E t \in Tokens, value \in Prices : UpdatePrice(t, value)
  \/ \E prices \in [Tokens -> Prices \cup {0}] : UpdateOracle(prices)
  \/ Pause
  \/ Unpause

Next == UserStep \/ AdminStep \/ Tick

Spec == Init /\ [][Next]_vars

-----------------------------------------------------------------------------
(***************************************************************************)
(* Properties.                                                             *)
(***************************************************************************)
Debt(t, u) ==
  CurrentBorrowAmount(market[t], position[t][u], config[t].interestRate)

(* An interest index is recorded exactly while there is a debt: repay      *)
(* clears it with the last unit, liquidate may never take the last unit,   *)
(* and borrow sets it again.  A recorded index lies between the initial    *)
(* one and the market's, and no position is charged later than its market. *)
DebtIndexed ==
  \A t \in Tokens, u \in Users :
    LET m == market[t]
        p == position[t][u]
    IN  /\ (p.borrowAmount = 0) <=> (p.interestIndex = 0)
        /\ p.interestIndex # 0 => p.interestIndex >= INITIAL_INTEREST_INDEX
        /\ p.interestIndex <= m.globalIndex
        /\ m.globalIndex # 0 => m.globalIndex >= INITIAL_INTEREST_INDEX
        /\ p.lastUpdateTime <= m.lastGlobalUpdate
        /\ m.lastGlobalUpdate <= now

(* The debt a view reports (getCurrentBorrowAmount) is the debt that the   *)
(* next transaction of the user in the same block commits to storage       *)
(* (updateGlobalInterest, updateUserInterest): the two are separate code.  *)
ViewMatchesCommit ==
  \A t \in Tokens, u \in Users :
    Debt(t, u) = AccruedPosition(t, u).borrowAmount

(* The pool's books: its token balance and the loans still carried in      *)
(* totalBorrows are matched by totalDeposits and by the interest charged.  *)
(* A liquidation leaves both totals alone, which is why what it moved has  *)
(* to be added on either side.                                             *)
BooksBalance ==
  \A t \in Tokens :
    market[t].cash + market[t].totalBorrows + history[t].paidOut
      = market[t].totalDeposits + history[t].interest + history[t].liquidated

AllDebts(t)    == SumFunction([u \in Users |-> position[t][u].borrowAmount])
AllDeposits(t) == SumFunction([u \in Users |-> position[t][u].depositAmount])

(* The totals exceed the sums of the positions by exactly what liquidators *)
(* repaid and seized, so that no checked subtraction from a total can ever *)
(* block a withdrawal or a repayment.                                      *)
TotalsCoverPositions ==
  \A t \in Tokens :
    /\ market[t].totalBorrows  = AllDebts(t) + history[t].liquidated
    /\ market[t].totalDeposits = AllDeposits(t) + history[t].seized

(* Solvency: what the pool holds and is owed covers what it owes its       *)
(* depositors, whatever order of loans, repayments and liquidations led    *)
(* here.                                                                   *)
Solvent ==
  \A t \in Tokens : market[t].cash + AllDebts(t) >= AllDeposits(t)

(* The collateral that liquidations of debts in other tokens wrote off     *)
(* deposits in those tokens, and paid out in WETH.                         *)
SeizedElsewhere ==
  SumFunction([t \in Tokens \ {WETH} |-> history[t].seized])

(* With several tokens a liquidation of another token pays WETH that no    *)
(* WETH deposit is reduced by.  This is the only way in which the pool may *)
(* come to owe more than it has: every other token stays solvent, and the  *)
(* shortfall in WETH is at most what was seized in the others.             *)
SolventButForSeizures ==
  \A t \in Tokens :
    market[t].cash + AllDebts(t) + (IF t = WETH THEN SeizedElsewhere ELSE 0)
      >= AllDeposits(t)

DebtsFallByPayment ==
  config' = config =>
    \A t \in Tokens, u \in Users :
      Debt(t, u)' < Debt(t, u) =>
        /\ Debt(t, u) - Debt(t, u)'
             = (market'[t].cash + history'[t].paidOut)
                 - (market[t].cash + history[t].paidOut)
        /\ \A v \in Users \ {u} : Debt(t, v)' = Debt(t, v)

(* While no rate is changed, a debt as the views report it falls only by   *)
(* what the pool receives for it in the same step, and the step touches    *)
(* one debt only.                                                          *)
DebtFallsOnlyByPayment == [][DebtsFallByPayment]_vars

IndicesRise ==
  \A t \in Tokens :
    /\ market'[t].globalIndex >= market[t].globalIndex
    /\ market'[t].lastGlobalUpdate >= market[t].lastGlobalUpdate
    /\ \A u \in Users :
         position'[t][u].interestIndex < position[t][u].interestIndex =>
           position'[t][u].borrowAmount = 0

(* A market with an index reports the same one before and after.           *)
ReportedIndexStays ==
  \A t \in Tokens :
    UNCHANGED <<now, config[t]>> /\ market[t].globalIndex # 0 =>
      CurrentGlobalIndex(market'[t], config[t].interestRate)
        = CurrentGlobalIndex(market[t], config[t].interestRate)

(* No index ever falls, and a position's index is reset only by clearing   *)
(* its debt.  No market is charged for a period twice, in whatever order   *)
(* transactions come: its timestamp never goes back, and no transaction    *)
(* moves the index that getCurrentGlobalIndex reports, which grows by the  *)
(* passing of time alone.                                                  *)
IndexNeverFalls == [][IndicesRise /\ ReportedIndexStays]_vars

(* The contract keeps the promises of LendingBook: stored debts, deposits  *)
(* and token balances move only as a lending book's entries may.           *)
Saved == [t \in Tokens |-> [u \in Users |-> position[t][u].depositAmount]]
Owed  == [t \in Tokens |-> [u \in Users |-> position[t][u].borrowAmount]]
Vault == [t \in Tokens |-> market[t].cash]

Book == INSTANCE LendingBook WITH saved <- Saved, owed <- Owed, vault <- Vault

KeepsBook == Book!Spec
=============================================================================
