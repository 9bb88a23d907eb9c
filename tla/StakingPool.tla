---------------------------- MODULE StakingPool ----------------------------
(***************************************************************************)
(* contracts/core/StakingPool.sol: users stake WETH and earn USDC for the  *)
(* time their stake lies in the pool.  Rewards are computed lazily, from   *)
(* the time of the user's last operation, and are stored, paid out or      *)
(* dropped by the next one.  A transaction is one action, a require that   *)
(* fails is a guard.                                                       *)
(***************************************************************************)
EXTENDS Integers, FiniteSetsExt

CONSTANTS
  Users,
  Amounts,          (* WETH amounts a caller may pass                      *)
  Grants,           (* USDC amounts the owner may add                      *)
  REWARD_RATE,      (* basis points per interval                           *)
  BASIS_POINTS,
  REWARD_INTERVAL,  (* seconds                                             *)
  USDC_UNIT,        (* units of WETH in a unit of USDC, 1e12               *)
  MaxTime,          (* bound: block time stops here                        *)
  MaxStaked,        (* bound: staking stops at this total                  *)
  MaxRewards        (* bound: the owner stops adding USDC here             *)

ASSUME StakingConstants ==
  /\ IsFiniteSet(Users)
  /\ Amounts \subseteq Nat
  /\ Grants \subseteq Nat
  /\ REWARD_RATE \in Nat
  /\ BASIS_POINTS \in Nat \ {0}
  /\ REWARD_INTERVAL \in Nat \ {0}
  /\ USDC_UNIT \in Nat \ {0}
  /\ MaxTime \in Nat
  /\ MaxStaked \in Nat
  /\ MaxRewards \in Nat

VARIABLES
  stakes,        (* StakeInfo of every user                                *)
  stakedWeth,    (* the pool's balance of the staking token                *)
  rewardUsdc,    (* the pool's balance of the reward token                 *)
  now,           (* block.timestamp                                        *)
  history        (* history variable, read by no action: per user the      *)
                 (* WETH-seconds spent in the pool and the USDC received   *)

vars == <<stakes, stakedWeth, rewardUsdc, now, history>>

StakeInfo ==
  [amount : Nat, startTime : Nat, lastRewardTime : Nat, storedReward : Nat]

TypeOK ==
  /\ stakes \in [Users -> StakeInfo]
  /\ stakedWeth \in Nat
  /\ rewardUsdc \in Nat
  /\ now \in Nat \ {0}
  /\ history \in [Users -> [wethSeconds : Nat, received : Nat]]

Init ==
  /\ stakes = [u \in Users |->
       [amount |-> 0, startTime |-> 0, lastRewardTime |-> 0,
        storedReward |-> 0]]
  /\ stakedWeth = 0
  /\ rewardUsdc = 0
  /\ now = 1
  /\ history = [u \in Users |-> [wethSeconds |-> 0, received |-> 0]]

-----------------------------------------------------------------------------
RewardFor(amount, elapsed) ==
  (((amount * REWARD_RATE * elapsed) \div BASIS_POINTS)
     \div REWARD_INTERVAL) \div USDC_UNIT

(* calculateCurrentReward of a stake s                                     *)
CurrentReward(s) ==
  IF s.amount = 0 \/ s.lastRewardTime = 0 THEN 0
  ELSE RewardFor(s.amount, now - s.lastRewardTime)

(* Mutant of Settled: the period stays open after its reward is stored.    *)
SettledOpen(s) ==
  [s EXCEPT !.storedReward = s.storedReward + CurrentReward(s)]

(* The stored reward brought up to date and a new period begun.            *)
Settled(s) ==
  [s EXCEPT !.storedReward = s.storedReward + CurrentReward(s),
            !.lastRewardTime = now]

(* pendingReward of getStakeInfo                                           *)
PendingReward(s) ==
  s.storedReward + (IF s.amount > 0 THEN CurrentReward(s) ELSE 0)

(* Without a stake the call is mined and does nothing.                     *)
StoreCurrentRewards(u) ==
  /\ stakes' = IF stakes[u].amount = 0 THEN stakes
               ELSE [stakes EXCEPT ![u] = Settled(stakes[u])]
  /\ UNCHANGED <<stakedWeth, rewardUsdc, now, history>>

(* The reward of the open period is dropped.                               *)
ContinueStaking(u) ==
  /\ stakes[u].amount > 0
  /\ stakes' = [stakes EXCEPT ![u].lastRewardTime = now]
  /\ UNCHANGED <<stakedWeth, rewardUsdc, now, history>>

(* Mutant of Staked: the reward of the open period is not stored first.    *)
StakedUnsettled(s, amount) ==
  [s EXCEPT !.amount = s.amount + amount,
            !.lastRewardTime = now,
            !.startTime = IF s.startTime = 0 THEN now ELSE s.startTime]

(* What stake makes of a StakeInfo: startTime is set once and for all.     *)
Staked(s, amount) ==
  [Settled(s) EXCEPT
    !.amount = s.amount + amount,
    !.startTime = IF s.startTime = 0 THEN now ELSE s.startTime]

Stake(u, amount) ==
  /\ amount > 0
  /\ stakedWeth + amount <= MaxStaked
  /\ stakes' = [stakes EXCEPT ![u] = Staked(stakes[u], amount)]
  /\ stakedWeth' = stakedWeth + amount
  /\ UNCHANGED <<rewardUsdc, now, history>>

(* Mutant of StakeLeft: the withdrawn amount is not deducted.              *)
StakeKept(s, amount) == Settled(s)

StakeLeft(s, amount) == [Settled(s) EXCEPT !.amount = s.amount - amount]

Withdraw(u, amount) ==
  /\ amount <= stakes[u].amount
  /\ amount <= stakedWeth
  /\ stakes' = [stakes EXCEPT ![u] = StakeLeft(stakes[u], amount)]
  /\ stakedWeth' = stakedWeth - amount
  /\ UNCHANGED <<rewardUsdc, now, history>>

(* All or nothing: the claim reverts when the pool has too little USDC.    *)
ClaimReward(u) ==
  LET s == IF stakes[u].amount > 0 THEN Settled(stakes[u]) ELSE stakes[u]
      totalReward == s.storedReward
  IN  /\ totalReward > 0
      /\ totalReward <= rewardUsdc
      /\ stakes' = [stakes EXCEPT ![u] = [s EXCEPT !.storedReward = 0]]
      /\ rewardUsdc' = rewardUsdc - totalReward
      /\ history' = [history EXCEPT ![u].received = @ + totalReward]
      /\ UNCHANGED <<stakedWeth, now>>

ReplenishRewards(amount) ==
  /\ rewardUsdc + amount <= MaxRewards
  /\ rewardUsdc' = rewardUsdc + amount
  /\ UNCHANGED <<stakes, stakedWeth, now, history>>

Tick ==
  /\ now < MaxTime
  /\ now' = now + 1
  /\ history' = [u \in Users |->
       [history[u] EXCEPT !.wethSeconds = @ + stakes[u].amount]]
  /\ UNCHANGED <<stakes, stakedWeth, rewardUsdc>>

Next ==
  \/ \E u \in Users :
       \/ StoreCurrentRewards(u)
       \/ ContinueStaking(u)
       \/ ClaimReward(u)
       \/ \E amount \in Amounts : Stake(u, amount) \/ Withdraw(u, amount)
  \/ \E amount \in Grants : ReplenishRewards(amount)
  \/ Tick

Spec == Init /\ [][Next]_vars

-----------------------------------------------------------------------------
(* No sequence of stakes, withdrawals, claims and restarts of the period   *)
(* earns a user more than REWARD_RATE on every WETH for every second it    *)
(* lay in the pool, what is pending included: no period is paid twice and  *)
(* truncation never favours the user.                                      *)
Received(u) == history[u].received + PendingReward(stakes[u])

NeverOverpaid ==
  \A u \in Users :
    Received(u) * (BASIS_POINTS * REWARD_INTERVAL * USDC_UNIT)
      <= REWARD_RATE * history[u].wethSeconds

(* A pending reward that a user was shown (getStakeInfo) disappears only   *)
(* by being paid in full or by the user's own continueStaking; nobody      *)
(* else's operation, and no stake or withdrawal, lowers it.                *)
PendingIsKept ==
  \A u \in Users :
    PendingReward(stakes[u])' < PendingReward(stakes[u]) =>
      \/ ContinueStaking(u)
      \/ /\ PendingReward(stakes[u])' = 0
         /\ history'[u].received
              = history[u].received + PendingReward(stakes[u])

RewardNeverLost == [][PendingIsKept]_vars

(* The pool holds exactly the stakes: whatever was claimed or withdrawn    *)
(* before, every user can withdraw the whole stake.                        *)
PrincipalCovered ==
  stakedWeth = SumFunction([u \in Users |-> stakes[u].amount])
=============================================================================
