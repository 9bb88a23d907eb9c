--------------------------- MODULE Staking_proofs ---------------------------
(***************************************************************************)
(* Theorems about StakingPool and about StakingTab, which runs it, for     *)
(* every finite set of users, every rate and every length of an interval:  *)
(* the pool overpays nobody, loses no pending reward and holds every       *)
(* stake; the tab is a user of that pool, never makes its user give up a   *)
(* reward, and never leaves its buttons disabled for nothing.              *)
(***************************************************************************)
EXTENDS StakingTab, FiniteSums

Divisor == BASIS_POINTS * REWARD_INTERVAL * USDC_UNIT

LEMMA DivisorIsNat == Divisor \in Nat /\ Divisor > 0
  BY StakingConstants DEF Divisor

-----------------------------------------------------------------------------
(* Multiplication by a natural number keeps an order.                      *)
LEMMA ProductOrder ==
  ASSUME NEW a \in Nat, NEW b \in Nat, NEW c \in Nat, a <= b
  PROVE  a * c \in Nat /\ b * c \in Nat /\ a * c <= b * c
  OBVIOUS

(* A truncated quotient times the divisor never exceeds the dividend.      *)
LEMMA QuotientBelow ==
  ASSUME NEW x \in Nat, NEW d \in Nat \ {0}
  PROVE  x \div d \in Nat /\ (x \div d) * d <= x
  OBVIOUS

(* Truncating division keeps an order.                                     *)
LEMMA QuotientOrder ==
  ASSUME NEW x \in Nat, NEW y \in Nat, NEW d \in Nat \ {0}, x <= y
  PROVE  x \div d <= y \div d
<1> DEFINE p == x \div d
           q == y \div d
<1>1. p \in Nat /\ q \in Nat /\ p * d <= x /\ y < (q + 1) * d
  OBVIOUS
<1> HIDE DEF p, q
<1>2. SUFFICES ASSUME q + 1 <= p PROVE FALSE
  BY <1>1 DEF p, q
<1>3. (q + 1) * d <= p * d
  BY <1>1, <1>2, ProductOrder
<1>4. (q + 1) * d \in Nat /\ p * d \in Nat
  BY <1>1
<1> QED BY <1>1, <1>3, <1>4

LEMMA RewardType ==
  ASSUME NEW amount \in Nat, NEW elapsed \in Nat
  PROVE  /\ RewardFor(amount, elapsed) \in Nat
         /\ amount * REWARD_RATE * elapsed \in Nat
         /\ (amount * REWARD_RATE * elapsed) \div BASIS_POINTS \in Nat
         /\ ((amount * REWARD_RATE * elapsed) \div BASIS_POINTS)
              \div REWARD_INTERVAL \in Nat
<1>1. amount * REWARD_RATE \in Nat
  BY StakingConstants
<1> DEFINE x == amount * REWARD_RATE * elapsed
           a == x \div BASIS_POINTS
           b == a \div REWARD_INTERVAL
<1>2. x \in Nat
  BY <1>1
<1> HIDE DEF x
<1>3. a \in Nat
  BY <1>2, QuotientBelow, StakingConstants
<1> HIDE DEF a
<1>4. b \in Nat
  BY <1>3, QuotientBelow, StakingConstants
<1> HIDE DEF b
<1>5. b \div USDC_UNIT \in Nat
  BY <1>4, QuotientBelow, StakingConstants
<1> QED BY <1>2, <1>3, <1>4, <1>5 DEF RewardFor, x, a, b

(* Three truncations still stay below the exact reward.                    *)
LEMMA RewardBelowExact ==
  ASSUME NEW amount \in Nat, NEW elapsed \in Nat
  PROVE  RewardFor(amount, elapsed) * Divisor
           <= amount * REWARD_RATE * elapsed
<1> DEFINE x == amount * REWARD_RATE * elapsed
           a == x \div BASIS_POINTS
           b == a \div REWARD_INTERVAL
           c == b \div USDC_UNIT
           B == BASIS_POINTS
           I == REWARD_INTERVAL
           U == USDC_UNIT
<1>1. x \in Nat /\ a \in Nat /\ b \in Nat /\ c \in Nat
  BY RewardType DEF RewardFor
<1>2. B \in Nat \ {0} /\ I \in Nat \ {0} /\ U \in Nat \ {0}
  BY StakingConstants
<1>a. c = RewardFor(amount, elapsed) /\ Divisor = B * I * U
  BY DEF RewardFor, Divisor
<1> HIDE DEF x
<1>3. a * B <= x
  BY <1>1, <1>2, QuotientBelow
<1> HIDE DEF a
<1>4. b * I <= a
  BY <1>1, <1>2, QuotientBelow
<1> HIDE DEF b
<1>5. c * U <= b
  BY <1>1, <1>2, QuotientBelow
<1> HIDE DEF c, B, I, U
<1>6. (c * U) * (I * B) <= b * (I * B)
  <2>1. c * U \in Nat /\ I * B \in Nat
    BY <1>1, <1>2
  <2> QED BY <2>1, <1>1, <1>5, ProductOrder
<1>7. (b * I) * B <= a * B
  <2>1. b * I \in Nat
    BY <1>1, <1>2
  <2> QED BY <2>1, <1>1, <1>2, <1>4, ProductOrder
<1>8. c * (B * I * U) = (c * U) * (I * B) /\ b * (I * B) = (b * I) * B
  BY <1>1, <1>2
<1>9. /\ c * (B * I * U) \in Nat /\ b * (I * B) \in Nat
      /\ a * B \in Nat
  BY <1>1, <1>2
<1>10. c * (B * I * U) <= x
  BY <1>1, <1>3, <1>6, <1>7, <1>8, <1>9
<1> QED BY <1>10, <1>a DEF x

(* A reward never falls with time.                                         *)
LEMMA RewardRises ==
  ASSUME NEW amount \in Nat, NEW elapsed \in Nat
  PROVE  RewardFor(amount, elapsed) <= RewardFor(amount, elapsed + 1)
<1> DEFINE r == amount * REWARD_RATE
           x == r * elapsed
           y == r * (elapsed + 1)
<1>1. r \in Nat
  BY StakingConstants
<1>2. x \in Nat /\ y \in Nat /\ x <= y
  <2> HIDE DEF r
  <2> QED BY <1>1
<1> DEFINE a(z) == z \div BASIS_POINTS
           b(z) == a(z) \div REWARD_INTERVAL
<1>3. /\ a(x) \in Nat /\ b(x) \in Nat /\ a(y) \in Nat /\ b(y) \in Nat
  <2>1. elapsed + 1 \in Nat
    OBVIOUS
  <2> QED BY <2>1, RewardType
<1> HIDE DEF x, y
<1>4. a(x) <= a(y)
  BY <1>2, QuotientOrder, StakingConstants
<1> HIDE DEF a
<1>5. b(x) <= b(y)
  BY <1>3, <1>4, QuotientOrder, StakingConstants DEF b
<1> HIDE DEF b
<1>6. b(x) \div USDC_UNIT <= b(y) \div USDC_UNIT
  BY <1>3, <1>5, QuotientOrder, StakingConstants
<1> QED BY <1>6 DEF RewardFor, b, a, x, y

LEMMA NoTimeNoReward ==
  ASSUME NEW amount \in Nat
  PROVE  RewardFor(amount, 0) = 0
<1>1. amount * REWARD_RATE * 0 = 0
  BY StakingConstants
<1>2. 0 \div BASIS_POINTS = 0 /\ 0 \div REWARD_INTERVAL = 0
      /\ 0 \div USDC_UNIT = 0
  BY StakingConstants
<1> QED BY <1>1, <1>2 DEF RewardFor
-----------------------------------------------------------------------------
(***************************************************************************)
(* The inductive invariant of the pool.  What a user has received and      *)
(* stored, and what the open period earns without truncation, stay below   *)
(* the exact reward of the WETH-seconds so far; and the pool's balance is  *)
(* the sum of the stakes.                                                  *)
(***************************************************************************)
Honest(s, h, time) ==
  /\ s.lastRewardTime <= time
  /\ s.amount > 0 => s.lastRewardTime > 0
  /\ (h.received + s.storedReward) * Divisor
       + s.amount * REWARD_RATE * (time - s.lastRewardTime)
       <= REWARD_RATE * h.wethSeconds

PoolInv ==
  /\ TypeOK
  /\ \A u \in Users : Honest(stakes[u], history[u], now)
  /\ PrincipalCovered

HistoryInfo == [wethSeconds : Nat, received : Nat]

(* Storing a reward keeps a stake honest: the truncated reward replaces    *)
(* the exact one of the period that ends.                                  *)
LEMMA SettledHonest ==
  ASSUME NEW s \in StakeInfo, NEW h \in HistoryInfo, now \in Nat,
         Honest(s, h, now)
  PROVE  /\ CurrentReward(s) \in Nat
         /\ Settled(s) \in StakeInfo
         /\ Settled(s).amount = s.amount
         /\ Settled(s).startTime = s.startTime
         /\ Settled(s).lastRewardTime = now
         /\ Settled(s).storedReward
              = s.storedReward + CurrentReward(s)
         /\ (h.received + Settled(s).storedReward) * Divisor
              <= REWARD_RATE * h.wethSeconds
<1> DEFINE c == CurrentReward(s)
           e == now - s.lastRewardTime
           x == s.amount * REWARD_RATE * e
           r == h.received + s.storedReward
<1>1. s.amount \in Nat /\ s.storedReward \in Nat /\ s.lastRewardTime \in Nat
      /\ h.received \in Nat /\ h.wethSeconds \in Nat /\ e \in Nat
  BY DEF StakeInfo, HistoryInfo, Honest
<1>2. c \in Nat /\ c * Divisor <= x /\ x \in Nat
  <2>1. /\ RewardFor(s.amount, e) \in Nat
        /\ x \in Nat
        /\ RewardFor(s.amount, e) * Divisor <= x
    BY <1>1, RewardType, RewardBelowExact
  <2>2. 0 * Divisor = 0
    BY DivisorIsNat
  <2> QED BY <2>1, <2>2 DEF CurrentReward
<1>3. r \in Nat /\ r * Divisor + x <= REWARD_RATE * h.wethSeconds
  BY <1>1 DEF Honest
<1>4. Settled(s) = [s EXCEPT !.storedReward = s.storedReward + c,
                             !.lastRewardTime = now]
  BY DEF Settled
<1> HIDE DEF c, x
<1>5. s.storedReward + c \in Nat
  BY <1>1, <1>2
<1>6. /\ Settled(s) \in StakeInfo
      /\ Settled(s).amount = s.amount
      /\ Settled(s).startTime = s.startTime
      /\ Settled(s).lastRewardTime = now
      /\ Settled(s).storedReward = s.storedReward + c
  BY <1>4, <1>5 DEF StakeInfo
<1>7. (r + c) * Divisor <= REWARD_RATE * h.wethSeconds
  <2> HIDE DEF r
  <2> DEFINE limit == REWARD_RATE * h.wethSeconds
  <2>1. limit \in Nat
    BY <1>1, StakingConstants
  <2>2. (r + c) * Divisor = r * Divisor + c * Divisor
        /\ r * Divisor \in Nat /\ c * Divisor \in Nat
    BY <1>2, <1>3, DivisorIsNat
  <2>3. r * Divisor + x <= limit
    BY <1>3
  <2> HIDE DEF limit
  <2>4. (r + c) * Divisor <= limit
    BY <2>1, <2>2, <2>3, <1>2
  <2> QED BY <2>4 DEF limit
<1>8. h.received + Settled(s).storedReward = r + c
  BY <1>1, <1>2, <1>6
<1> QED BY <1>2, <1>6, <1>7, <1>8 DEF c

(* A stake whose period has just begun is honest whatever its amount.      *)
LEMMA FreshHonest ==
  ASSUME NEW s \in StakeInfo, NEW h \in HistoryInfo, now \in Nat \ {0},
         s.lastRewardTime = now,
         (h.received + s.storedReward) * Divisor <= REWARD_RATE * h.wethSeconds
  PROVE  Honest(s, h, now)
<1>1. s.amount * REWARD_RATE \in Nat /\ now - s.lastRewardTime = 0
  BY StakingConstants DEF StakeInfo
<1>2. s.amount * REWARD_RATE * (now - s.lastRewardTime) = 0
  BY <1>1
<1>3. (h.received + s.storedReward) * Divisor \in Nat
  BY DivisorIsNat DEF StakeInfo, HistoryInfo
<1> QED BY <1>2, <1>3 DEF Honest

(* One more second: the exact reward of both sides grows by the same.      *)
LEMMA TickHonest ==
  ASSUME NEW s \in StakeInfo, NEW h \in HistoryInfo, NEW time \in Nat,
         Honest(s, h, time)
  PROVE  /\ [h EXCEPT !.wethSeconds = h.wethSeconds + s.amount] \in HistoryInfo
         /\ Honest(s, [h EXCEPT !.wethSeconds = h.wethSeconds + s.amount],
                   time + 1)
<1> DEFINE a == s.amount
           w == h.wethSeconds
           e == time - s.lastRewardTime
           g == [h EXCEPT !.wethSeconds = h.wethSeconds + s.amount]
           r == (h.received + s.storedReward) * Divisor
           k == REWARD_RATE
<1>1. /\ a \in Nat /\ w \in Nat /\ e \in Nat /\ r \in Nat /\ k \in Nat
      /\ s.lastRewardTime \in Nat
      /\ r + a * k * e <= k * w
  <2>1. /\ a \in Nat /\ w \in Nat /\ k \in Nat /\ s.lastRewardTime \in Nat
        /\ h.received + s.storedReward \in Nat
    BY StakingConstants DEF StakeInfo, HistoryInfo
  <2>2. e \in Nat
    BY <2>1 DEF Honest
  <2>3. r \in Nat
    BY <2>1, DivisorIsNat
  <2> QED BY <2>1, <2>2, <2>3 DEF Honest
<1>2. g \in HistoryInfo /\ g.wethSeconds = w + a /\ g.received = h.received
  BY DEF StakeInfo, HistoryInfo
<1>3. (time + 1) - s.lastRewardTime = e + 1 /\ s.lastRewardTime <= time + 1
  BY <1>1
<1>4. r + a * k * (e + 1) <= k * (w + a)
  <2> HIDE DEF r, a, w, e, k
  <2> DEFINE p == a * k
  <2>1. p \in Nat /\ p = k * a
    BY <1>1
  <2>2. k * (w + a) = k * w + p
    BY <1>1
  <2> HIDE DEF p
  <2>3. p * (e + 1) = p * e + p /\ p * e \in Nat
    BY <1>1, <2>1
  <2>4. k * w \in Nat /\ r + p * e <= k * w
    BY <1>1 DEF p
  <2>5. r + p * (e + 1) <= k * (w + a)
    BY <2>1, <2>2, <2>3, <2>4, <1>1
  <2> QED BY <2>5 DEF p
<1>5. s.amount > 0 => s.lastRewardTime > 0
  BY DEF Honest
<1> HIDE DEF g
<1>6. Honest(s, g, time + 1)
  BY <1>2, <1>3, <1>4, <1>5 DEF Honest
<1> QED BY <1>2, <1>6 DEF g

-----------------------------------------------------------------------------
(* The sum of the instance is the sum of FiniteSums.                       *)
LEMMA PoolSum ==
  ASSUME NEW f
  PROVE  SumFunction(f) = SumFunction(f)
BY DEF SumFunction, SumFunctionOnSet, FoldFunctionOnSet, MapThenFoldSet,
       SumFunction, SumFunctionOnSet, FoldFunctionOnSet,
       MapThenFoldSet

LEMMA PoolInit == Init => PoolInv
<1> SUFFICES ASSUME Init PROVE PoolInv
  OBVIOUS
<1>1. TypeOK
  BY DEF Init, TypeOK, StakeInfo
<1>2. ASSUME NEW u \in Users PROVE Honest(stakes[u], history[u], now)
  <2>1. /\ stakes[u].amount = 0 /\ stakes[u].lastRewardTime = 0
        /\ stakes[u].storedReward = 0 /\ history[u].received = 0
        /\ history[u].wethSeconds = 0 /\ now = 1
    BY DEF Init
  <2>2. 0 * Divisor = 0 /\ 0 * REWARD_RATE * 1 = 0 /\ REWARD_RATE * 0 = 0
    BY DivisorIsNat, StakingConstants
  <2> QED BY <2>1, <2>2 DEF Honest
<1>3. PrincipalCovered
  <2> DEFINE amounts == [u \in Users |-> stakes[u].amount]
  <2>1. amounts \in [Users -> Nat] /\ \A u \in Users : amounts[u] = 0
    BY DEF Init
  <2> HIDE DEF amounts
  <2>2. SumFunction(amounts) = 0
    BY <2>1, StakingConstants, SumOfZeros
  <2>3. stakedWeth = SumFunction(amounts)
    BY <2>2, PoolSum DEF Init
  <2> QED BY <2>3 DEF PrincipalCovered, amounts
<1> QED BY <1>1, <1>2, <1>3 DEF PoolInv

(* The pool's balance follows the one stake that an operation replaces.    *)
LEMMA BalanceFollows ==
  ASSUME PoolInv, NEW u \in Users, NEW s \in StakeInfo,
         stakes' = [stakes EXCEPT ![u] = s],
         stakedWeth' + stakes[u].amount = stakedWeth + s.amount,
         stakedWeth' \in Nat
  PROVE  PrincipalCovered'
<1> DEFINE f == [v \in Users |-> stakes[v].amount]
           h == [v \in Users |-> stakes'[v].amount]
<1>1. f \in [Users -> Nat] /\ stakedWeth = SumFunction(f)
  <2>1. stakedWeth = SumFunction(f)
    BY DEF PoolInv, PrincipalCovered
  <2>2. f \in [Users -> Nat]
    BY DEF PoolInv, TypeOK, StakeInfo
  <2> QED BY <2>1, <2>2, PoolSum
<1>2. stakes'[u] = s /\ \A v \in Users \ {u} : stakes'[v] = stakes[v]
  BY DEF PoolInv, TypeOK
<1>3. h \in [Users -> Nat] /\ h[u] = s.amount /\ f[u] = stakes[u].amount
      /\ \A v \in Users \ {u} : h[v] = f[v]
  BY <1>2 DEF PoolInv, TypeOK, StakeInfo
<1> HIDE DEF f, h
<1>4. SumFunction(h) + f[u] = SumFunction(f) + h[u]
      /\ SumFunction(h) \in Nat /\ f[u] \in Nat
  BY <1>1, <1>3, StakingConstants, SumReplaced, SumIsNatural
<1>5. stakedWeth' = SumFunction(h)
  BY <1>1, <1>3, <1>4, PoolSum
<1> QED BY <1>5 DEF PrincipalCovered, h

LEMMA BalanceStays ==
  ASSUME PoolInv, stakes' = stakes, stakedWeth' = stakedWeth
  PROVE  PrincipalCovered'
BY DEF PoolInv, PrincipalCovered

(* An operation of user u that leaves a well-formed, honest stake and      *)
(* history behind keeps the invariant.                                     *)
LEMMA OneUserStep ==
  ASSUME PoolInv, NEW u \in Users,
         NEW s \in StakeInfo, NEW h \in HistoryInfo,
         stakes' = [stakes EXCEPT ![u] = s],
         history' = [history EXCEPT ![u] = h],
         Honest(s, h, now), now' = now,
         stakedWeth' + stakes[u].amount = stakedWeth + s.amount,
         stakedWeth' \in Nat, rewardUsdc' \in Nat
  PROVE  PoolInv'
<1>1. TypeOK'
  BY DEF PoolInv, TypeOK, HistoryInfo
<1>2. ASSUME NEW v \in Users PROVE Honest(stakes'[v], history'[v], now')
  <2>1. CASE v = u
    BY <2>1 DEF PoolInv, TypeOK
  <2>2. CASE v # u
    BY <2>2 DEF PoolInv, TypeOK
  <2> QED BY <2>1, <2>2
<1> QED BY <1>1, <1>2, BalanceFollows DEF PoolInv

(* The same when the history does not change.                              *)
LEMMA OneStakeStep ==
  ASSUME PoolInv, NEW u \in Users, NEW s \in StakeInfo,
         stakes' = [stakes EXCEPT ![u] = s], history' = history,
         s.lastRewardTime = now, now' = now,
         (history[u].received + s.storedReward) * Divisor
           <= REWARD_RATE * history[u].wethSeconds,
         stakedWeth' + stakes[u].amount = stakedWeth + s.amount,
         stakedWeth' \in Nat, rewardUsdc' \in Nat
  PROVE  PoolInv'
<1>1. history[u] \in HistoryInfo /\ now \in Nat \ {0}
      /\ history = [history EXCEPT ![u] = history[u]]
  BY DEF PoolInv, TypeOK, HistoryInfo
<1>2. Honest(s, history[u], now)
  BY <1>1, FreshHonest
<1> QED BY <1>1, <1>2, OneUserStep

LEMMA UserFacts ==
  ASSUME PoolInv, NEW u \in Users
  PROVE  /\ stakes[u] \in StakeInfo /\ history[u] \in HistoryInfo
         /\ now \in Nat \ {0}
         /\ Honest(stakes[u], history[u], now)
         /\ stakedWeth \in Nat /\ rewardUsdc \in Nat
BY DEF PoolInv, TypeOK, HistoryInfo
-----------------------------------------------------------------------------
(* The stakes that stake and withdraw store.                               *)
LEMMA StakedShape ==
  ASSUME PoolInv, NEW v \in Users, NEW amount \in Nat
  PROVE  /\ Staked(stakes[v], amount) \in StakeInfo
         /\ Staked(stakes[v], amount).amount = stakes[v].amount + amount
         /\ Staked(stakes[v], amount).lastRewardTime = now
         /\ Staked(stakes[v], amount).storedReward
              = Settled(stakes[v]).storedReward
<1> DEFINE t == Settled(stakes[v])
           n == stakes[v].amount + amount
           m == IF stakes[v].startTime = 0 THEN now ELSE stakes[v].startTime
           s == Staked(stakes[v], amount)
<1>1. t \in StakeInfo /\ t.lastRewardTime = now
  BY UserFacts, SettledHonest
<1>2. n \in Nat /\ m \in Nat
  BY UserFacts DEF StakeInfo
<1>3. s = [t EXCEPT !.amount = n, !.startTime = m]
  BY DEF Staked
<1> HIDE DEF t, n, m, s
<1>4. s \in StakeInfo /\ s.amount = n /\ s.lastRewardTime = now
      /\ s.storedReward = t.storedReward
  BY <1>1, <1>2, <1>3 DEF StakeInfo
<1> QED BY <1>4 DEF s, t, n

LEMMA StakeLeftShape ==
  ASSUME PoolInv, NEW v \in Users, NEW amount \in Nat,
         amount <= stakes[v].amount
  PROVE  /\ StakeLeft(stakes[v], amount) \in StakeInfo
         /\ StakeLeft(stakes[v], amount).amount
              = stakes[v].amount - amount
         /\ StakeLeft(stakes[v], amount).lastRewardTime = now
         /\ StakeLeft(stakes[v], amount).storedReward
              = Settled(stakes[v]).storedReward
<1> DEFINE t == Settled(stakes[v])
           n == stakes[v].amount - amount
           s == StakeLeft(stakes[v], amount)
<1>1. t \in StakeInfo /\ t.lastRewardTime = now
  BY UserFacts, SettledHonest
<1>2. n \in Nat
  BY UserFacts DEF StakeInfo
<1>3. s = [t EXCEPT !.amount = n]
  BY DEF StakeLeft
<1> HIDE DEF t, n, s
<1>4. s \in StakeInfo /\ s.amount = n /\ s.lastRewardTime = now
      /\ s.storedReward = t.storedReward
  BY <1>1, <1>2, <1>3 DEF StakeInfo
<1> QED BY <1>4 DEF s, t, n

(* One lemma per operation that moves a stake.                             *)
LEMMA StoreInvariant ==
  ASSUME PoolInv, NEW u \in Users, StoreCurrentRewards(u)
  PROVE  PoolInv'
<1>1. /\ history' = history /\ now' = now
      /\ stakedWeth' = stakedWeth /\ rewardUsdc' = rewardUsdc
  BY DEF StoreCurrentRewards
<1>2. CASE stakes[u].amount = 0
  <2>1. stakes' = stakes
    BY <1>2 DEF StoreCurrentRewards
  <2> QED BY <1>1, <2>1, BalanceStays DEF PoolInv, TypeOK, Honest
<1>3. CASE stakes[u].amount # 0
  <2>1. stakes' = [stakes EXCEPT ![u] = Settled(stakes[u])]
    BY <1>3 DEF StoreCurrentRewards
  <2> QED BY <1>1, <2>1, UserFacts, SettledHonest, OneStakeStep
<1> QED BY <1>2, <1>3

LEMMA ContinueInvariant ==
  ASSUME PoolInv, NEW u \in Users, ContinueStaking(u)
  PROVE  PoolInv'
<1> DEFINE s == [stakes[u] EXCEPT !.lastRewardTime = now]
<1>1. stakes' = [stakes EXCEPT ![u] = s]
      /\ history' = history /\ now' = now
      /\ stakedWeth' = stakedWeth /\ rewardUsdc' = rewardUsdc
  BY DEF ContinueStaking
<1>2. s \in StakeInfo /\ s.lastRewardTime = now
      /\ s.storedReward = stakes[u].storedReward
      /\ s.amount = stakes[u].amount
  BY UserFacts DEF StakeInfo
<1>3. (history[u].received + stakes[u].storedReward) * Divisor
        <= REWARD_RATE * history[u].wethSeconds
  <2> DEFINE r == (history[u].received + stakes[u].storedReward) * Divisor
             a == stakes[u].amount * REWARD_RATE
             e == now - stakes[u].lastRewardTime
  <2>1. r + a * e <= REWARD_RATE * history[u].wethSeconds
    BY UserFacts DEF Honest
  <2>2. history[u].received + stakes[u].storedReward \in Nat /\ a \in Nat
    BY UserFacts, StakingConstants DEF StakeInfo, HistoryInfo
  <2>3. e \in Nat
    BY UserFacts DEF StakeInfo, Honest
  <2>4. r \in Nat
    BY <2>2, DivisorIsNat
  <2>5. a * e \in Nat
    <3> HIDE DEF a, e
    <3> QED BY <2>2, <2>3
  <2>6. REWARD_RATE * history[u].wethSeconds \in Nat
    BY UserFacts, StakingConstants DEF HistoryInfo
  <2> HIDE DEF r, a, e
  <2>7. r <= REWARD_RATE * history[u].wethSeconds
    BY <2>1, <2>4, <2>5, <2>6
  <2> QED BY <2>7 DEF r
<1> HIDE DEF s
<1> QED BY <1>1, <1>2, <1>3, UserFacts, OneStakeStep

LEMMA StakeInvariant ==
  ASSUME PoolInv, NEW u \in Users, NEW amount \in Amounts,
         Stake(u, amount)
  PROVE  PoolInv'
<1> DEFINE s == Staked(stakes[u], amount)
<1>1. stakes' = [stakes EXCEPT ![u] = s]
      /\ history' = history /\ now' = now
      /\ stakedWeth' = stakedWeth + amount /\ rewardUsdc' = rewardUsdc
  BY DEF Stake
<1>2. amount \in Nat
  BY StakingConstants
<1>3. s \in StakeInfo /\ s.lastRewardTime = now
      /\ s.storedReward = Settled(stakes[u]).storedReward
      /\ s.amount = stakes[u].amount + amount
  BY <1>2, StakedShape
<1>4. stakedWeth' \in Nat
  BY <1>1, <1>2, UserFacts
<1>5. stakedWeth' + stakes[u].amount = stakedWeth + s.amount
  BY <1>1, <1>2, <1>3, UserFacts DEF StakeInfo
<1> HIDE DEF s
<1> QED BY <1>1, <1>3, <1>4, <1>5, UserFacts, SettledHonest, OneStakeStep

LEMMA WithdrawInvariant ==
  ASSUME PoolInv, NEW u \in Users, NEW amount \in Amounts,
         Withdraw(u, amount)
  PROVE  PoolInv'
<1> DEFINE s == StakeLeft(stakes[u], amount)
<1>1. stakes' = [stakes EXCEPT ![u] = s]
      /\ history' = history /\ now' = now
      /\ amount <= stakes[u].amount /\ amount <= stakedWeth
      /\ stakedWeth' = stakedWeth - amount /\ rewardUsdc' = rewardUsdc
  BY DEF Withdraw
<1>2. amount \in Nat
  BY StakingConstants
<1>3. s \in StakeInfo /\ s.lastRewardTime = now
      /\ s.storedReward = Settled(stakes[u]).storedReward
      /\ s.amount = stakes[u].amount - amount
  BY <1>1, <1>2, StakeLeftShape
<1>4. stakedWeth' \in Nat
  BY <1>1, <1>2, UserFacts
<1>5. stakedWeth' + stakes[u].amount = stakedWeth + s.amount
  BY <1>1, <1>2, <1>3, UserFacts DEF StakeInfo
<1> HIDE DEF s
<1> QED BY <1>1, <1>3, <1>4, <1>5, UserFacts, SettledHonest, OneStakeStep

(* A claim moves the stored reward to the received one.                    *)
LEMMA ClaimInvariant ==
  ASSUME PoolInv, NEW u \in Users, ClaimReward(u)
  PROVE  PoolInv'
<1> DEFINE s == IF stakes[u].amount > 0 THEN Settled(stakes[u])
                                        ELSE stakes[u]
           total == s.storedReward
           t == [s EXCEPT !.storedReward = 0]
           h == [history[u] EXCEPT !.received = history[u].received + total]
<1>1. /\ stakes' = [stakes EXCEPT ![u] = t]
      /\ history' = [history EXCEPT ![u] = h]
      /\ now' = now /\ stakedWeth' = stakedWeth
      /\ total <= rewardUsdc /\ rewardUsdc' = rewardUsdc - total
  BY UserFacts DEF ClaimReward, PoolInv, TypeOK
<1>2. s \in StakeInfo /\ total \in Nat
  <2>1. {Settled(stakes[u]), stakes[u]} \subseteq StakeInfo
    BY UserFacts, SettledHonest
  <2>2. s \in StakeInfo
    BY <2>1
  <2> HIDE DEF s
  <2> QED BY <2>2 DEF StakeInfo
<1>3. Honest(s, history[u], now)
  <2>1. CASE stakes[u].amount > 0
    <3>1. s = Settled(stakes[u])
      BY <2>1
    <3> QED BY <3>1, <1>2, UserFacts, SettledHonest, FreshHonest
  <2>2. CASE ~(stakes[u].amount > 0)
    BY <2>2, UserFacts
  <2> QED BY <2>1, <2>2
<1>a. s.amount = stakes[u].amount
  BY UserFacts, SettledHonest
<1> HIDE DEF s
<1>4. /\ t \in StakeInfo /\ t.amount = s.amount /\ t.storedReward = 0
      /\ t.lastRewardTime = s.lastRewardTime
  BY <1>2 DEF StakeInfo
<1>5. history[u] \in HistoryInfo
  BY UserFacts
<1>6. h \in HistoryInfo /\ h.received = history[u].received + total
      /\ h.wethSeconds = history[u].wethSeconds
  BY <1>2, <1>5 DEF HistoryInfo
<1>7. h.received + t.storedReward = history[u].received + s.storedReward
  BY <1>2, <1>4, <1>5, <1>6 DEF HistoryInfo
<1> HIDE DEF t, h
<1>8. Honest(t, h, now)
  BY <1>3, <1>4, <1>6, <1>7 DEF Honest
<1>9. rewardUsdc' \in Nat
  BY <1>1, <1>2, UserFacts
<1>10. stakedWeth' + stakes[u].amount = stakedWeth + t.amount
       /\ stakedWeth' \in Nat
  <2>1. t.amount = stakes[u].amount
    BY <1>4, <1>a
  <2> QED BY <1>1, <2>1, UserFacts
<1> QED BY <1>1, <1>4, <1>6, <1>8, <1>9, <1>10, UserFacts, OneUserStep

LEMMA ReplenishInvariant ==
  ASSUME PoolInv, NEW amount \in Grants, ReplenishRewards(amount)
  PROVE  PoolInv'
<1>1. amount \in Nat
  BY StakingConstants
<1>2. PrincipalCovered'
  BY BalanceStays DEF ReplenishRewards
<1> QED BY <1>1, <1>2 DEF ReplenishRewards, PoolInv, TypeOK

LEMMA TickInvariant ==
  ASSUME PoolInv, Tick
  PROVE  PoolInv'
<1> DEFINE g(u) == [history[u] EXCEPT
                     !.wethSeconds = history[u].wethSeconds + stakes[u].amount]
<1>1. /\ now' = now + 1 /\ stakes' = stakes
      /\ stakedWeth' = stakedWeth /\ rewardUsdc' = rewardUsdc
      /\ history' = [u \in Users |-> g(u)]
  BY DEF Tick
<1>2. ASSUME NEW u \in Users
      PROVE  g(u) \in HistoryInfo /\ Honest(stakes[u], g(u), now + 1)
  <2>1. now \in Nat
    BY UserFacts
  <2> QED BY <2>1, UserFacts, TickHonest
<1> HIDE DEF g
<1>3. TypeOK'
  BY <1>1, <1>2 DEF PoolInv, TypeOK, HistoryInfo
<1>4. \A u \in Users : Honest(stakes'[u], history'[u], now')
  BY <1>1, <1>2
<1> QED BY <1>1, <1>3, <1>4, BalanceStays DEF PoolInv

-----------------------------------------------------------------------------
(* Every step of the pool keeps the invariant.                             *)
LEMMA PoolStep ==
  ASSUME PoolInv, [Next]_vars
  PROVE  PoolInv'
<1>1. ASSUME NEW u \in Users, StoreCurrentRewards(u) PROVE PoolInv'
  BY <1>1, StoreInvariant
<1>2. ASSUME NEW u \in Users, ContinueStaking(u) PROVE PoolInv'
  BY <1>2, ContinueInvariant
<1>3. ASSUME NEW u \in Users, ClaimReward(u) PROVE PoolInv'
  BY <1>3, ClaimInvariant
<1>4. ASSUME NEW u \in Users, NEW amount \in Amounts, Stake(u, amount)
      PROVE  PoolInv'
  BY <1>4, StakeInvariant
<1>5. ASSUME NEW u \in Users, NEW amount \in Amounts,
             Withdraw(u, amount)
      PROVE  PoolInv'
  BY <1>5, WithdrawInvariant
<1>6. ASSUME NEW amount \in Grants, ReplenishRewards(amount)
      PROVE  PoolInv'
  BY <1>6, ReplenishInvariant
<1>7. CASE Tick
  BY <1>7, TickInvariant
<1>8. CASE UNCHANGED vars
  BY <1>8, BalanceStays DEF vars, PoolInv, TypeOK, Honest
<1> QED BY <1>1, <1>2, <1>3, <1>4, <1>5, <1>6, <1>7, <1>8 DEF Next

(* The invariant of StakingPool: types, honesty of every stake, and the    *)
(* balance.                                                                *)
THEOREM PoolInvariance == Spec => []PoolInv
<1>1. PoolInv /\ [Next]_vars => PoolInv'
  BY PoolStep
<1> QED BY <1>1, PoolInit, PTL DEF Spec

(* Stakes, balances and rewards are always natural numbers: no operation   *)
(* can drive one below zero.                                               *)
THEOREM PoolTypeCorrect == Spec => []TypeOK
<1>1. PoolInv => TypeOK
  BY DEF PoolInv
<1> QED BY <1>1, PoolInvariance, PTL

(* The pool holds exactly what its users have staked, however many of them *)
(* stake, withdraw and claim in whatever order: the withdrawal of a whole  *)
(* stake never fails for want of WETH.                                     *)
THEOREM PrincipalIsCovered == Spec => []PrincipalCovered
<1>1. PoolInv => PrincipalCovered
  BY DEF PoolInv
<1> QED BY <1>1, PoolInvariance, PTL

(* So the guard of Withdraw on the pool's balance never bites: whoever     *)
(* comes first or last, the whole stake is there.                          *)
THEOREM EveryStakeIsThere ==
  Spec => [](\A u \in Users : stakes[u].amount <= stakedWeth)
<1>1. PoolInv => \A u \in Users : stakes[u].amount <= stakedWeth
  <2> SUFFICES ASSUME PoolInv, NEW u \in Users
               PROVE  stakes[u].amount <= stakedWeth
    OBVIOUS
  <2> DEFINE f == [v \in Users |-> stakes[v].amount]
  <2>1. f \in [Users -> Nat] /\ f[u] = stakes[u].amount
    BY DEF PoolInv, TypeOK, StakeInfo
  <2>2. stakedWeth = SumFunction(f)
    BY DEF PoolInv, PrincipalCovered
  <2> HIDE DEF f
  <2>3. f[u] <= SumFunction(f)
    BY <2>1, StakingConstants, TermInSum
  <2> QED BY <2>1, <2>2, <2>3, PoolSum
<1> QED BY <1>1, PoolInvariance, PTL

(* Whatever a user does, and whatever is pending included, a user never    *)
(* gets more than the rate for the WETH-seconds spent in the pool.         *)
THEOREM NobodyIsOverpaid == Spec => []NeverOverpaid
<1>1. PoolInv => NeverOverpaid
  <2> SUFFICES ASSUME PoolInv, NEW u \in Users
               PROVE  Received(u) * Divisor
                        <= REWARD_RATE * history[u].wethSeconds
    BY DEF NeverOverpaid, Divisor
  <2>1. CASE stakes[u].amount > 0
    <3>1. /\ Settled(stakes[u]).storedReward
               = PendingReward(stakes[u])
          /\ (history[u].received + Settled(stakes[u]).storedReward)
               * Divisor
               <= REWARD_RATE * history[u].wethSeconds
      BY <2>1, UserFacts, SettledHonest DEF PendingReward
    <3> QED BY <3>1 DEF Received
  <2>2. CASE ~(stakes[u].amount > 0)
    <3>1. stakes[u].amount = 0 /\ stakes[u].storedReward \in Nat
          /\ stakes[u].lastRewardTime \in Nat
      BY <2>2, UserFacts DEF StakeInfo
    <3>2. PendingReward(stakes[u]) = stakes[u].storedReward
      BY <3>1 DEF PendingReward
    <3>3. now - stakes[u].lastRewardTime \in Nat
      BY <3>1, UserFacts DEF Honest
    <3>4. stakes[u].amount * REWARD_RATE * (now - stakes[u].lastRewardTime) = 0
      BY <3>1, <3>3, StakingConstants
    <3>5. (history[u].received + stakes[u].storedReward) * Divisor \in Nat
      BY <3>1, UserFacts, DivisorIsNat DEF HistoryInfo
    <3> QED BY <3>2, <3>4, <3>5, UserFacts DEF Received, Honest
  <2> QED BY <2>1, <2>2
<1> QED BY <1>1, PoolInvariance, PTL
-----------------------------------------------------------------------------
(* What a stake shows as pending right after its reward was stored.        *)
LEMMA PendingOfFresh ==
  ASSUME NEW s \in StakeInfo, s.lastRewardTime = now, now \in Nat
  PROVE  PendingReward(s) = s.storedReward
<1>1. RewardFor(s.amount, now - s.lastRewardTime) = 0
  <2>1. now - s.lastRewardTime = 0 /\ s.amount \in Nat
    BY DEF StakeInfo
  <2> QED BY <2>1, NoTimeNoReward
<1>2. s.storedReward \in Nat
  BY DEF StakeInfo
<1> QED BY <1>1, <1>2 DEF PendingReward, CurrentReward

LEMMA PendingOfAny ==
  ASSUME NEW s \in StakeInfo, NEW h \in HistoryInfo, now \in Nat,
         Honest(s, h, now)
  PROVE  /\ PendingReward(s) \in Nat
         /\ PendingReward(s) = s.storedReward + CurrentReward(s)
         /\ PendingReward(s) = Settled(s).storedReward
<1>1. CurrentReward(s) \in Nat
      /\ Settled(s).storedReward = s.storedReward + CurrentReward(s)
  BY SettledHonest
<1>2. s.storedReward \in Nat /\ s.amount \in Nat
  BY DEF StakeInfo
<1>3. ~(s.amount > 0) => CurrentReward(s) = 0
  BY <1>2 DEF CurrentReward
<1> QED BY <1>1, <1>2, <1>3 DEF PendingReward

(* An untouched stake shows the same at the same time.                     *)
LEMMA PendingUntouched ==
  ASSUME NEW u \in Users, stakes'[u] = stakes[u], now' = now
  PROVE  PendingReward(stakes[u])' = PendingReward(stakes[u])
BY DEF PendingReward, CurrentReward

(* Storing, staking and withdrawing neither add to nor take from what is   *)
(* pending: the new stake starts a period and stores the old pending.      *)
LEMMA PendingSettled ==
  ASSUME PoolInv, NEW u \in Users, NEW v \in Users, NEW s \in StakeInfo,
         stakes' = [stakes EXCEPT ![v] = s], now' = now,
         s.lastRewardTime = now,
         s.storedReward = Settled(stakes[v]).storedReward
  PROVE  PendingReward(stakes[u])' = PendingReward(stakes[u])
<1>1. CASE u # v
  BY <1>1, PendingUntouched DEF PoolInv, TypeOK
<1>2. CASE u = v
  <2>1. stakes'[u] = s
    BY <1>2 DEF PoolInv, TypeOK
  <2>2. PendingReward(stakes[u])' = PendingReward(s)
    BY <2>1 DEF PendingReward, CurrentReward
  <2>3. PendingReward(s) = s.storedReward
    BY PendingOfFresh, UserFacts
  <2>4. PendingReward(stakes[u]) = Settled(stakes[u]).storedReward
    BY UserFacts, PendingOfAny
  <2> QED BY <1>2, <2>2, <2>3, <2>4
<1> QED BY <1>1, <1>2

(* A claim pays what was pending and leaves nothing pending.               *)
LEMMA PendingClaimed ==
  ASSUME PoolInv, NEW u \in Users, ClaimReward(u)
  PROVE  /\ PendingReward(stakes[u])' = 0
         /\ history'[u].received
              = history[u].received + PendingReward(stakes[u])
<1> DEFINE s == IF stakes[u].amount > 0 THEN Settled(stakes[u])
                                        ELSE stakes[u]
           t == [s EXCEPT !.storedReward = 0]
<1>1. /\ stakes' = [stakes EXCEPT ![u] = t] /\ now' = now
      /\ history' = [history EXCEPT
           ![u].received = history[u].received + s.storedReward]
  BY UserFacts DEF ClaimReward
<1>2. s \in StakeInfo
  <2>1. {Settled(stakes[u]), stakes[u]} \subseteq StakeInfo
    BY UserFacts, SettledHonest
  <2> QED BY <2>1
<1>3. s.storedReward = PendingReward(stakes[u])
  <2>1. CASE stakes[u].amount > 0
    BY <2>1, UserFacts, PendingOfAny
  <2>2. CASE ~(stakes[u].amount > 0)
    <3>1. stakes[u].amount = 0 /\ stakes[u].storedReward \in Nat
      BY <2>2, UserFacts DEF StakeInfo
    <3> QED BY <3>1 DEF PendingReward
  <2> QED BY <2>1, <2>2
<1>4. s.amount > 0 => s.lastRewardTime = now
  <2>1. CASE stakes[u].amount > 0
    BY <2>1, UserFacts, SettledHonest
  <2>2. CASE ~(stakes[u].amount > 0)
    BY <2>2
  <2> QED BY <2>1, <2>2
<1> HIDE DEF s
<1>5. /\ t \in StakeInfo /\ t.amount = s.amount /\ t.storedReward = 0
      /\ t.lastRewardTime = s.lastRewardTime
  BY <1>2 DEF StakeInfo
<1>6. PendingReward(stakes[u])' = PendingReward(t)
  <2>1. stakes'[u] = t
    BY <1>1 DEF PoolInv, TypeOK
  <2> QED BY <2>1, <1>1 DEF PendingReward, CurrentReward
<1> HIDE DEF t
<1>7. PendingReward(t) = 0
  <2>1. CASE t.amount > 0
    BY <2>1, <1>4, <1>5, PendingOfFresh, UserFacts
  <2>2. CASE ~(t.amount > 0)
    BY <2>2, <1>5 DEF PendingReward
  <2> QED BY <2>1, <2>2
<1>8. history'[u].received = history[u].received + s.storedReward
  BY <1>1, UserFacts DEF PoolInv, TypeOK
<1> QED BY <1>3, <1>6, <1>7, <1>8

(* With time a pending reward rises.                                       *)
LEMMA PendingRises ==
  ASSUME PoolInv, NEW u \in Users, Tick
  PROVE  /\ PendingReward(stakes[u])' \in Nat
         /\ PendingReward(stakes[u])' >= PendingReward(stakes[u])
<1> DEFINE a == stakes[u].amount
           l == stakes[u].lastRewardTime
           e == now - l
<1>1. a \in Nat /\ l \in Nat /\ e \in Nat /\ stakes[u].storedReward \in Nat
  BY UserFacts DEF StakeInfo, Honest
<1>2. stakes' = stakes /\ now' - l = e + 1
  <2>1. stakes' = stakes /\ now' = now + 1
    BY DEF Tick
  <2>2. now \in Nat
    BY UserFacts
  <2> QED BY <1>1, <2>1, <2>2
<1>3. /\ RewardFor(a, e) <= RewardFor(a, e + 1)
      /\ RewardFor(a, e) \in Nat /\ RewardFor(a, e + 1) \in Nat
  <2>1. e + 1 \in Nat
    BY <1>1
  <2> HIDE DEF a, e
  <2> QED BY <1>1, <2>1, RewardRises, RewardType
<1>4. CASE a = 0 \/ l = 0
  BY <1>1, <1>2, <1>4 DEF PendingReward, CurrentReward
<1>5. CASE ~(a = 0 \/ l = 0)
  <2>1. PendingReward(stakes[u])
          = stakes[u].storedReward + RewardFor(a, e)
    BY <1>1, <1>5 DEF PendingReward, CurrentReward
  <2>2. PendingReward(stakes[u])'
          = stakes[u].storedReward + RewardFor(a, e + 1)
    BY <1>1, <1>2, <1>5 DEF PendingReward, CurrentReward
  <2> HIDE DEF a, l, e
  <2> QED BY <1>1, <1>3, <2>1, <2>2
<1> QED BY <1>4, <1>5

(* Every step of the pool but continueStaking.                             *)
EarningStep ==
  \/ \E v \in Users :
       \/ StoreCurrentRewards(v)
       \/ ClaimReward(v)
       \/ \E amount \in Amounts : Stake(v, amount)
                                    \/ Withdraw(v, amount)
  \/ \E amount \in Grants : ReplenishRewards(amount)
  \/ Tick
  \/ UNCHANGED vars

(* Such a step lowers a pending reward only by paying it in full.          *)
LEMMA EarningPays ==
  ASSUME PoolInv, EarningStep, NEW u \in Users,
         PendingReward(stakes[u])' < PendingReward(stakes[u])
  PROVE  /\ PendingReward(stakes[u])' = 0
         /\ history'[u].received
              = history[u].received + PendingReward(stakes[u])
<1>a. PendingReward(stakes[u]) \in Nat
  BY UserFacts, PendingOfAny
<1>1. ASSUME NEW v \in Users, StoreCurrentRewards(v) PROVE FALSE
  <2>1. now' = now
    BY <1>1 DEF StoreCurrentRewards
  <2>2. CASE stakes[v].amount = 0
    <3>1. stakes'[u] = stakes[u]
      BY <1>1, <2>2 DEF StoreCurrentRewards
    <3> QED BY <2>1, <3>1, PendingUntouched, <1>a
  <2>3. CASE stakes[v].amount # 0
    <3>1. stakes' = [stakes EXCEPT ![v] = Settled(stakes[v])]
      BY <1>1, <2>3 DEF StoreCurrentRewards
    <3>2. PendingReward(stakes[u])' = PendingReward(stakes[u])
      BY <2>1, <3>1, UserFacts, SettledHonest, PendingSettled
    <3> QED BY <3>2, <1>a
  <2> QED BY <2>2, <2>3
<1>2. ASSUME NEW v \in Users, ClaimReward(v)
      PROVE  /\ PendingReward(stakes[u])' = 0
             /\ history'[u].received
                  = history[u].received + PendingReward(stakes[u])
  <2>1. CASE v # u
    <3>1. stakes'[u] = stakes[u] /\ now' = now
      BY <1>2, <2>1 DEF ClaimReward, PoolInv, TypeOK
    <3> QED BY <3>1, PendingUntouched, <1>a
  <2>2. CASE v = u
    BY <1>2, <2>2, PendingClaimed
  <2> QED BY <2>1, <2>2
<1>3. ASSUME NEW v \in Users, NEW amount \in Amounts, Stake(v, amount)
      PROVE  FALSE
  <2>1. /\ stakes' = [stakes EXCEPT ![v] = Staked(stakes[v], amount)]
        /\ now' = now /\ amount \in Nat
    BY <1>3, StakingConstants DEF Stake
  <2>2. PendingReward(stakes[u])' = PendingReward(stakes[u])
    BY <2>1, StakedShape, PendingSettled
  <2> QED BY <2>2, <1>a
<1>4. ASSUME NEW v \in Users, NEW amount \in Amounts,
             Withdraw(v, amount)
      PROVE  FALSE
  <2>1. /\ stakes' = [stakes EXCEPT ![v] = StakeLeft(stakes[v], amount)]
        /\ now' = now /\ amount \in Nat /\ amount <= stakes[v].amount
    BY <1>4, StakingConstants DEF Withdraw
  <2>2. PendingReward(stakes[u])' = PendingReward(stakes[u])
    BY <2>1, StakeLeftShape, PendingSettled
  <2> QED BY <2>2, <1>a
<1>5. CASE \/ \E amount \in Grants : ReplenishRewards(amount)
           \/ UNCHANGED vars
  <2>1. stakes'[u] = stakes[u] /\ now' = now
    BY <1>5 DEF ReplenishRewards, vars
  <2> QED BY <2>1, PendingUntouched, <1>a
<1>6. CASE Tick
  <2>1. PendingReward(stakes[u])' >= PendingReward(stakes[u])
        /\ PendingReward(stakes[u])' \in Nat
    BY <1>6, PendingRises
  <2> QED BY <2>1, <1>a
<1> QED BY <1>1, <1>2, <1>3, <1>4, <1>5, <1>6 DEF EarningStep

(* A pending reward disappears only by being paid in full, or by the       *)
(* user's own continueStaking.                                             *)
THEOREM RewardsAreKept == Spec => RewardNeverLost
<1>1. PoolInv /\ [Next]_vars => PendingIsKept
  <2> SUFFICES ASSUME PoolInv, [Next]_vars, NEW u \in Users,
                      PendingReward(stakes[u])'
                        < PendingReward(stakes[u])
               PROVE  \/ ContinueStaking(u)
                      \/ /\ PendingReward(stakes[u])' = 0
                         /\ history'[u].received = history[u].received
                                       + PendingReward(stakes[u])
    BY DEF PendingIsKept
  <2>1. CASE EarningStep
    BY <2>1, EarningPays
  <2>2. ASSUME NEW v \in Users, ContinueStaking(v)
        PROVE  ContinueStaking(u)
    <3>1. CASE v # u
      <4>1. stakes'[u] = stakes[u] /\ now' = now
        BY <2>2, <3>1 DEF ContinueStaking, PoolInv, TypeOK
      <4>2. PendingReward(stakes[u]) \in Nat
        BY UserFacts, PendingOfAny
      <4> QED BY <4>1, <4>2, PendingUntouched
    <3> QED BY <2>2, <3>1
  <2> QED BY <2>1, <2>2 DEF Next, EarningStep
<1>2. Spec => [][PendingIsKept]_(vars)
  BY <1>1, PoolInvariance, PTL DEF Spec
<1> QED BY <1>2 DEF RewardNeverLost
-----------------------------------------------------------------------------
(***************************************************************************)
(* The inductive invariant of the tab, over that of its pool: no period    *)
(* that it shows or is about to show begins in the future.                 *)
(***************************************************************************)
TabTimely      == tab.lastRewardTime <= now
SnapshotTimely == snapshot.read => snapshot.lastRewardTime <= now

TabInv ==
  /\ TabTypeOK
  /\ PoolInv
  /\ TabTimely /\ SnapshotTimely
  /\ DisabledByHandler

(* What the transactions of the contract keep: its own invariant, and the  *)
(* reward of the user until it is paid.                                    *)
Kept == PoolInv' /\ PendingOnlyPaid

LEMMA AccountStake ==
  ASSUME PoolInv
  PROVE  /\ Account \in Users
         /\ stakes[Account] \in StakeInfo
         /\ stakes[Account].lastRewardTime <= now
         /\ now \in Nat \ {0}
         /\ PendingReward(stakes[Account]) \in Nat
BY StakingConstants, TabConstants, UserFacts, PendingOfAny DEF Honest

(* The tab's pool takes no step but these: the tab never calls the         *)
(* contract's continueStaking.                                             *)
LEMMA EarningKeeps ==
  ASSUME PoolInv, EarningStep
  PROVE  Kept
<1>1. [Next]_vars
  BY DEF EarningStep, Next
<1>2. PoolInv'
  BY <1>1, PoolStep
<1>3. PendingOnlyPaid
  BY EarningPays, AccountStake DEF PendingOnlyPaid
<1> QED BY <1>2, <1>3 DEF Kept

-----------------------------------------------------------------------------
(* The page.                                                               *)
TabState == [mounted : BOOLEAN, loaded : BOOLEAN, staked : Nat, pending : Nat,
             base : Nat, stakeRef : Nat, lastRewardTime : Nat,
             timerStopped : BOOLEAN, loading : BOOLEAN]

Stages == Waits \cup {"idle", "reading", "restarting", "verifying",
                      "rereading", "loading"}

ClosureState == [stopped : BOOLEAN, staked : Nat]

LEMMA PageFacts ==
  ASSUME TabInv
  PROVE  /\ tab \in TabState /\ tab.lastRewardTime <= now
         /\ handler \in [Buttons -> Stages]
         /\ closure \in [Buttons -> ClosureState]
         /\ snapshot \in Loads \cup {Nothing}
         /\ snapshot.read => snapshot \in Loads /\ snapshot.lastRewardTime <= now
         /\ PoolInv
<1>1. /\ tab \in TabState /\ tab.lastRewardTime <= now
      /\ handler \in [Buttons -> Stages]
      /\ closure \in [Buttons -> ClosureState]
      /\ snapshot \in Loads \cup {Nothing}
      /\ snapshot.read => snapshot.lastRewardTime <= now
      /\ PoolInv
  BY DEF TabInv, TabTypeOK, TabState, Stages, ClosureState, TabTimely,
         SnapshotTimely
<1>2. ~Nothing.read
  BY DEF Nothing
<1>3. snapshot.read => snapshot \in Loads
  BY <1>1, <1>2
<1> QED BY <1>1, <1>3

(* What a step that leaves time alone has to keep on the page.             *)
LEMMA PageStep ==
  ASSUME TabInv, Kept, now' = now,
         tab' \in TabState, tab'.lastRewardTime <= now,
         handler' \in [Buttons -> Stages],
         closure' \in [Buttons -> ClosureState],
         \/ snapshot' \in {snapshot, Nothing}
         \/ snapshot' \in Loads /\ snapshot'.lastRewardTime <= now,
         DisabledByHandler'
  PROVE  TabInv' /\ PendingOnlyPaid
<1>1. TabTypeOK'
  BY PageFacts DEF Kept, PoolInv, TabTypeOK, TabState, Stages, ClosureState
<1>2. PoolInv' /\ TabTimely'
  BY DEF Kept, TabTimely
<1>3. SnapshotTimely'
  BY PageFacts DEF SnapshotTimely, Nothing
<1> QED BY <1>1, <1>2, <1>3 DEF Kept, TabInv

LEMMA WaitStep ==
  ASSUME TabInv, NEW b \in Buttons, NEW await \in Stages, Wait(b, await)
  PROVE  /\ handler' \in [Buttons -> Stages] /\ handler'[b] = await
         /\ closure' \in [Buttons -> ClosureState]
         /\ snapshot' = snapshot
<1>1. NoClosure \in ClosureState
  BY DEF NoClosure, ClosureState
<1> QED BY <1>1, PageFacts DEF Wait

LEMMA EstimateIsNat ==
  ASSUME TabInv, Estimating
  PROVE  Estimate \in Nat
<1> DEFINE e == Elapsed
           a == tab.stakeRef
<1>1. e \in Nat /\ a \in Nat /\ tab.base \in Nat
  BY PageFacts, AccountStake DEF Estimating, Elapsed, TabState
<1> HIDE DEF e, a
<1>2. RewardFor(a, e) \in Nat
  BY <1>1, RewardType
<1> QED BY <1>1, <1>2 DEF Estimate, e, a

LEMMA ReadShape ==
  ASSUME TabInv, NEW mount \in BOOLEAN
  PROVE  Read(mount) \in Loads /\ Read(mount).lastRewardTime <= now
<1>1. /\ PendingReward(stakes[Account]) \in Nat
      /\ stakes[Account].amount \in Nat
      /\ stakes[Account].lastRewardTime \in Nat
      /\ stakes[Account].lastRewardTime <= now /\ now \in Nat
  BY PageFacts, AccountStake DEF StakeInfo
<1> QED BY <1>1 DEF Read, Loads

LEMMA WrittenShape ==
  ASSUME TabInv, NEW s \in Loads, s.lastRewardTime <= now,
         NEW stopped \in BOOLEAN
  PROVE  /\ Written(s, stopped) \in TabState
         /\ Written(s, stopped).lastRewardTime <= now
         /\ Written(s, stopped).loading = tab.loading
<1> DEFINE preserving == stopped /\ tab.base > 0
           firstStake == s.staked > 0 /\ s.pending = 0
           restart == s.mount /\ s.staked > 0
           expired == now - s.lastRewardTime >= REWARD_INTERVAL
           stakeRef == IF preserving /\ firstStake THEN tab.stakeRef
                       ELSE s.staked
           base == IF s.mount \/ tab.base = 0 THEN s.pending ELSE tab.base
           pending == IF preserving THEN tab.pending ELSE s.pending
           timerStopped == IF restart THEN expired ELSE tab.timerStopped
           last == IF restart /\ ~expired THEN s.lastRewardTime
                   ELSE tab.lastRewardTime
<1>1. /\ stakeRef \in Nat /\ base \in Nat /\ pending \in Nat
      /\ s.staked \in Nat
  BY PageFacts DEF TabState, Loads
<1>2. timerStopped \in BOOLEAN
  <2>1. tab.timerStopped \in BOOLEAN
    BY PageFacts DEF TabState
  <2>2. expired \in BOOLEAN
    BY PageFacts, AccountStake, StakingConstants DEF Loads
  <2> QED BY <2>1, <2>2
<1>3. last \in Nat /\ last <= now
  BY PageFacts DEF TabState, Loads
<1>4. Written(s, stopped) =
        [tab EXCEPT !.loaded = TRUE, !.staked = s.staked,
                    !.stakeRef = stakeRef, !.base = base, !.pending = pending,
                    !.timerStopped = timerStopped, !.lastRewardTime = last]
  BY DEF Written
<1> HIDE DEF stakeRef, base, pending, timerStopped, last
<1> QED BY <1>1, <1>2, <1>3, <1>4, PageFacts DEF TabState
-----------------------------------------------------------------------------
(* Every action keeps the invariant and the reward.                        *)
Good == TabInv' /\ PendingOnlyPaid

LEMMA QuietPool ==
  ASSUME TabInv, UNCHANGED vars
  PROVE  Kept /\ now' = now
<1>1. now' = now
  BY DEF vars
<1>2. EarningStep
  BY DEF vars, EarningStep
<1> QED BY <1>1, <1>2, PageFacts, EarningKeeps

LEMMA LoadsGood ==
  ASSUME TabInv, StartLoad \/ FinishLoad \/ FailLoad
  PROVE  Good
<1>1. CASE StartLoad
  <2>1. /\ snapshot' \in Loads /\ snapshot'.lastRewardTime <= now
        /\ UNCHANGED <<vars, handler, closure>>
    <3>1. (~tab.mounted) \in BOOLEAN
      OBVIOUS
    <3> QED BY <1>1, <3>1, ReadShape DEF StartLoad
  <2>2. /\ tab' \in TabState /\ tab'.lastRewardTime <= now
        /\ tab'.loading = tab.loading
    BY <1>1, PageFacts DEF StartLoad, TabState
  <2>3. DisabledByHandler'
    BY <2>1, <2>2 DEF TabInv, DisabledByHandler
  <2> QED BY <2>1, <2>2, <2>3, PageFacts, QuietPool, PageStep DEF Good
<1>2. CASE FinishLoad
  <2>1. /\ tab' \in TabState /\ tab'.lastRewardTime <= now
        /\ tab'.loading = tab.loading
    <3>1. snapshot \in Loads /\ snapshot.lastRewardTime <= now
      BY <1>2, PageFacts DEF FinishLoad
    <3> QED BY <1>2, <3>1, WrittenShape DEF FinishLoad
  <2>2. snapshot' = Nothing /\ UNCHANGED <<vars, handler, closure>>
    BY <1>2 DEF FinishLoad
  <2>3. DisabledByHandler'
    BY <2>1, <2>2 DEF TabInv, DisabledByHandler
  <2> QED BY <2>1, <2>2, <2>3, PageFacts, QuietPool, PageStep DEF Good
<1>3. CASE FailLoad
  <2>1. snapshot' = Nothing /\ UNCHANGED <<vars, tab, handler, closure>>
    BY <1>3 DEF FailLoad
  <2>2. DisabledByHandler'
    BY <2>1 DEF TabInv, DisabledByHandler
  <2> QED BY <2>1, <2>2, PageFacts, QuietPool, PageStep DEF Good
<1> QED BY <1>1, <1>2, <1>3

LEMMA CountdownGood ==
  ASSUME TabInv, UpdateRewardsInRealtime \/ CountdownFinish
  PROVE  Good
<1>1. /\ tab' \in TabState /\ tab'.lastRewardTime <= now
      /\ tab'.loading = tab.loading
  <2>1. CASE UpdateRewardsInRealtime
    <3>1. Estimate \in Nat /\ tab' = [tab EXCEPT !.pending = Estimate]
      BY <2>1, EstimateIsNat DEF UpdateRewardsInRealtime
    <3> QED BY <3>1, PageFacts DEF TabState
  <2>2. CASE CountdownFinish
    <3>1. PICK base \in Nat, pending \in Nat :
            tab' = [tab EXCEPT !.timerStopped = TRUE, !.base = base,
                               !.pending = pending]
      <4>1. tab.base \in Nat /\ tab.pending \in Nat
        BY PageFacts DEF TabState
      <4>2. CASE Estimating
        BY <4>2, <2>2, EstimateIsNat DEF CountdownFinish
      <4>3. CASE ~Estimating
        BY <4>1, <4>3, <2>2 DEF CountdownFinish
      <4> QED BY <4>2, <4>3
    <3> QED BY <3>1, PageFacts DEF TabState
  <2> QED BY <2>1, <2>2
<1>2. UNCHANGED <<vars, handler, closure, snapshot>>
  BY DEF UpdateRewardsInRealtime, CountdownFinish
<1>3. DisabledByHandler'
  BY <1>1, <1>2 DEF TabInv, DisabledByHandler
<1> QED BY <1>1, <1>2, <1>3, PageFacts, QuietPool, PageStep DEF Good

LEMMA PressGood ==
  ASSUME TabInv, NEW b \in Buttons, Press(b)
  PROVE  Good
<1> DEFINE await == CASE b = "continue" -> "storing"
                      [] b = "stake"    -> "approving"
                      [] b = "withdraw" -> "sending"
                      [] b = "claim"    ->
                           IF tab.timerStopped THEN "storing" ELSE "sending"
           seen == IF b = "continue"
                   THEN [NoClosure EXCEPT !.staked = tab.staked]
                   ELSE [NoClosure EXCEPT !.stopped = tab.timerStopped]
<1>1. /\ handler' = [handler EXCEPT ![b] = await]
      /\ closure' = [closure EXCEPT ![b] = seen]
      /\ tab' = [tab EXCEPT !.loading = TRUE]
      /\ UNCHANGED <<vars, snapshot>>
  BY DEF Press
<1>2. await \in Waits
  BY DEF Buttons, Waits
<1>3. seen \in ClosureState
  BY PageFacts DEF NoClosure, ClosureState, TabState
<1> HIDE DEF await, seen
<1>4. /\ handler' \in [Buttons -> Stages] /\ handler'[b] = await
      /\ closure' \in [Buttons -> ClosureState]
  BY <1>1, <1>2, <1>3, PageFacts DEF Stages
<1>5. tab' \in TabState /\ tab'.lastRewardTime <= now
  BY <1>1, PageFacts DEF TabState
<1>6. DisabledByHandler'
  BY <1>2, <1>4 DEF DisabledByHandler, Waits
<1> QED BY <1>1, <1>4, <1>5, <1>6, QuietPool, PageStep DEF Good

(* A handler goes on to its next await, or ends and frees the buttons.     *)
LEMMA HandlerStep ==
  ASSUME TabInv, Kept, now' = now, NEW b \in Buttons, NEW await \in Stages,
         Wait(b, await), tab' \in TabState, tab'.lastRewardTime <= now,
         await = "idle" => ~tab'.loading
  PROVE  Good
<1>1. /\ handler' \in [Buttons -> Stages] /\ handler'[b] = await
      /\ closure' \in [Buttons -> ClosureState] /\ snapshot' = snapshot
  BY WaitStep
<1>2. DisabledByHandler'
  BY <1>1 DEF DisabledByHandler
<1> QED BY <1>1, <1>2, PageStep DEF Good

LEMMA TransactionGood ==
  ASSUME TabInv,
         \/ \E b \in Buttons : StoreRewards(b)
         \/ SendClaim
         \/ \E amount \in Amounts : SendStake(amount) \/ SendWithdraw(amount)
  PROVE  Good
<1>1. /\ PoolInv /\ tab \in TabState /\ tab.lastRewardTime <= now
      /\ now \in Nat /\ Account \in Users
  BY PageFacts, AccountStake
<1>2. ASSUME NEW b \in Buttons, StoreRewards(b) PROVE Good
  <2> DEFINE await == IF b = "continue" THEN "reading" ELSE "verifying"
  <2>1. await \in Stages /\ await # "idle"
    BY DEF Stages
  <2>2. /\ StoreCurrentRewards(Account) /\ Wait(b, await) /\ tab' = tab
    BY <1>2 DEF StoreRewards
  <2> HIDE DEF await
  <2>3. Kept /\ now' = now
    BY <1>1, <2>2, EarningKeeps DEF EarningStep, StoreCurrentRewards
  <2> QED BY <1>1, <2>1, <2>2, <2>3, HandlerStep
<1>3. CASE SendClaim
  <2>1. /\ ClaimReward(Account) /\ Wait("claim", "rereading")
        /\ tab' = [tab EXCEPT !.base = 0]
    BY <1>3 DEF SendClaim
  <2>2. Kept /\ now' = now
    BY <1>1, <2>1, EarningKeeps DEF EarningStep, ClaimReward
  <2>3. tab' \in TabState /\ tab'.lastRewardTime <= now
    BY <1>1, <2>1 DEF TabState
  <2>4. "claim" \in Buttons /\ "rereading" \in Stages
    BY DEF Buttons, Stages
  <2> QED BY <2>1, <2>2, <2>3, <2>4, HandlerStep
<1>4. ASSUME NEW amount \in Amounts, SendStake(amount) PROVE Good
  <2>1. /\ Stake(Account, amount) /\ Wait("stake", "loading")
        /\ tab' = [tab EXCEPT !.timerStopped = FALSE, !.lastRewardTime = now]
    BY <1>4 DEF SendStake
  <2>2. Kept /\ now' = now
    BY <1>1, <2>1, EarningKeeps DEF EarningStep, Stake
  <2>3. tab' \in TabState /\ tab'.lastRewardTime = now
    BY <1>1, <2>1 DEF TabState
  <2>4. "stake" \in Buttons /\ "loading" \in Stages
    BY DEF Buttons, Stages
  <2> QED BY <1>1, <2>1, <2>2, <2>3, <2>4, HandlerStep
<1>5. ASSUME NEW amount \in Amounts, SendWithdraw(amount) PROVE Good
  <2>1. /\ Withdraw(Account, amount) /\ Wait("withdraw", "loading")
        /\ tab' = tab
    BY <1>5 DEF SendWithdraw
  <2>2. Kept /\ now' = now
    BY <1>1, <2>1, EarningKeeps DEF EarningStep, Withdraw
  <2>3. "withdraw" \in Buttons /\ "loading" \in Stages
    BY DEF Buttons, Stages
  <2> QED BY <1>1, <2>1, <2>2, <2>3, HandlerStep
<1> QED BY <1>2, <1>3, <1>4, <1>5

LEMMA ReadingGood ==
  ASSUME TabInv, ReadReward \/ RestartTimer \/ VerifyStored \/ StopAfterClaim
               \/ Approve
  PROVE  Good
<1>1. tab \in TabState /\ tab.lastRewardTime <= now /\ now \in Nat
  BY PageFacts, AccountStake
<1>2. /\ {"continue", "claim", "stake"} \subseteq Buttons
      /\ {"restarting", "idle", "sending", "loading"} \subseteq Stages
  BY DEF Buttons, Stages, Waits
<1>3. CASE ReadReward
  <2> DEFINE reward == PendingReward(stakes[Account])
             staked == closure["continue"].staked
  <2>1. /\ UNCHANGED vars /\ Wait("continue", "restarting")
        /\ tab' = [tab EXCEPT !.base = reward, !.pending = reward,
                              !.staked = staked, !.lastRewardTime = now]
    BY <1>3 DEF ReadReward
  <2>2. reward \in Nat /\ staked \in Nat
    BY <1>2, PageFacts, AccountStake DEF ClosureState
  <2> HIDE DEF reward, staked
  <2>3. tab' \in TabState /\ tab'.lastRewardTime = now
    BY <1>1, <2>1, <2>2 DEF TabState
  <2> QED BY <1>1, <1>2, <2>1, <2>3, QuietPool, HandlerStep
<1>4. CASE RestartTimer
  <2>1. /\ UNCHANGED vars /\ Wait("continue", "idle")
        /\ tab' = [tab EXCEPT !.timerStopped = FALSE, !.loading = FALSE]
    BY <1>4 DEF RestartTimer
  <2>2. tab' \in TabState /\ tab'.lastRewardTime <= now /\ ~tab'.loading
    BY <1>1, <2>1 DEF TabState
  <2> QED BY <1>2, <2>1, <2>2, QuietPool, HandlerStep
<1>5. CASE VerifyStored
  <2>1. UNCHANGED <<vars, tab>> /\ Wait("claim", "sending")
    BY <1>5 DEF VerifyStored
  <2> QED BY <1>1, <1>2, <2>1, QuietPool, HandlerStep
<1>6. CASE StopAfterClaim
  <2> DEFINE stopped == tab.timerStopped \/ stakes[Account].amount > 0
  <2>1. /\ UNCHANGED vars /\ Wait("claim", "loading")
        /\ tab' = [tab EXCEPT !.timerStopped = stopped]
    BY <1>6 DEF StopAfterClaim
  <2>2. stopped \in BOOLEAN
    OBVIOUS
  <2> HIDE DEF stopped
  <2>3. tab' \in TabState /\ tab'.lastRewardTime <= now
    BY <1>1, <2>1, <2>2 DEF TabState
  <2> QED BY <1>2, <2>1, <2>3, QuietPool, HandlerStep
<1>7. CASE Approve
  <2>1. UNCHANGED <<vars, tab>> /\ Wait("stake", "sending")
    BY <1>7 DEF Approve
  <2> QED BY <1>1, <1>2, <2>1, QuietPool, HandlerStep
<1> QED BY <1>3, <1>4, <1>5, <1>6, <1>7

LEMMA EndGood ==
  ASSUME TabInv, NEW b \in Buttons, LoadAndReturn(b) \/ Fail(b)
  PROVE  Good
<1>1. UNCHANGED vars /\ Wait(b, "idle")
  BY DEF LoadAndReturn, Fail
<1>2. PICK loaded \in TabState :
        loaded.lastRewardTime <= now /\ tab' = [loaded EXCEPT !.loading = FALSE]
  <2>1. CASE Fail(b)
    BY <2>1, PageFacts DEF Fail
  <2>2. CASE LoadAndReturn(b)
    <3> DEFINE w == Written(Read(FALSE), closure[b].stopped)
    <3>1. closure[b].stopped \in BOOLEAN
      BY PageFacts DEF ClosureState
    <3>2. w \in TabState /\ w.lastRewardTime <= now
      BY <3>1, ReadShape, WrittenShape
    <3> HIDE DEF w
    <3>3. \E loaded \in {tab, w} : tab' = [loaded EXCEPT !.loading = FALSE]
      BY <2>2 DEF LoadAndReturn, w
    <3> QED BY <3>2, <3>3, PageFacts
  <2> QED BY <2>1, <2>2
<1>3. tab' \in TabState /\ tab'.lastRewardTime <= now /\ ~tab'.loading
  BY <1>2 DEF TabState
<1>4. "idle" \in Stages
  BY DEF Stages
<1> QED BY <1>1, <1>3, <1>4, QuietPool, HandlerStep

LEMMA FreshPage ==
  ASSUME now \in Nat
  PROVE  /\ FreshTab \in TabState /\ FreshTab.lastRewardTime <= now
         /\ ~FreshTab.loading
         /\ [b \in Buttons |-> "idle"] \in [Buttons -> Stages]
         /\ [b \in Buttons |-> NoClosure] \in [Buttons -> ClosureState]
BY DEF FreshTab, TabState, Stages, NoClosure, ClosureState

LEMMA ReloadGood ==
  ASSUME TabInv, Reload
  PROVE  Good
<1>1. UNCHANGED vars /\ Mounted
  BY DEF Reload
<1>2. DisabledByHandler'
  BY <1>1, FreshPage, PageFacts, AccountStake DEF Mounted, DisabledByHandler
<1> QED BY <1>1, <1>2, FreshPage, PageFacts, AccountStake, QuietPool, PageStep
        DEF Mounted, Good

LEMMA EnvironmentGood ==
  ASSUME TabInv, Environment
  PROVE  Good
<1>1. Kept
  BY PageFacts, EarningKeeps DEF Environment, EarningStep
<1>2. now' \in {now, now + 1} /\ now \in Nat
  BY PageFacts, AccountStake
     DEF Environment, ReplenishRewards, Tick
<1>3. UNCHANGED page
  BY DEF Environment
<1>4. TabTypeOK'
  BY <1>1, <1>3 DEF Kept, PoolInv, TabInv, TabTypeOK, page
<1>5. TabTimely'
  BY <1>2, <1>3, PageFacts DEF TabTimely, TabState, page
<1>6. SnapshotTimely'
  BY <1>2, <1>3, PageFacts DEF SnapshotTimely, Loads, page
<1>7. DisabledByHandler'
  BY <1>3 DEF TabInv, DisabledByHandler, page
<1> QED BY <1>1, <1>4, <1>5, <1>6, <1>7 DEF Good, Kept, PoolInv, TabInv

LEMMA StutterGood ==
  ASSUME TabInv, UNCHANGED tabVars
  PROVE  Good
<1>1. UNCHANGED vars /\ UNCHANGED page
  BY DEF tabVars, page
<1>2. DisabledByHandler'
  BY <1>1 DEF TabInv, DisabledByHandler, page
<1> QED BY <1>1, <1>2, PageFacts, QuietPool, PageStep DEF Good, page

-----------------------------------------------------------------------------
LEMMA InitInvariant == TabInit => TabInv
<1> SUFFICES ASSUME TabInit PROVE TabInv
  OBVIOUS
<1>1. TypeOK /\ now = 1 /\ PoolInv
  BY PoolInit DEF TabInit, Init, PoolInv
<1>2. /\ tab = FreshTab /\ snapshot = Nothing
      /\ handler = [b \in Buttons |-> "idle"]
      /\ closure = [b \in Buttons |-> NoClosure]
  BY DEF TabInit
<1>3. TabTypeOK /\ TabTimely
  BY <1>1, <1>2, FreshPage
     DEF TabTypeOK, TabTimely, TabState, Stages, ClosureState
<1>4. SnapshotTimely /\ DisabledByHandler
  BY <1>1, <1>2, FreshPage DEF SnapshotTimely, Nothing, DisabledByHandler
<1> QED BY <1>1, <1>3, <1>4 DEF TabInv

LEMMA InvariantStep ==
  ASSUME TabInv, [TabNext]_tabVars
  PROVE  Good
<1>1. ASSUME NEW b \in Buttons, Press(b) PROVE Good
  BY <1>1, PressGood
<1>2. ASSUME NEW b \in Buttons, StoreRewards(b) PROVE Good
  BY <1>2, TransactionGood
<1>3. ASSUME NEW b \in Buttons, Continue(b) PROVE Good
  BY <1>3, ReadingGood, EndGood DEF Continue
<1>4. ASSUME NEW b \in Buttons, Fail(b) PROVE Good
  BY <1>4, EndGood
<1>5. CASE Approve
  BY <1>5, ReadingGood
<1>6. CASE SendClaim \/ \E amount \in Amounts :
                          SendStake(amount) \/ SendWithdraw(amount)
  BY <1>6, TransactionGood
<1>7. CASE StartLoad \/ FinishLoad \/ FailLoad
  BY <1>7, LoadsGood
<1>8. CASE UpdateRewardsInRealtime \/ CountdownFinish
  BY <1>8, CountdownGood
<1>9. CASE Reload \/ Environment
  BY <1>9, ReloadGood, EnvironmentGood
<1>10. CASE UNCHANGED tabVars
  BY <1>10, StutterGood
<1> QED BY <1>1, <1>2, <1>3, <1>4, <1>5, <1>6, <1>7, <1>8, <1>9, <1>10
    DEF TabNext

(* The invariant of StakingTab: types, the pool's invariant, no period of  *)
(* the future, and the buttons.                                            *)
THEOREM TabInvariance == TabSpec => []TabInv
<1>1. TabInv /\ [TabNext]_tabVars => TabInv'
  BY InvariantStep DEF Good
<1> QED BY <1>1, InitInvariant, PTL DEF TabSpec

(* The tab's state is well typed: in particular the estimate between two   *)
(* calls of the contract is never computed for a negative time, whatever   *)
(* load or handler last wrote lastRewardTime.                              *)
THEOREM TabTypeCorrect == TabSpec => []TabTypeOK
<1>1. TabInv => TabTypeOK
  BY DEF TabInv
<1> QED BY <1>1, TabInvariance, PTL

(* While no handler of the tab is running, its buttons can be pressed.     *)
THEOREM ButtonsAreFreed == TabSpec => []DisabledByHandler
<1>1. TabInv => DisabledByHandler
  BY DEF TabInv
<1> QED BY <1>1, TabInvariance, PTL

(* No use of the tab, however its handlers, loads and countdown interleave *)
(* with time and with reloads, gives up a pending reward without payment.  *)
THEOREM RewardIsKept == TabSpec => TabKeepsReward
<1>1. TabInv /\ [TabNext]_tabVars => [PendingOnlyPaid]_tabVars
  BY InvariantStep DEF Good
<1> QED BY <1>1, TabInvariance, PTL DEF TabSpec, TabKeepsReward

-----------------------------------------------------------------------------
(* Every step of the tab is a step of the pool, or leaves it alone.        *)
LEMMA TabStep ==
  ASSUME [TabNext]_tabVars
  PROVE  [Next]_vars
<1>a. Account \in Users
  BY TabConstants
<1>1. ASSUME UNCHANGED vars PROVE [Next]_vars
  BY <1>1 DEF vars
<1>2. ASSUME NEW b \in Buttons, Press(b) \/ StoreRewards(b) \/ Continue(b)
                                \/ Fail(b)
      PROVE  [Next]_vars
  <2>1. CASE StoreRewards(b)
    BY <1>a, <2>1 DEF StoreRewards, Next
  <2>2. CASE Press(b) \/ Continue(b) \/ Fail(b)
    <3>1. UNCHANGED vars
      BY <2>2 DEF Press, Continue, ReadReward, RestartTimer, VerifyStored,
                  StopAfterClaim, LoadAndReturn, Fail
    <3> QED BY <1>1, <3>1
  <2> QED BY <1>2, <2>1, <2>2
<1>3. CASE SendClaim \/ \E amount \in Amounts :
                          SendStake(amount) \/ SendWithdraw(amount)
  BY <1>a, <1>3 DEF SendClaim, SendStake, SendWithdraw, Next
<1>4. CASE Environment
  BY <1>4 DEF Environment, Next
<1>5. CASE \/ Approve \/ StartLoad \/ FinishLoad \/ FailLoad
           \/ UpdateRewardsInRealtime \/ CountdownFinish \/ Reload
           \/ UNCHANGED tabVars
  <2>1. UNCHANGED vars
    BY <1>5 DEF Approve, StartLoad, FinishLoad, FailLoad, Reload, tabVars,
                UpdateRewardsInRealtime, CountdownFinish
  <2> QED BY <1>1, <2>1
<1> QED BY <1>2, <1>3, <1>4, <1>5 DEF TabNext

(* The tab drives the contract of StakingPool and nothing else: its        *)
(* behaviours, with the page left out, are behaviours of the pool, so that *)
(* what is proved of the pool holds under the tab.                         *)
THEOREM TabRunsThePool == TabSpec => Spec
<1>1. TabInit => Init
  BY DEF TabInit
<1>2. [TabNext]_tabVars => [Next]_vars
  BY TabStep
<1> QED BY <1>1, <1>2, PTL DEF TabSpec, Spec

COROLLARY TabPoolIsHonest ==
  TabSpec => [](NeverOverpaid /\ PrincipalCovered)
BY TabRunsThePool, NobodyIsOverpaid, PrincipalIsCovered, PTL
=============================================================================

