------------------------- MODULE LendingPool_proofs -------------------------
(***************************************************************************)
(* Proofs about LendingPool for every value of its constants.              *)
(***************************************************************************)
EXTENDS LendingPool, FiniteSums

-----------------------------------------------------------------------------
(***************************************************************************)
(* Truncating division.                                                    *)
(***************************************************************************)
(* A quotient is the largest natural whose multiple fits.                  *)
LEMMA Quotient ==
  ASSUME NEW n \in Nat, NEW d \in Nat \ {0}
  PROVE  /\ n \div d \in Nat
         /\ d * (n \div d) <= n
         /\ n < d * (n \div d) + d
BY SMT

(* A natural whose multiple fits is at most the quotient.                  *)
LEMMA QuotientAtLeast ==
  ASSUME NEW n \in Nat, NEW d \in Nat \ {0}, NEW q \in Nat, d * q <= n
  PROVE  q <= n \div d
<1> DEFINE r == n \div d
<1>1. r \in Nat /\ n < d * r + d
  BY Quotient
<1>2. SUFFICES ASSUME r + 1 <= q PROVE FALSE
  BY <1>1
<1> HIDE DEF r
<1>3. d * (r + 1) <= d * q
  BY <1>1, <1>2
<1>4. d * (r + 1) = d * r + d
  BY <1>1
<1> QED BY <1>1, <1>3, <1>4

(* Dividing a multiple gives the factor back.                              *)
LEMMA QuotientOfMultiple ==
  ASSUME NEW q \in Nat, NEW d \in Nat \ {0}
  PROVE  (q * d) \div d = q
<1> DEFINE r == (q * d) \div d
<1>1. q * d \in Nat
  OBVIOUS
<1>2. r \in Nat /\ d * r <= q * d
  BY <1>1, Quotient
<1>3. q <= r
  BY <1>1, QuotientAtLeast
<1> HIDE DEF r
<1>4. SUFFICES ASSUME q + 1 <= r PROVE FALSE
  BY <1>2, <1>3 DEF r
<1>5. d * (q + 1) <= d * r
  BY <1>2, <1>4
<1> QED BY <1>2, <1>5

LEMMA ProductGrows ==
  ASSUME NEW a \in Nat, NEW b \in Nat, NEW c \in Nat, a <= b
  PROVE  a * c <= b * c
<1>1. PICK d \in Nat : b = a + d
  <2>1. b - a \in Nat /\ b = a + (b - a)
    OBVIOUS
  <2> QED BY <2>1
<1>2. b * c = a * c + d * c
  BY <1>1
<1>3. d * c \in Nat /\ a * c \in Nat
  BY <1>1
<1> QED BY <1>2, <1>3

LEMMA QuotientGrows ==
  ASSUME NEW n \in Nat, NEW k \in Nat, NEW d \in Nat \ {0}, n <= k
  PROVE  n \div d <= k \div d
<1> DEFINE q == n \div d
<1>1. q \in Nat /\ d * q <= n
  BY Quotient
<1> HIDE DEF q
<1>2. d * q \in Nat
  BY <1>1
<1>3. d * q <= k
  BY <1>1, <1>2
<1>4. q <= k \div d
  BY <1>1, <1>3, QuotientAtLeast
<1> QED BY <1>4 DEF q

-----------------------------------------------------------------------------
(***************************************************************************)
(* Interest arithmetic.                                                    *)
(***************************************************************************)
LEMMA ScaledRateIsNat ==
  ASSUME NEW rate \in Nat, NEW elapsed \in Nat
  PROVE  ScaledInterestRate(rate, elapsed) \in Nat
<1> DEFINE whole == (elapsed \div SECONDS_PER_INTERVAL) * SECONDS_PER_INTERVAL
           yearly == (rate * whole * SCALE) \div SECONDS_PER_YEAR
<1>1. elapsed \div SECONDS_PER_INTERVAL \in Nat
  BY InterestConstants, Quotient
<1>2. rate * whole * SCALE \in Nat
  BY <1>1, InterestConstants
<1>3. yearly \in Nat
  BY <1>2, InterestConstants, Quotient
<1> HIDE DEF yearly
<1>4. yearly \div 100 \in Nat
  BY <1>3, Quotient
<1> QED BY <1>4 DEF ScaledInterestRate, yearly

(* An index never falls, and stays what it is when no time passes.         *)
LEMMA IndexGrows ==
  ASSUME NEW index \in Nat, NEW rate \in Nat, NEW elapsed \in Nat
  PROVE  /\ GrownIndex(index, rate, elapsed) \in Nat
         /\ GrownIndex(index, rate, elapsed) >= index
<1> DEFINE s == ScaledInterestRate(rate, elapsed)
<1>1. s \in Nat
  BY ScaledRateIsNat
<1> HIDE DEF s
<1>2. SCALE \in Nat \ {0}
  BY InterestConstants
<1>3. index * (SCALE + s) \in Nat
  BY <1>1, <1>2
<1>4. SCALE * index <= index * (SCALE + s)
  <2>1. index * (SCALE + s) = SCALE * index + index * s
    BY <1>1, <1>2
  <2>2. index * s \in Nat
    BY <1>1
  <2> QED BY <1>2, <2>1, <2>2
<1> QED BY <1>2, <1>3, <1>4, Quotient, QuotientAtLeast DEF GrownIndex, s

LEMMA IndexAtRest ==
  ASSUME NEW index \in Nat, NEW rate \in Nat
  PROVE  GrownIndex(index, rate, 0) = index
<1>1. 0 \div SECONDS_PER_INTERVAL = 0
  BY InterestConstants, QuotientOfMultiple
<1>2. ScaledInterestRate(rate, 0) = 0
  <2>1. 0 \div SECONDS_PER_YEAR = 0 /\ 0 \div 100 = 0
    BY InterestConstants, QuotientOfMultiple
  <2>2. rate * (0 * SECONDS_PER_INTERVAL) * SCALE = 0
    BY InterestConstants
  <2> QED BY <1>1, <2>1, <2>2 DEF ScaledInterestRate
<1>3. index * (SCALE + 0) = index * SCALE
  BY InterestConstants
<1> QED BY <1>2, <1>3, InterestConstants, QuotientOfMultiple DEF GrownIndex

(* A debt is worth at least its amount at any later index, and exactly its *)
(* amount at the index at which it was last charged.                       *)
LEMMA DebtGrows ==
  ASSUME NEW amount \in Nat, NEW from \in Nat \ {0}, NEW to \in Nat, from <= to
  PROVE  /\ DebtAt(amount, from, to) \in Nat
         /\ DebtAt(amount, from, to) >= amount
<1>1. amount * to \in Nat
  OBVIOUS
<1>2. from * amount <= amount * to
  <2>1. PICK more \in Nat : to = from + more
    <3>1. to - from \in Nat /\ to = from + (to - from)
      OBVIOUS
    <3> QED BY <3>1
  <2>2. amount * to = from * amount + amount * more
    BY <2>1
  <2>3. amount * more \in Nat
    BY <2>1
  <2> QED BY <2>2, <2>3
<1> QED BY <1>1, <1>2, Quotient, QuotientAtLeast DEF DebtAt

LEMMA DebtAtRest ==
  ASSUME NEW amount \in Nat, NEW index \in Nat \ {0}
  PROVE  DebtAt(amount, index, index) = amount
BY QuotientOfMultiple DEF DebtAt

(* More time never means less interest, a later index never a smaller      *)
(* debt: no truncation undoes what accrued before.                         *)
LEMMA IndexRisesWithTime ==
  ASSUME NEW index \in Nat, NEW rate \in Nat,
         NEW elapsed \in Nat, NEW later \in Nat, elapsed <= later
  PROVE  GrownIndex(index, rate, elapsed) <= GrownIndex(index, rate, later)
<1> DEFINE a == elapsed \div SECONDS_PER_INTERVAL
           b == later \div SECONDS_PER_INTERVAL
           c == a * SECONDS_PER_INTERVAL
           d == b * SECONDS_PER_INTERVAL
           e == rate * c * SCALE
           f == rate * d * SCALE
           g == e \div SECONDS_PER_YEAR
           h == f \div SECONDS_PER_YEAR
           s == ScaledInterestRate(rate, elapsed)
           z == ScaledInterestRate(rate, later)
<1>1. a \in Nat /\ b \in Nat /\ a <= b
  BY InterestConstants, Quotient, QuotientGrows
<1> HIDE DEF a, b
<1>2. c \in Nat /\ d \in Nat /\ c <= d
  BY <1>1, InterestConstants, ProductGrows
<1> HIDE DEF c, d
<1>3. e \in Nat /\ f \in Nat /\ e <= f
  <2>1. c * (rate * SCALE) <= d * (rate * SCALE)
    BY <1>2, InterestConstants, ProductGrows
  <2>2. e = c * (rate * SCALE) /\ f = d * (rate * SCALE)
    BY <1>2, InterestConstants
  <2>3. e \in Nat /\ f \in Nat
    BY <1>2, InterestConstants
  <2> HIDE DEF e, f
  <2> QED BY <2>1, <2>2, <2>3
<1> HIDE DEF e, f
<1>4. g \in Nat /\ h \in Nat /\ g <= h
  BY <1>3, InterestConstants, Quotient, QuotientGrows
<1> HIDE DEF g, h
<1>5. s = g \div 100 /\ z = h \div 100
  BY DEF ScaledInterestRate, a, b, c, d, e, f, g, h
<1> HIDE DEF s, z
<1>6. s \in Nat /\ z \in Nat /\ s <= z
  BY <1>4, <1>5, Quotient, QuotientGrows
<1>7. SCALE \in Nat \ {0}
  BY InterestConstants
<1> DEFINE x == (SCALE + s) * index
           y == (SCALE + z) * index
<1>8. x \in Nat /\ y \in Nat /\ x <= y
  <2>1. /\ SCALE + s \in Nat /\ SCALE + z \in Nat
        /\ SCALE + s <= SCALE + z
    BY <1>6, <1>7
  <2> QED BY <2>1, ProductGrows
<1>9. x = index * (SCALE + s) /\ y = index * (SCALE + z)
  BY <1>6, <1>7
<1> HIDE DEF x, y
<1>10. x \div SCALE <= y \div SCALE
  BY <1>7, <1>8, QuotientGrows
<1> QED BY <1>9, <1>10 DEF GrownIndex, s, z

LEMMA DebtRisesWithIndex ==
  ASSUME NEW amount \in Nat, NEW from \in Nat \ {0},
         NEW to \in Nat, NEW later \in Nat, to <= later
  PROVE  DebtAt(amount, from, to) <= DebtAt(amount, from, later)
<1>1. to * amount <= later * amount
  BY ProductGrows
<1>2. to * amount = amount * to /\ later * amount = amount * later
  OBVIOUS
<1>3. amount * to \in Nat /\ amount * later \in Nat
  OBVIOUS
<1> QED BY <1>1, <1>2, <1>3, QuotientGrows DEF DebtAt

-----------------------------------------------------------------------------
(***************************************************************************)
(* Accrual.  A position may lag behind its market, as DebtIndexed says of  *)
(* every position; after accrual it does not.                              *)
(***************************************************************************)
IndexFloor(m) ==
  m.globalIndex # 0 => m.globalIndex >= INITIAL_INTEREST_INDEX

Lags(m, p) ==
  /\ (p.borrowAmount = 0) <=> (p.interestIndex = 0)
  /\ p.interestIndex # 0 => p.interestIndex >= INITIAL_INTEREST_INDEX
  /\ p.interestIndex <= m.globalIndex
  /\ IndexFloor(m)
  /\ p.lastUpdateTime <= m.lastGlobalUpdate

UpToDate(m, p) ==
  /\ Lags(m, p)
  /\ p.borrowAmount > 0 => p.interestIndex = m.globalIndex

(* updateGlobalInterest only ever raises the index and the timestamp.      *)
LEMMA GlobalAccrual ==
  ASSUME NEW m \in MarketType, NEW rate \in Nat, NEW time \in Nat,
         m.lastGlobalUpdate <= time
  PROVE  LET g == GlobalAccrued(m, rate, time)
         IN  /\ g \in MarketType
             /\ g.globalIndex >= m.globalIndex
             /\ IndexFloor(m) => IndexFloor(g)
             /\ g.lastGlobalUpdate = time
             /\ g.totalDeposits = m.totalDeposits
             /\ g.totalBorrows = m.totalBorrows
             /\ g.cash = m.cash
<1> DEFINE elapsed == time - m.lastGlobalUpdate
           current == IndexOrInitial(m)
           new     == GrownIndex(current, rate, elapsed)
<1>1. m.lastGlobalUpdate \in Nat /\ m.globalIndex \in Nat
  BY DEF MarketType
<1>2. elapsed \in Nat
  BY <1>1
<1>3. /\ current \in Nat /\ current >= m.globalIndex
      /\ m.globalIndex = 0 => current = INITIAL_INTEREST_INDEX
      /\ m.globalIndex # 0 => current = m.globalIndex
  BY <1>1, InterestConstants DEF IndexOrInitial
<1>4. new \in Nat
  BY <1>2, <1>3, IndexGrows
<1> DEFINE index == IF m.totalBorrows > 0 /\ new > current
                    THEN new ELSE m.globalIndex
<1>5. /\ index \in Nat
      /\ index >= m.globalIndex
      /\ index = m.globalIndex \/ index > current
  <2> HIDE DEF new, current
  <2> QED BY <1>1, <1>3, <1>4
<1>6. GlobalAccrued(m, rate, time) =
        [m EXCEPT !.lastGlobalUpdate = time, !.globalIndex = index]
  BY DEF GlobalAccrued
<1>7. IndexFloor(m) =>
        (index # 0 => index >= INITIAL_INTEREST_INDEX)
  <2> HIDE DEF new, current, index
  <2> QED BY <1>1, <1>3, <1>5, InterestConstants DEF IndexFloor
<1> HIDE DEF index
<1> QED BY <1>1, <1>5, <1>6, <1>7 DEF MarketType, IndexFloor

(* updateUserInterest never lowers a debt, charges nobody without one, and *)
(* leaves the position up to date.                                         *)
LEMMA UserAccrual ==
  ASSUME NEW m \in MarketType, NEW p \in PositionType, Lags(m, p)
  PROVE  LET a == UserAccrued(m, p, m.lastGlobalUpdate)
         IN  /\ Charge(m, p) \in Nat
             /\ p.borrowAmount = 0 => Charge(m, p) = 0
             /\ a \in PositionType
             /\ a.depositAmount = p.depositAmount
             /\ a.borrowAmount = p.borrowAmount + Charge(m, p)
             /\ a.interestIndex >= p.interestIndex
             /\ UpToDate(m, a)
<1> DEFINE i == Charge(m, p)
           a == UserAccrued(m, p, m.lastGlobalUpdate)
<1>1. /\ p.borrowAmount \in Nat /\ p.interestIndex \in Nat
      /\ m.globalIndex \in Nat /\ m.lastGlobalUpdate \in Nat
  BY DEF MarketType, PositionType
<1>2. CASE p.borrowAmount = 0
  <2>1. i = 0
    BY <1>2 DEF Charge
  <2>2. a = [p EXCEPT !.borrowAmount = 0,
                      !.interestIndex = p.interestIndex,
                      !.lastUpdateTime = m.lastGlobalUpdate]
    BY <1>2, <2>1 DEF UserAccrued
  <2> HIDE DEF i, a
  <2>3. /\ a \in PositionType
        /\ a.depositAmount = p.depositAmount
        /\ a.borrowAmount = 0
        /\ a.interestIndex = p.interestIndex
        /\ a.lastUpdateTime = m.lastGlobalUpdate
    BY <1>1, <1>2, <2>1, <2>2 DEF PositionType
  <2>4. UpToDate(m, a)
    BY <1>1, <1>2, <2>3 DEF UpToDate, Lags
  <2> QED BY <1>1, <1>2, <2>1, <2>3, <2>4 DEF i, a
<1>3. CASE p.borrowAmount > 0
  <2>1. /\ p.interestIndex \in Nat \ {0}
        /\ p.interestIndex >= INITIAL_INTEREST_INDEX
        /\ p.interestIndex <= m.globalIndex
        /\ UserIndex(m, p) = p.interestIndex
    BY <1>1, <1>3, InterestConstants DEF Lags, UserIndex
  <2>2. i \in Nat
    <3>1. /\ DebtAt(p.borrowAmount, p.interestIndex, m.globalIndex) \in Nat
          /\ DebtAt(p.borrowAmount, p.interestIndex, m.globalIndex)
               >= p.borrowAmount
      BY <1>1, <2>1, DebtGrows
    <3> QED BY <1>1, <2>1, <3>1 DEF Charge
  <2> DEFINE b == p.borrowAmount + i
  <2>3. a = [p EXCEPT !.borrowAmount = b,
                      !.interestIndex = m.globalIndex,
                      !.lastUpdateTime = m.lastGlobalUpdate]
    <3>1. (IF m.globalIndex > UserIndex(m, p)
           THEN m.globalIndex ELSE UserIndex(m, p)) = m.globalIndex
      BY <1>1, <2>1
    <3>2. p.borrowAmount # 0
      BY <1>3
    <3> QED BY <3>1, <3>2 DEF UserAccrued
  <2>6. b \in Nat
    BY <1>1, <2>2
  <2> HIDE DEF i, a, b
  <2>4. /\ a \in PositionType
        /\ a.depositAmount = p.depositAmount
        /\ a.borrowAmount = b
        /\ a.interestIndex = m.globalIndex
        /\ a.lastUpdateTime = m.lastGlobalUpdate
    BY <1>1, <2>6, <2>3 DEF PositionType
  <2>5. UpToDate(m, a)
    BY <1>1, <1>3, <2>1, <2>2, <2>4, InterestConstants DEF UpToDate, Lags, b
  <2>7. a.interestIndex >= p.interestIndex
    BY <1>1, <2>1, <2>4
  <2> QED BY <1>3, <2>2, <2>4, <2>5, <2>7 DEF i, a, b
<1> QED BY <1>1, <1>2, <1>3

(* The two updates with which a user operation starts, on a state that     *)
(* satisfies the invariant.                                                *)
LEMMA EntryAccrual ==
  ASSUME TypeOK, DebtIndexed, NEW t \in Tokens, NEW u \in Users
  PROVE  LET m == AccruedMarket(t, u)
             p == AccruedPosition(t, u)
             i == Interest(t, u)
         IN  /\ i \in Nat
             /\ position[t][u].borrowAmount = 0 => i = 0
             /\ m \in MarketType
             /\ m.globalIndex >= market[t].globalIndex
             /\ m.lastGlobalUpdate = now
             /\ m.totalDeposits = market[t].totalDeposits
             /\ m.totalBorrows = market[t].totalBorrows + i
             /\ m.cash = market[t].cash
             /\ p \in PositionType
             /\ p.depositAmount = position[t][u].depositAmount
             /\ p.borrowAmount = position[t][u].borrowAmount + i
             /\ p.interestIndex >= position[t][u].interestIndex
             /\ UpToDate(m, p)
<1> DEFINE r == config[t].interestRate
           q == position[t][u]
           g == GlobalAccrued(market[t], r, now)
           i == Interest(t, u)
           m == AccruedMarket(t, u)
           p == AccruedPosition(t, u)
<1>1. /\ market[t] \in MarketType /\ q \in PositionType
      /\ r \in Nat /\ now \in Nat
  BY DEF TypeOK, ConfigType
<1>2. Lags(market[t], q) /\ market[t].lastGlobalUpdate <= now
  BY DEF DebtIndexed, Lags, IndexFloor
<1>3. /\ g \in MarketType
      /\ g.globalIndex >= market[t].globalIndex
      /\ IndexFloor(market[t]) => IndexFloor(g)
      /\ g.lastGlobalUpdate = now
      /\ g.totalDeposits = market[t].totalDeposits
      /\ g.totalBorrows = market[t].totalBorrows
      /\ g.cash = market[t].cash
  BY <1>1, <1>2, GlobalAccrual
<1>4. Lags(g, q)
  <2>1. /\ q.interestIndex \in Nat /\ q.lastUpdateTime \in Nat
        /\ market[t].globalIndex \in Nat /\ g.globalIndex \in Nat
        /\ market[t].lastGlobalUpdate \in Nat
    BY <1>1, <1>3 DEF MarketType, PositionType
  <2> HIDE DEF g, q
  <2> QED BY <1>1, <1>2, <1>3, <2>1 DEF Lags
<1>5. i = Charge(g, q) /\ p = UserAccrued(g, q, g.lastGlobalUpdate)
  BY <1>3 DEF Interest, AccruedPosition
<1>6. m = [g EXCEPT !.totalBorrows = g.totalBorrows + i]
  BY DEF AccruedMarket
<1> HIDE DEF r, q, g, i, m, p
<1>7. /\ i \in Nat
      /\ q.borrowAmount = 0 => i = 0
      /\ p \in PositionType
      /\ p.depositAmount = q.depositAmount
      /\ p.borrowAmount = q.borrowAmount + i
      /\ p.interestIndex >= q.interestIndex
      /\ UpToDate(g, p)
  BY <1>1, <1>3, <1>4, <1>5, UserAccrual
<1>8. g.totalBorrows + i \in Nat
  BY <1>3, <1>7 DEF MarketType
<1>9. /\ m \in MarketType
      /\ m.globalIndex = g.globalIndex
      /\ m.lastGlobalUpdate = g.lastGlobalUpdate
      /\ m.totalDeposits = g.totalDeposits
      /\ m.totalBorrows = g.totalBorrows + i
      /\ m.cash = g.cash
  BY <1>3, <1>6, <1>8 DEF MarketType
<1>10. UpToDate(m, p)
  BY <1>7, <1>9 DEF UpToDate, Lags, IndexFloor
<1> QED BY <1>3, <1>7, <1>9, <1>10 DEF q, i, m, p

-----------------------------------------------------------------------------
(***************************************************************************)
(* The inductive invariant.  DebtIndexed is needed for TypeOK (a charge is *)
(* a natural only because indices never fall) and for itself.              *)
(***************************************************************************)
IInv == TypeOK /\ DebtIndexed

LEMMA InitIInv == Init => IInv
<1> SUFFICES ASSUME Init PROVE TypeOK /\ DebtIndexed
  BY DEF IInv
<1>1. TypeOK
  BY DEF Init, TypeOK, MarketType, PositionType, ConfigType, HistoryType,
         UnsupportedToken
<1>2. DebtIndexed
  BY DEF Init, DebtIndexed
<1> QED BY <1>1, <1>2

(* Replacing one entry keeps DebtIndexed when the markets only move        *)
(* forward and the new entry is indexed.                                   *)
LEMMA EntryReplaced ==
  ASSUME TypeOK, DebtIndexed, NEW t \in Tokens, NEW u \in Users,
         NEW p \in PositionType, now' = now,
         market' \in [Tokens -> MarketType],
         position' = [position EXCEPT ![t][u] = p],
         \A x \in Tokens :
           /\ market'[x].globalIndex >= market[x].globalIndex
           /\ market'[x].lastGlobalUpdate >= market[x].lastGlobalUpdate
           /\ market'[x].lastGlobalUpdate <= now
           /\ IndexFloor(market[x]) => IndexFloor(market'[x]),
         p.interestIndex >= position[t][u].interestIndex \/ p.borrowAmount = 0,
         Lags(market'[t], p)
  PROVE  /\ position' \in [Tokens -> [Users -> PositionType]]
         /\ DebtIndexed'
         /\ IndicesRise
<1>1. position' \in [Tokens -> [Users -> PositionType]]
  BY DEF TypeOK
<1>2. ASSUME NEW x \in Tokens, NEW v \in Users
      PROVE  Lags(market'[x], position'[x][v])
  <2>1. CASE x = t /\ v = u
    <3>1. position'[x][v] = p
      BY <2>1 DEF TypeOK
    <3> QED BY <2>1, <3>1
  <2>2. CASE ~(x = t /\ v = u)
    <3>1. position'[x][v] = position[x][v]
      BY <2>2 DEF TypeOK
    <3>2. Lags(market[x], position[x][v])
      BY DEF DebtIndexed, Lags, IndexFloor
    <3>3. /\ position[x][v].interestIndex \in Nat
          /\ position[x][v].lastUpdateTime \in Nat
          /\ market[x].globalIndex \in Nat /\ market'[x].globalIndex \in Nat
          /\ market[x].lastGlobalUpdate \in Nat
          /\ market'[x].lastGlobalUpdate \in Nat
      BY DEF TypeOK, MarketType, PositionType
    <3> QED BY <3>1, <3>2, <3>3 DEF Lags
  <2> QED BY <2>1, <2>2
<1>3. DebtIndexed'
  <2> SUFFICES ASSUME NEW x \in Tokens, NEW v \in Users
               PROVE  /\ Lags(market'[x], position'[x][v])
                      /\ market'[x].lastGlobalUpdate <= now'
    BY DEF DebtIndexed, Lags, IndexFloor
  <2> QED BY <1>2
<1>4. ASSUME NEW x \in Tokens, NEW v \in Users,
             position'[x][v].interestIndex < position[x][v].interestIndex
      PROVE  position'[x][v].borrowAmount = 0
  <2>1. /\ position[x][v].interestIndex \in Nat
        /\ p.interestIndex \in Nat
    BY DEF TypeOK, PositionType
  <2>2. CASE x = t /\ v = u
    <3>1. position'[x][v] = p
      BY <2>2 DEF TypeOK
    <3> QED BY <1>4, <2>1, <2>2, <3>1
  <2>3. CASE ~(x = t /\ v = u)
    <3>1. position'[x][v] = position[x][v]
      BY <2>3 DEF TypeOK
    <3> QED BY <1>4, <2>1, <3>1
  <2> QED BY <2>2, <2>3
<1> QED BY <1>1, <1>3, <1>4 DEF IndicesRise

-----------------------------------------------------------------------------
(***************************************************************************)
(* The views.                                                              *)
(***************************************************************************)
(* getCurrentGlobalIndex foresees what updateGlobalInterest will store, on *)
(* every market that has an index at all.                                  *)
LEMMA ForeseenIndex ==
  ASSUME NEW m \in MarketType, NEW rate \in Nat, now \in Nat,
         m.lastGlobalUpdate <= now, m.globalIndex # 0
  PROVE  CurrentGlobalIndex(m, rate) = GlobalAccrued(m, rate, now).globalIndex
<1> DEFINE elapsed == now - m.lastGlobalUpdate
           new     == GrownIndex(m.globalIndex, rate, elapsed)
           index   == IF m.totalBorrows > 0 /\ new > m.globalIndex
                      THEN new ELSE m.globalIndex
<1>1. /\ m.globalIndex \in Nat /\ m.lastGlobalUpdate \in Nat
      /\ m.totalBorrows \in Nat /\ elapsed \in Nat
  BY DEF MarketType
<1>2. new \in Nat /\ new >= m.globalIndex
  BY <1>1, IndexGrows
<1>3. elapsed = 0 => new = m.globalIndex
  BY <1>1, IndexAtRest
<1>4. IndexOrInitial(m) = m.globalIndex
  BY DEF IndexOrInitial
<1>5. GlobalAccrued(m, rate, now).globalIndex = index
  BY <1>4 DEF GlobalAccrued, MarketType
<1>6. CurrentGlobalIndex(m, rate)
        = IF m.lastGlobalUpdate < now /\ m.totalBorrows > 0
          THEN new ELSE m.globalIndex
  BY <1>4 DEF CurrentGlobalIndex
<1>7. m.lastGlobalUpdate < now \/ elapsed = 0
  BY <1>1
<1> HIDE DEF new, elapsed
<1> QED BY <1>1, <1>2, <1>3, <1>5, <1>6, <1>7

LEMMA ViewIsCommitted ==
  ASSUME IInv
  PROVE  ViewMatchesCommit
<1> SUFFICES ASSUME NEW t \in Tokens, NEW u \in Users
             PROVE  Debt(t, u) = AccruedPosition(t, u).borrowAmount
  BY DEF ViewMatchesCommit
<1> DEFINE m == market[t]
           p == position[t][u]
           r == config[t].interestRate
           g == GlobalAccrued(m, r, now)
<1>1. /\ m \in MarketType /\ p \in PositionType /\ r \in Nat /\ now \in Nat
      /\ p.borrowAmount \in Nat /\ p.interestIndex \in Nat
      /\ m.globalIndex \in Nat
  BY DEF IInv, TypeOK, ConfigType, MarketType, PositionType
<1>2. Lags(m, p) /\ m.lastGlobalUpdate <= now
  BY DEF IInv, DebtIndexed, Lags, IndexFloor
<1>3. AccruedPosition(t, u).borrowAmount = p.borrowAmount + Charge(g, p)
  BY <1>1 DEF AccruedPosition, UserAccrued, PositionType
<1>4. Debt(t, u) = CurrentBorrowAmount(m, p, r)
  BY DEF Debt
<1>5. g \in MarketType /\ g.globalIndex >= m.globalIndex
  BY <1>1, <1>2, GlobalAccrual
<1>6. g.globalIndex \in Nat
  BY <1>5 DEF MarketType
<1>7. m.globalIndex # 0 => CurrentGlobalIndex(m, r) = g.globalIndex
  BY <1>1, <1>2, ForeseenIndex
<1> HIDE DEF m, p, r, g
<1>8. CASE p.borrowAmount = 0
  BY <1>1, <1>3, <1>4, <1>8 DEF CurrentBorrowAmount, Charge
<1>9. CASE p.borrowAmount > 0
  <2>1. /\ p.interestIndex \in Nat \ {0}
        /\ p.interestIndex <= g.globalIndex
        /\ m.globalIndex # 0
        /\ UserIndex(g, p) = p.interestIndex
    BY <1>1, <1>2, <1>5, <1>6, <1>9 DEF Lags, UserIndex
  <2> DEFINE d == DebtAt(p.borrowAmount, p.interestIndex, g.globalIndex)
  <2>2. d \in Nat /\ d >= p.borrowAmount
    BY <1>1, <1>6, <2>1, DebtGrows
  <2>3. Debt(t, u) = d
    BY <1>4, <1>7, <1>9, <2>1 DEF CurrentBorrowAmount
  <2>4. p.interestIndex = g.globalIndex => d = p.borrowAmount
    BY <1>1, <2>1, DebtAtRest
  <2>5. Charge(g, p) = IF g.globalIndex > p.interestIndex
                       THEN d - p.borrowAmount ELSE 0
    BY <1>9, <2>1 DEF Charge
  <2> HIDE DEF d
  <2> QED BY <1>1, <1>3, <1>6, <2>1, <2>2, <2>3, <2>4, <2>5
<1> QED BY <1>1, <1>8, <1>9

-----------------------------------------------------------------------------
(***************************************************************************)
(* What a step does to the debts that the views report.                    *)
(***************************************************************************)
(* A position that is up to date with its market in this block owes what   *)
(* is stored.                                                              *)
LEMMA StoredDebt ==
  ASSUME NEW m \in MarketType, NEW p \in PositionType, NEW rate \in Nat,
         m.lastGlobalUpdate = now, now \in Nat, UpToDate(m, p)
  PROVE  CurrentBorrowAmount(m, p, rate) = p.borrowAmount
<1>1. /\ p.borrowAmount \in Nat /\ p.interestIndex \in Nat
      /\ m.globalIndex \in Nat
  BY DEF MarketType, PositionType
<1>2. CASE p.borrowAmount = 0
  BY <1>2 DEF CurrentBorrowAmount
<1>3. CASE p.borrowAmount # 0
  <2>1. /\ p.interestIndex \in Nat \ {0}
        /\ p.interestIndex = m.globalIndex
    BY <1>1, <1>3 DEF UpToDate, Lags
  <2>2. CurrentGlobalIndex(m, rate) = m.globalIndex
    BY <1>1, <2>1 DEF CurrentGlobalIndex, IndexOrInitial
  <2>3. CurrentBorrowAmount(m, p, rate)
          = DebtAt(p.borrowAmount, p.interestIndex, p.interestIndex)
    BY <1>1, <1>3, <2>1, <2>2 DEF CurrentBorrowAmount
  <2> QED BY <1>1, <2>1, <2>3, DebtAtRest
<1> QED BY <1>2, <1>3

(* Accrual of a market changes no debt as the views report it.             *)
LEMMA AccrualShowsNothing ==
  ASSUME NEW m \in MarketType, NEW n \in MarketType, NEW p \in PositionType,
         NEW rate \in Nat, now \in Nat, Lags(m, p),
         m.lastGlobalUpdate <= now, n.lastGlobalUpdate = now,
         m.globalIndex # 0 =>
           n.globalIndex = GlobalAccrued(m, rate, now).globalIndex
  PROVE  CurrentBorrowAmount(n, p, rate) = CurrentBorrowAmount(m, p, rate)
<1>1. /\ p.borrowAmount \in Nat /\ p.interestIndex \in Nat
      /\ m.globalIndex \in Nat /\ n.globalIndex \in Nat
  BY DEF MarketType, PositionType
<1>2. CASE p.borrowAmount = 0
  BY <1>2 DEF CurrentBorrowAmount
<1>3. CASE p.borrowAmount # 0
  <2>1. m.globalIndex # 0
    BY <1>1, <1>3 DEF Lags
  <2>2. CurrentGlobalIndex(m, rate) = n.globalIndex
    BY <2>1, ForeseenIndex
  <2>3. n.globalIndex # 0
    <3>1. GlobalAccrued(m, rate, now).globalIndex >= m.globalIndex
      BY GlobalAccrual
    <3> QED BY <1>1, <2>1, <3>1
  <2>4. CurrentGlobalIndex(n, rate) = n.globalIndex
    BY <1>1, <2>3 DEF CurrentGlobalIndex, IndexOrInitial
  <2> QED BY <2>2, <2>4 DEF CurrentBorrowAmount
<1> QED BY <1>2, <1>3

LEMMA DebtInNextState ==
  ASSUME now' = now, config' = config, NEW t \in Tokens, NEW u \in Users
  PROVE  Debt(t, u)' = CurrentBorrowAmount(market'[t], position'[t][u],
                                           config[t].interestRate)
BY DEF Debt, CurrentBorrowAmount, CurrentGlobalIndex

(* The position of user u in token t becomes p.                            *)
PositionReplaced(t, u, p) == position' = [position EXCEPT ![t][u] = p]

(* The step of one user on one token: that user's debt becomes what is     *)
(* stored, all other debts stay what they are.                             *)
LEMMA OneDebtMoves ==
  ASSUME IInv, NEW t \in Tokens, NEW u \in Users, NEW p \in PositionType,
         PositionReplaced(t, u, p), now' = now, config' = config,
         market' \in [Tokens -> MarketType],
         UpToDate(market'[t], p), market'[t].lastGlobalUpdate = now,
         market[t].globalIndex # 0 =>
           market'[t].globalIndex = AccruedMarket(t, u).globalIndex,
         \A x \in Tokens \ {t} :
           /\ market'[x].globalIndex = market[x].globalIndex
           /\ market'[x].lastGlobalUpdate = market[x].lastGlobalUpdate
           /\ market'[x].totalBorrows = market[x].totalBorrows
  PROVE  /\ Debt(t, u) = AccruedPosition(t, u).borrowAmount
         /\ Debt(t, u)' = p.borrowAmount
         /\ \A x \in Tokens, v \in Users :
              ~(x = t /\ v = u) => Debt(x, v)' = Debt(x, v)
<1>1. TypeOK /\ DebtIndexed /\ now \in Nat
  BY DEF IInv, TypeOK
<1>2. Debt(t, u) = AccruedPosition(t, u).borrowAmount
  BY ViewIsCommitted DEF ViewMatchesCommit
<1>3. /\ position'[t][u] = p
      /\ \A x \in Tokens, v \in Users :
           ~(x = t /\ v = u) => position'[x][v] = position[x][v]
  BY <1>1 DEF TypeOK, PositionReplaced
<1>4. \A x \in Tokens : config[x].interestRate \in Nat
  BY <1>1 DEF TypeOK, ConfigType
<1>5. Debt(t, u)' = p.borrowAmount
  <2>1. market'[t] \in MarketType
    OBVIOUS
  <2>2. Debt(t, u)'
          = CurrentBorrowAmount(market'[t], p, config[t].interestRate)
    BY <1>3, DebtInNextState
  <2> QED BY <1>1, <1>4, <2>1, <2>2, StoredDebt
<1>6. ASSUME NEW x \in Tokens, NEW v \in Users, ~(x = t /\ v = u)
      PROVE  Debt(x, v)' = Debt(x, v)
  <2> DEFINE m == market[x]
             n == market'[x]
             q == position[x][v]
             r == config[x].interestRate
  <2>1. /\ m \in MarketType /\ n \in MarketType /\ q \in PositionType
        /\ r \in Nat /\ position'[x][v] = q
    BY <1>1, <1>3, <1>4, <1>6 DEF TypeOK
  <2>2. Debt(x, v) = CurrentBorrowAmount(m, q, r)
    BY DEF Debt
  <2>3. Debt(x, v)' = CurrentBorrowAmount(n, q, r)
    BY <2>1, DebtInNextState
  <2>4. CASE x = t
    <3>1. Lags(m, q) /\ m.lastGlobalUpdate <= now
      BY <1>1 DEF DebtIndexed, Lags, IndexFloor
    <3>2. AccruedMarket(t, u).globalIndex
            = GlobalAccrued(market[t], config[t].interestRate, now).globalIndex
      <4>1. /\ market[t] \in MarketType /\ config[t].interestRate \in Nat
            /\ market[t].lastGlobalUpdate <= now
        BY <1>1, <1>4 DEF TypeOK, DebtIndexed
      <4>2. GlobalAccrued(market[t], config[t].interestRate, now)
              \in MarketType
        BY <1>1, <4>1, GlobalAccrual
      <4> QED BY <4>2 DEF AccruedMarket, MarketType
    <3>3. m.globalIndex # 0 =>
            n.globalIndex = GlobalAccrued(m, r, now).globalIndex
      BY <2>4, <3>2
    <3>4. n.lastGlobalUpdate = now
      BY <2>4
    <3> HIDE DEF m, n, q, r
    <3> QED BY <1>1, <2>1, <2>2, <2>3, <3>1, <3>3, <3>4, AccrualShowsNothing
  <2>5. CASE x # t
    <3>1. /\ n.globalIndex = m.globalIndex
          /\ n.lastGlobalUpdate = m.lastGlobalUpdate
          /\ n.totalBorrows = m.totalBorrows
      BY <2>5
    <3> HIDE DEF m, n, q, r
    <3> QED BY <2>2, <2>3, <3>1
            DEF CurrentBorrowAmount, CurrentGlobalIndex, IndexOrInitial
  <2> QED BY <2>4, <2>5
<1> QED BY <1>2, <1>5, <1>6

(* What the pool received for token t in this step.                        *)
Received(t) ==
  (market'[t].cash + history'[t].paidOut) - (market[t].cash + history[t].paidOut)

LEMMA ReceivedIs ==
  ASSUME NEW t \in Tokens, NEW paid \in Int, NEW out \in Nat,
         market[t] \in MarketType, history[t] \in HistoryType,
         market'[t].cash = market[t].cash + paid - out,
         history'[t].paidOut = history[t].paidOut + out
  PROVE  Received(t) = paid
<1> DEFINE a == market[t].cash
           b == market'[t].cash
           c == history[t].paidOut
           d == history'[t].paidOut
<1>1. a \in Nat /\ c \in Nat /\ b = a + paid - out /\ d = c + out
  BY DEF MarketType, HistoryType
<1> HIDE DEF a, b, c, d
<1>2. (b + d) - (a + c) = paid
  BY <1>1
<1> QED BY <1>2 DEF Received, a, b, c, d

LEMMA PaidDebtsFall ==
  ASSUME NEW t \in Tokens, NEW u \in Users,
         \A x \in Tokens, v \in Users :
           ~(x = t /\ v = u) => Debt(x, v)' = Debt(x, v),
         \A x \in Tokens, v \in Users : Debt(x, v) \in Nat,
         Debt(t, u)' < Debt(t, u) => Debt(t, u) - Debt(t, u)' = Received(t)
  PROVE  DebtsFallByPayment
<1> SUFFICES ASSUME NEW x \in Tokens, NEW v \in Users,
                    Debt(x, v)' < Debt(x, v)
             PROVE  /\ Debt(x, v) - Debt(x, v)' = Received(x)
                    /\ \A w \in Users \ {v} : Debt(x, w)' = Debt(x, w)
  BY DEF DebtsFallByPayment, Received
<1>1. Debt(x, v) \in Nat
  OBVIOUS
<1>2. ~(Debt(x, v)' = Debt(x, v))
  BY <1>1
<1>3. x = t /\ v = u
  BY <1>2
<1>4. ASSUME NEW w \in Users \ {v} PROVE Debt(x, w)' = Debt(x, w)
  BY <1>3
<1> QED BY <1>3, <1>4

LEMMA DebtIsNat ==
  ASSUME IInv, NEW t \in Tokens, NEW u \in Users
  PROVE  Debt(t, u) \in Nat
<1>1. AccruedPosition(t, u) \in PositionType
  BY EntryAccrual DEF IInv
<1>2. Debt(t, u) = AccruedPosition(t, u).borrowAmount
  BY ViewIsCommitted DEF ViewMatchesCommit
<1> QED BY <1>1, <1>2 DEF PositionType

(* Time, prices and pauses let every debt grow or stay.                    *)
LEMMA DebtsOnlyGrow ==
  ASSUME IInv, UNCHANGED <<market, position>>, now' \in Nat, now' >= now
  PROVE  DebtsFallByPayment
<1> SUFFICES ASSUME config' = config, NEW t \in Tokens, NEW u \in Users
             PROVE  ~(Debt(t, u)' < Debt(t, u))
  BY DEF DebtsFallByPayment
<1> DEFINE m == market[t]
           p == position[t][u]
           r == config[t].interestRate
           i == CurrentGlobalIndex(m, r)
           j == IF m.globalIndex # 0 /\ m.lastGlobalUpdate < now'
                     /\ m.totalBorrows > 0
                THEN GrownIndex(m.globalIndex, r, now' - m.lastGlobalUpdate)
                ELSE IndexOrInitial(m)
<1>1. TypeOK /\ DebtIndexed
  BY DEF IInv
<1>2. /\ m \in MarketType /\ p \in PositionType /\ r \in Nat
      /\ now \in Nat /\ Lags(m, p) /\ m.lastGlobalUpdate <= now
  BY <1>1 DEF TypeOK, ConfigType, DebtIndexed, Lags, IndexFloor
<1>3. /\ p.borrowAmount \in Nat /\ p.interestIndex \in Nat
      /\ m.globalIndex \in Nat /\ m.lastGlobalUpdate \in Nat
      /\ m.totalBorrows \in Nat
  BY <1>2 DEF MarketType, PositionType
<1>4. Debt(t, u) = IF p.borrowAmount = 0 THEN 0
                   ELSE DebtAt(p.borrowAmount,
                               IF p.interestIndex = 0
                               THEN INITIAL_INTEREST_INDEX
                               ELSE p.interestIndex, i)
  BY DEF Debt, CurrentBorrowAmount
<1>5. Debt(t, u)' = IF p.borrowAmount = 0 THEN 0
                    ELSE DebtAt(p.borrowAmount,
                                IF p.interestIndex = 0
                                THEN INITIAL_INTEREST_INDEX
                                ELSE p.interestIndex, j)
  BY DEF Debt, CurrentBorrowAmount, CurrentGlobalIndex, IndexOrInitial
<1>6. CASE p.borrowAmount = 0
  <2>1. Debt(t, u) = 0 /\ Debt(t, u)' = 0
    BY <1>4, <1>5, <1>6
  <2> QED BY <2>1
<1>7. CASE p.borrowAmount # 0
  <2>1. p.interestIndex \in Nat \ {0} /\ m.globalIndex # 0
    BY <1>2, <1>3, <1>7 DEF Lags
  <2>2. IndexOrInitial(m) = m.globalIndex
    BY <2>1 DEF IndexOrInitial
  <2>3. i \in Nat /\ j \in Nat /\ i <= j
    <3> DEFINE a == now - m.lastGlobalUpdate
               b == now' - m.lastGlobalUpdate
    <3>1. a \in Nat /\ b \in Nat /\ a <= b
      BY <1>2, <1>3
    <3>2. /\ i = IF m.lastGlobalUpdate < now /\ m.totalBorrows > 0
                 THEN GrownIndex(m.globalIndex, r, a) ELSE m.globalIndex
          /\ j = IF m.lastGlobalUpdate < now' /\ m.totalBorrows > 0
                 THEN GrownIndex(m.globalIndex, r, b) ELSE m.globalIndex
      BY <2>1, <2>2 DEF CurrentGlobalIndex
    <3> HIDE DEF a, b, i, j
    <3>3. /\ GrownIndex(m.globalIndex, r, a) \in Nat
          /\ GrownIndex(m.globalIndex, r, b) \in Nat
          /\ GrownIndex(m.globalIndex, r, b) >= m.globalIndex
      BY <1>2, <1>3, <3>1, IndexGrows
    <3>4. GrownIndex(m.globalIndex, r, a) <= GrownIndex(m.globalIndex, r, b)
      BY <1>2, <1>3, <3>1, IndexRisesWithTime
    <3> HIDE DEF m, p, r
    <3> QED BY <1>2, <1>3, <3>2, <3>3, <3>4
  <2> HIDE DEF m, p, r, i, j
  <2>4. DebtAt(p.borrowAmount, p.interestIndex, i)
          <= DebtAt(p.borrowAmount, p.interestIndex, j)
    BY <1>3, <2>1, <2>3, DebtRisesWithIndex
  <2>5. /\ Debt(t, u) = DebtAt(p.borrowAmount, p.interestIndex, i)
        /\ Debt(t, u)' = DebtAt(p.borrowAmount, p.interestIndex, j)
    BY <1>4, <1>5, <1>7, <2>1
  <2>6. /\ DebtAt(p.borrowAmount, p.interestIndex, i) \in Nat
        /\ DebtAt(p.borrowAmount, p.interestIndex, j) \in Nat
    <3>1. p.borrowAmount * i \in Nat /\ p.borrowAmount * j \in Nat
      BY <1>3, <2>3
    <3> QED BY <2>1, <3>1, Quotient DEF DebtAt
  <2> QED BY <2>4, <2>5, <2>6
<1> QED BY <1>6, <1>7

-----------------------------------------------------------------------------
(***************************************************************************)
(* The totals and the sums of the positions.  One position changes in a    *)
(* step, so that a sum changes by the difference of one term.              *)
(***************************************************************************)
(* What liquidators were paid, in WETH, is what they seized in any token.  *)
PayoutsMatch ==
  /\ \A t \in Tokens \ {WETH} : history[t].paidOut = 0
  /\ history[WETH].paidOut = history[WETH].seized + SeizedElsewhere

(* Three invariants that IInv does not need and every step keeps, and what *)
(* every step does to the debts that the views report.                     *)
BooksKept ==
  /\ BooksBalance => BooksBalance'
  /\ TotalsCoverPositions => TotalsCoverPositions'
  /\ PayoutsMatch => PayoutsMatch'
  /\ DebtsFallByPayment

LEMMA SumsAreNatural ==
  ASSUME TypeOK, NEW x \in Tokens
  PROVE  /\ AllDebts(x) \in Nat /\ AllDeposits(x) \in Nat
         /\ SeizedElsewhere \in Nat
<1> DEFINE f == [v \in Users |-> position[x][v].borrowAmount]
           g == [v \in Users |-> position[x][v].depositAmount]
           h == [t \in Tokens \ {WETH} |-> history[t].seized]
<1>1. f \in [Users -> Nat] /\ g \in [Users -> Nat]
  BY DEF TypeOK, PositionType
<1>2. h \in [Tokens \ {WETH} -> Nat]
  BY DEF TypeOK, HistoryType
<1>3. IsFiniteSet(Users) /\ IsFiniteSet(Tokens \ {WETH})
  BY PoolConstants, FS_Difference
<1> HIDE DEF f, g, h
<1>4. /\ SumFunction(f) \in Nat /\ SumFunction(g) \in Nat
      /\ SumFunction(h) \in Nat
  BY <1>1, <1>2, <1>3, SumIsNatural
<1> QED BY <1>4 DEF AllDebts, AllDeposits, SeizedElsewhere, f, g, h

(* The totals of market m, with history h, match these sums.               *)
Covers(m, h, debts, deposits) ==
  /\ m.totalBorrows = debts + h.liquidated
  /\ m.totalDeposits = deposits + h.seized

(* The totals move from market m to n with the position, from q to p, and  *)
(* with what the history, from h to k, records as liquidated and seized.   *)
TotalsMove(m, n, q, p, h, k) ==
  /\ n.totalBorrows + q.borrowAmount + h.liquidated
       = m.totalBorrows + p.borrowAmount + k.liquidated
  /\ n.totalDeposits + q.depositAmount + h.seized
       = m.totalDeposits + p.depositAmount + k.seized

(* Sums move with one position, from q to p.                               *)
SumsMove(debts, debts2, deposits, deposits2, q, p) ==
  /\ debts2 + q.borrowAmount = debts + p.borrowAmount
  /\ deposits2 + q.depositAmount = deposits + p.depositAmount

LEMMA SumsFollow ==
  ASSUME TypeOK, NEW t \in Tokens, NEW u \in Users, NEW p \in PositionType,
         PositionReplaced(t, u, p)
  PROVE  /\ AllDebts(t) \in Nat /\ AllDebts(t)' \in Nat
         /\ AllDeposits(t) \in Nat /\ AllDeposits(t)' \in Nat
         /\ SumsMove(AllDebts(t), AllDebts(t)',
                     AllDeposits(t), AllDeposits(t)', position[t][u], p)
         /\ \A x \in Tokens \ {t} :
              /\ AllDebts(x)' = AllDebts(x)
              /\ AllDeposits(x)' = AllDeposits(x)
<1> DEFINE f  == [v \in Users |-> position[t][v].borrowAmount]
           ff == [v \in Users |-> position'[t][v].borrowAmount]
           g  == [v \in Users |-> position[t][v].depositAmount]
           gg == [v \in Users |-> position'[t][v].depositAmount]
<1>1. IsFiniteSet(Users)
  BY PoolConstants
<1>2. /\ position \in [Tokens -> [Users -> PositionType]]
      /\ position' \in [Tokens -> [Users -> PositionType]]
      /\ position'[t][u] = p
      /\ \A v \in Users \ {u} : position'[t][v] = position[t][v]
      /\ \A x \in Tokens \ {t} : position'[x] = position[x]
  BY DEF TypeOK, PositionReplaced
<1>3. /\ f \in [Users -> Nat] /\ ff \in [Users -> Nat]
      /\ g \in [Users -> Nat] /\ gg \in [Users -> Nat]
  BY <1>2 DEF PositionType
<1>4. /\ f[u] = position[t][u].borrowAmount /\ ff[u] = p.borrowAmount
      /\ g[u] = position[t][u].depositAmount /\ gg[u] = p.depositAmount
      /\ \A v \in Users \ {u} : ff[v] = f[v] /\ gg[v] = g[v]
  BY <1>2
<1>5. /\ AllDebts(t) = SumFunction(f) /\ AllDebts(t)' = SumFunction(ff)
      /\ AllDeposits(t) = SumFunction(g)
      /\ AllDeposits(t)' = SumFunction(gg)
  BY DEF AllDebts, AllDeposits
<1> HIDE DEF f, ff, g, gg
<1>6. SumFunction(ff) + f[u] = SumFunction(f) + ff[u]
  BY <1>1, <1>3, <1>4, SumReplaced
<1>7. SumFunction(gg) + g[u] = SumFunction(g) + gg[u]
  BY <1>1, <1>3, <1>4, SumReplaced
<1>8. ASSUME NEW x \in Tokens \ {t}
      PROVE  AllDebts(x)' = AllDebts(x) /\ AllDeposits(x)' = AllDeposits(x)
  BY <1>2 DEF AllDebts, AllDeposits
<1>9. /\ SumFunction(f) \in Nat /\ SumFunction(ff) \in Nat
      /\ SumFunction(g) \in Nat /\ SumFunction(gg) \in Nat
  BY <1>1, <1>3, SumIsNatural
<1> QED BY <1>4, <1>5, <1>6, <1>7, <1>8, <1>9 DEF SumsMove

LEMMA TotalFollows ==
  ASSUME NEW m \in MarketType, NEW n \in MarketType,
         NEW q \in PositionType, NEW p \in PositionType,
         NEW h \in HistoryType, NEW k \in HistoryType,
         NEW debts \in Nat, NEW debts2 \in Nat,
         NEW deposits \in Nat, NEW deposits2 \in Nat,
         Covers(m, h, debts, deposits), TotalsMove(m, n, q, p, h, k),
         SumsMove(debts, debts2, deposits, deposits2, q, p)
  PROVE  Covers(n, k, debts2, deposits2)
<1> DEFINE a == n.totalBorrows
           b == q.borrowAmount
           c == h.liquidated
           d == p.borrowAmount
           e == k.liquidated
<1>1. /\ a \in Nat /\ b \in Nat /\ c \in Nat /\ d \in Nat /\ e \in Nat
      /\ a + b + c = (debts + c) + d + e
      /\ debts2 + b = debts + d
  BY DEF MarketType, PositionType, HistoryType,
         Covers, TotalsMove, SumsMove
<1> DEFINE aa == n.totalDeposits
           bb == q.depositAmount
           cc == h.seized
           dd == p.depositAmount
           ee == k.seized
<1>2. /\ aa \in Nat /\ bb \in Nat /\ cc \in Nat /\ dd \in Nat
      /\ ee \in Nat
      /\ aa + bb + cc = (deposits + cc) + dd + ee
      /\ deposits2 + bb = deposits + dd
  BY DEF MarketType, PositionType, HistoryType,
         Covers, TotalsMove, SumsMove
<1> HIDE DEF a, b, c, d, e, aa, bb, cc, dd, ee
<1>3. a = debts2 + e
  BY <1>1
<1>4. aa = deposits2 + ee
  BY <1>2
<1> QED BY <1>3, <1>4 DEF Covers, a, e, aa, ee

(* A step in which each total moves with the one position that changes,    *)
(* but for what it records as liquidated and seized.                       *)
LEMMA TotalsFollow ==
  ASSUME TypeOK, NEW t \in Tokens, NEW u \in Users, NEW p \in PositionType,
         market' \in [Tokens -> MarketType],
         history' \in [Tokens -> HistoryType],
         PositionReplaced(t, u, p),
         TotalsMove(market[t], market'[t], position[t][u], p,
                    history[t], history'[t]),
         \A x \in Tokens \ {t} :
           /\ market'[x].totalBorrows = market[x].totalBorrows
           /\ market'[x].totalDeposits = market[x].totalDeposits
           /\ history'[x].liquidated = history[x].liquidated
           /\ history'[x].seized = history[x].seized
  PROVE  TotalsCoverPositions => TotalsCoverPositions'
<1> SUFFICES ASSUME TotalsCoverPositions, NEW x \in Tokens
             PROVE  Covers(market'[x], history'[x],
                           AllDebts(x)', AllDeposits(x)')
  BY DEF TotalsCoverPositions, Covers
<1>1. Covers(market[x], history[x], AllDebts(x), AllDeposits(x))
  BY DEF TotalsCoverPositions, Covers
<1>2. CASE x # t
  <2>1. AllDebts(x)' = AllDebts(x) /\ AllDeposits(x)' = AllDeposits(x)
    BY <1>2, SumsFollow
  <2> QED BY <1>1, <1>2, <2>1 DEF Covers
<1>3. CASE x = t
  <2>1. /\ SumsMove(AllDebts(t), AllDebts(t)',
                    AllDeposits(t), AllDeposits(t)', position[t][u], p)
        /\ AllDebts(t) \in Nat /\ AllDebts(t)' \in Nat
        /\ AllDeposits(t) \in Nat /\ AllDeposits(t)' \in Nat
    BY SumsFollow
  <2>2. /\ market[t] \in MarketType /\ market'[t] \in MarketType
        /\ history[t] \in HistoryType /\ history'[t] \in HistoryType
        /\ position[t][u] \in PositionType
    BY DEF TypeOK
  <2>3. Covers(market[t], history[t], AllDebts(t), AllDeposits(t))
    BY <1>1, <1>3
  <2>4. Covers(market'[t], history'[t], AllDebts(t)', AllDeposits(t)')
    BY <2>1, <2>2, <2>3, TotalFollows
  <2> QED BY <1>3, <2>4
<1> QED BY <1>2, <1>3

LEMMA EntryFollows ==
  ASSUME NEW m \in MarketType, NEW n \in MarketType,
         NEW q \in PositionType, NEW p \in PositionType,
         NEW h \in HistoryType, NEW k \in HistoryType,
         n.totalBorrows - m.totalBorrows = p.borrowAmount - q.borrowAmount,
         n.totalDeposits - m.totalDeposits
           = p.depositAmount - q.depositAmount,
         k.liquidated = h.liquidated, k.seized = h.seized
  PROVE  TotalsMove(m, n, q, p, h, k)
<1> DEFINE a == m.totalBorrows
           b == n.totalBorrows
           c == p.borrowAmount
           d == q.borrowAmount
           e == h.liquidated
<1>1. /\ a \in Nat /\ b \in Nat /\ c \in Nat /\ d \in Nat /\ e \in Nat
      /\ b - a = c - d
  BY DEF MarketType, PositionType, HistoryType
<1> DEFINE aa == m.totalDeposits
           bb == n.totalDeposits
           cc == p.depositAmount
           dd == q.depositAmount
           ee == h.seized
<1>2. /\ aa \in Nat /\ bb \in Nat /\ cc \in Nat /\ dd \in Nat
      /\ ee \in Nat /\ bb - aa = cc - dd
  BY DEF MarketType, PositionType, HistoryType
<1> HIDE DEF a, b, c, d, e, aa, bb, cc, dd, ee
<1>3. b + d + e = a + c + e
  BY <1>1
<1>4. bb + dd + ee = aa + cc + ee
  BY <1>2
<1> QED BY <1>3, <1>4 DEF TotalsMove, a, b, c, d, e, aa, bb, cc, dd, ee

LEMMA PayoutsFollow ==
  ASSUME TypeOK, NEW t \in Tokens, NEW seize \in Nat,
         history' \in [Tokens -> HistoryType],
         \A x \in Tokens :
           /\ history'[x].seized
                = history[x].seized + (IF x = t THEN seize ELSE 0)
           /\ history'[x].paidOut
                = history[x].paidOut + (IF x = WETH THEN seize ELSE 0)
  PROVE  PayoutsMatch => PayoutsMatch'
<1> DEFINE f  == [x \in Tokens \ {WETH} |-> history[x].seized]
           ff == [x \in Tokens \ {WETH} |-> history'[x].seized]
<1>1. /\ IsFiniteSet(Tokens \ {WETH}) /\ WETH \in Tokens
  BY PoolConstants, FS_Difference
<1>2. ASSUME NEW x \in Tokens
      PROVE  /\ history[x].seized \in Nat /\ history'[x].seized \in Nat
             /\ history[x].paidOut \in Nat /\ history'[x].paidOut \in Nat
  BY DEF TypeOK, HistoryType
<1>3. f \in [Tokens \ {WETH} -> Nat] /\ ff \in [Tokens \ {WETH} -> Nat]
  BY <1>2
<1>4. SeizedElsewhere = SumFunction(f) /\ SeizedElsewhere' = SumFunction(ff)
  BY DEF SeizedElsewhere
<1>5. \A x \in Tokens \ {WETH} :
        f[x] = history[x].seized /\ ff[x] = history'[x].seized
  OBVIOUS
<1> HIDE DEF f, ff
<1>6. SumFunction(f) \in Nat /\ SumFunction(ff) \in Nat
  BY <1>1, <1>3, SumIsNatural
<1>7. SumFunction(ff) = SumFunction(f) + (IF t = WETH THEN 0 ELSE seize)
  <2>1. CASE t = WETH
    <3>1. \A x \in Tokens \ {WETH} : ff[x] = f[x]
      BY <1>2, <1>5, <2>1
    <3>2. ff = f
      BY <1>3, <3>1
    <3> QED BY <1>6, <2>1, <3>2
  <2>2. CASE t # WETH
    <3>1. /\ \A x \in (Tokens \ {WETH}) \ {t} : ff[x] = f[x]
          /\ ff[t] = f[t] + seize
      BY <1>2, <1>5, <2>2
    <3>2. SumFunction(ff) + f[t] = SumFunction(f) + ff[t]
      BY <1>1, <1>3, <2>2, <3>1, SumReplaced
    <3>3. f[t] \in Nat /\ ff[t] \in Nat
      BY <1>3, <2>2
    <3> QED BY <1>6, <2>2, <3>1, <3>2, <3>3
  <2> QED BY <2>1, <2>2
<1> SUFFICES ASSUME PayoutsMatch PROVE PayoutsMatch'
  OBVIOUS
<1>8. ASSUME NEW x \in Tokens \ {WETH} PROVE history'[x].paidOut = 0
  BY <1>2 DEF PayoutsMatch
<1>9. history'[WETH].paidOut = history'[WETH].seized + SumFunction(ff)
  <2>1. /\ history[WETH].seized \in Nat /\ history'[WETH].seized \in Nat
        /\ history[WETH].paidOut \in Nat
    BY <1>1, <1>2
  <2>2. history[WETH].paidOut = history[WETH].seized + SumFunction(f)
    BY <1>4 DEF PayoutsMatch
  <2>3. /\ history'[WETH].seized
             = history[WETH].seized + (IF t = WETH THEN seize ELSE 0)
        /\ history'[WETH].paidOut = history[WETH].paidOut + seize
    BY <1>1
  <2> QED BY <1>6, <1>7, <2>1, <2>2, <2>3
<1> QED BY <1>4, <1>8, <1>9 DEF PayoutsMatch

(* No deposit, loan or seizure in the initial state.                       *)
LEMMA NothingOwed ==
  ASSUME Init
  PROVE  /\ \A t \in Tokens : AllDebts(t) = 0 /\ AllDeposits(t) = 0
         /\ SeizedElsewhere = 0
<1>1. ASSUME NEW t \in Tokens PROVE AllDebts(t) = 0 /\ AllDeposits(t) = 0
  <2> DEFINE f == [v \in Users |-> position[t][v].borrowAmount]
             g == [v \in Users |-> position[t][v].depositAmount]
  <2>1. /\ f \in [Users -> Nat] /\ \A v \in Users : f[v] = 0
        /\ g \in [Users -> Nat] /\ \A v \in Users : g[v] = 0
    BY DEF Init
  <2>2. IsFiniteSet(Users)
    BY PoolConstants
  <2> HIDE DEF f, g
  <2>3. SumFunction(f) = 0 /\ SumFunction(g) = 0
    BY <2>1, <2>2, SumOfZeros
  <2> QED BY <2>3 DEF AllDebts, AllDeposits, f, g
<1>2. SeizedElsewhere = 0
  <2> DEFINE h == [x \in Tokens \ {WETH} |-> history[x].seized]
  <2>1. h \in [Tokens \ {WETH} -> Nat] /\ \A x \in Tokens \ {WETH} : h[x] = 0
    BY DEF Init
  <2>2. IsFiniteSet(Tokens \ {WETH})
    BY PoolConstants, FS_Difference
  <2> HIDE DEF h
  <2>3. SumFunction(h) = 0
    BY <2>1, <2>2, SumOfZeros
  <2> QED BY <2>3 DEF SeizedElsewhere, h
<1> QED BY <1>1, <1>2

LEMMA ShortfallFollows ==
  ASSUME TypeOK, BooksBalance, TotalsCoverPositions, PayoutsMatch
  PROVE  SolventButForSeizures
<1> SUFFICES ASSUME NEW t \in Tokens
             PROVE  market[t].cash + AllDebts(t)
                      + (IF t = WETH THEN SeizedElsewhere ELSE 0)
                      >= AllDeposits(t)
  BY DEF SolventButForSeizures
<1>1. /\ AllDebts(t) \in Nat /\ AllDeposits(t) \in Nat
      /\ SeizedElsewhere \in Nat
  BY SumsAreNatural
<1>2. /\ market[t].cash \in Nat /\ market[t].totalBorrows \in Nat
      /\ market[t].totalDeposits \in Nat
      /\ history[t].interest \in Nat /\ history[t].liquidated \in Nat
      /\ history[t].seized \in Nat /\ history[t].paidOut \in Nat
  BY DEF TypeOK, MarketType, HistoryType
<1>3. market[t].cash + market[t].totalBorrows + history[t].paidOut
        = market[t].totalDeposits + history[t].interest
            + history[t].liquidated
  BY DEF BooksBalance
<1>4. /\ market[t].totalBorrows = AllDebts(t) + history[t].liquidated
      /\ market[t].totalDeposits = AllDeposits(t) + history[t].seized
  BY DEF TotalsCoverPositions
<1>5. CASE t = WETH
  <2>1. history[t].paidOut = history[t].seized + SeizedElsewhere
    BY <1>5 DEF PayoutsMatch
  <2> QED BY <1>1, <1>2, <1>3, <1>4, <1>5, <2>1
<1>6. CASE t # WETH
  <2>1. history[t].paidOut = 0
    BY <1>6 DEF PayoutsMatch
  <2> QED BY <1>1, <1>2, <1>3, <1>4, <1>6, <2>1
<1> QED BY <1>5, <1>6

LEMMA NoSeizedElsewhere ==
  ASSUME TypeOK, SolventButForSeizures, Tokens = {WETH}
  PROVE  Solvent
<1> DEFINE h == [x \in Tokens \ {WETH} |-> history[x].seized]
<1>1. /\ h \in [Tokens \ {WETH} -> Nat]
      /\ \A x \in Tokens \ {WETH} : h[x] = 0
      /\ IsFiniteSet(Tokens \ {WETH})
  BY FS_EmptySet
<1> HIDE DEF h
<1>2. SumFunction(h) = 0
  BY <1>1, SumOfZeros
<1>3. SeizedElsewhere = 0
  BY <1>2 DEF SeizedElsewhere, h
<1>4. ASSUME NEW t \in Tokens
      PROVE  market[t].cash + AllDebts(t) >= AllDeposits(t)
  <2>1. market[t].cash + AllDebts(t) + 0 >= AllDeposits(t)
    BY <1>3 DEF SolventButForSeizures
  <2>2. market[t].cash \in Nat /\ AllDebts(t) \in Nat
    BY SumsAreNatural DEF TypeOK, MarketType
  <2> QED BY <2>1, <2>2
<1> QED BY <1>4 DEF Solvent

-----------------------------------------------------------------------------
(* The books of one token.                                                 *)
Balanced(m, h) ==
  m.cash + m.totalBorrows + h.paidOut
    = m.totalDeposits + h.interest + h.liquidated

(* What every operation but a liquidation does to the state: one market,   *)
(* one position and one history record are replaced.                       *)
LEMMA StoreStep ==
  ASSUME IInv, NEW t \in Tokens, NEW u \in Users,
         NEW m \in MarketType, NEW p \in PositionType, NEW h \in HistoryType,
         Store(t, u, m, p),
         history' = [history EXCEPT ![t] = h],
         UNCHANGED <<config, price, paused, now>>,
         m.globalIndex >= market[t].globalIndex,
         m.lastGlobalUpdate = now,
         p.interestIndex >= position[t][u].interestIndex \/ p.borrowAmount = 0,
         Lags(m, p)
  PROVE  /\ IInv'
         /\ BooksBalance /\ Balanced(m, h) => BooksBalance'
         /\ IndicesRise
         /\ market' \in [Tokens -> MarketType]
         /\ history' \in [Tokens -> HistoryType]
         /\ market'[t] = m /\ history'[t] = h
         /\ \A x \in Tokens \ {t} :
              market'[x] = market[x] /\ history'[x] = history[x]
<1>1. /\ market' = [market EXCEPT ![t] = m]
      /\ position' = [position EXCEPT ![t][u] = p]
  BY DEF Store
<1>2. market' \in [Tokens -> MarketType] /\ market'[t] = m
  BY <1>1 DEF IInv, TypeOK
<1>3. ASSUME NEW x \in Tokens
      PROVE  /\ market'[x].globalIndex >= market[x].globalIndex
             /\ market'[x].lastGlobalUpdate >= market[x].lastGlobalUpdate
             /\ market'[x].lastGlobalUpdate <= now
             /\ IndexFloor(market[x]) => IndexFloor(market'[x])
  <2>1. /\ market[x].globalIndex \in Nat /\ market[x].lastGlobalUpdate \in Nat
        /\ now \in Nat
    BY DEF IInv, TypeOK, MarketType
  <2>2. market[x].lastGlobalUpdate <= now
    BY DEF IInv, DebtIndexed
  <2>3. CASE x = t
    BY <1>2, <2>1, <2>2, <2>3 DEF Lags
  <2>4. CASE x # t
    BY <1>1, <2>1, <2>2, <2>4 DEF IInv, TypeOK
  <2> QED BY <2>3, <2>4
<1>4. /\ position' \in [Tokens -> [Users -> PositionType]]
      /\ DebtIndexed'
      /\ IndicesRise
  BY <1>1, <1>2, <1>3, EntryReplaced DEF IInv
<1>5. history' \in [Tokens -> HistoryType]
  BY DEF IInv, TypeOK
<1>6. IInv'
  BY <1>2, <1>4, <1>5 DEF IInv, TypeOK
<1>7. ASSUME BooksBalance, Balanced(m, h) PROVE BooksBalance'
  <2> SUFFICES ASSUME NEW x \in Tokens
               PROVE  Balanced(market'[x], history'[x])
    BY DEF BooksBalance, Balanced
  <2>1. CASE x = t
    BY <1>2, <1>7, <2>1 DEF IInv, TypeOK
  <2>2. CASE x # t
    <3>1. market'[x] = market[x] /\ history'[x] = history[x]
      BY <1>1, <2>2 DEF IInv, TypeOK
    <3> QED BY <1>7, <3>1 DEF BooksBalance, Balanced
  <2> QED BY <2>1, <2>2
<1>8. /\ history'[t] = h
      /\ \A x \in Tokens \ {t} :
           market'[x] = market[x] /\ history'[x] = history[x]
  BY <1>1 DEF IInv, TypeOK
<1> QED BY <1>2, <1>4, <1>5, <1>6, <1>7, <1>8

(* The history record of t after interest has been added to it.            *)
LEMMA InterestRecorded ==
  ASSUME TypeOK, NEW t \in Tokens, NEW i \in Nat,
         history' = [history EXCEPT ![t].interest = @ + i]
  PROVE  \E h \in HistoryType :
           /\ history' = [history EXCEPT ![t] = h]
           /\ h.interest = history[t].interest + i
           /\ h.liquidated = history[t].liquidated
           /\ h.seized = history[t].seized
           /\ h.paidOut = history[t].paidOut
<1> DEFINE j == history[t].interest + i
           h == [history[t] EXCEPT !.interest = j]
<1>1. history[t] \in HistoryType
  BY DEF TypeOK
<1>2. j \in Nat
  BY <1>1 DEF HistoryType
<1>3. history' = [history EXCEPT ![t] = h]
  BY DEF TypeOK
<1> HIDE DEF j
<1>4. /\ h \in HistoryType
      /\ h.interest = j
      /\ h.liquidated = history[t].liquidated
      /\ h.seized = history[t].seized
      /\ h.paidOut = history[t].paidOut
  BY <1>1, <1>2 DEF HistoryType
<1> HIDE DEF h
<1> QED BY <1>3, <1>4 DEF j

LEMMA StillBalanced ==
  ASSUME NEW m \in MarketType, NEW n \in MarketType,
         NEW h \in HistoryType, NEW k \in HistoryType, NEW i \in Nat,
         Balanced(m, h),
         (n.cash - m.cash) + (n.totalBorrows - m.totalBorrows)
           = (n.totalDeposits - m.totalDeposits) + i,
         k.interest = h.interest + i,
         k.liquidated = h.liquidated, k.paidOut = h.paidOut
  PROVE  Balanced(n, k)
<1> DEFINE a == m.cash
           b == m.totalBorrows
           c == m.totalDeposits
           d == n.cash
           e == n.totalBorrows
           f == n.totalDeposits
           g == h.interest
           l == h.liquidated
           o == h.paidOut
<1>1. /\ a \in Nat /\ b \in Nat /\ c \in Nat /\ d \in Nat /\ e \in Nat
      /\ f \in Nat /\ g \in Nat /\ l \in Nat /\ o \in Nat
  BY DEF MarketType, HistoryType
<1>2. (d - a) + (e - b) = (f - c) + i
  OBVIOUS
<1>3. a + b + o = c + g + l
  BY DEF Balanced
<1> HIDE DEF a, b, c, d, e, f, g, l, o
<1>4. d + e + o = f + (g + i) + l
  BY <1>1, <1>2, <1>3
<1> QED BY <1>4 DEF Balanced, d, e, f, g, l, o

(* An operation that only adds the interest it charges to the history, and *)
(* moves cash, loans and deposits by amounts that cancel out.              *)
LEMMA EntryStep ==
  ASSUME IInv, NEW t \in Tokens, NEW u \in Users,
         NEW m \in MarketType, NEW p \in PositionType,
         NEW i \in Nat,
         Store(t, u, m, p),
         history' = [history EXCEPT ![t].interest = @ + i],
         UNCHANGED <<config, price, paused, now>>,
         m.globalIndex >= market[t].globalIndex,
         m.lastGlobalUpdate = now,
         p.interestIndex >= position[t][u].interestIndex \/ p.borrowAmount = 0,
         UpToDate(m, p),
         market[t].globalIndex # 0 =>
           m.globalIndex = AccruedMarket(t, u).globalIndex,
         p.borrowAmount < AccruedPosition(t, u).borrowAmount =>
           AccruedPosition(t, u).borrowAmount - p.borrowAmount
             = m.cash - market[t].cash,
         (m.cash - market[t].cash) + (m.totalBorrows - market[t].totalBorrows)
           = (m.totalDeposits - market[t].totalDeposits) + i,
         m.totalBorrows - market[t].totalBorrows
           = p.borrowAmount - position[t][u].borrowAmount,
         m.totalDeposits - market[t].totalDeposits
           = p.depositAmount - position[t][u].depositAmount
  PROVE  IInv' /\ BooksKept /\ IndicesRise
<1>1. TypeOK
  BY DEF IInv
<1>2. PICK h \in HistoryType :
           /\ history' = [history EXCEPT ![t] = h]
           /\ h.interest = history[t].interest + i
           /\ h.liquidated = history[t].liquidated
           /\ h.seized = history[t].seized
           /\ h.paidOut = history[t].paidOut
  BY <1>1, InterestRecorded, ZenonT(60)
<1>3. BooksBalance => Balanced(m, h)
  <2>1. BooksBalance => Balanced(market[t], history[t])
    BY DEF BooksBalance, Balanced
  <2>2. market[t] \in MarketType /\ history[t] \in HistoryType
    BY <1>1 DEF TypeOK
  <2> QED BY <1>2, <2>1, <2>2, StillBalanced
<1>4. /\ IInv'
      /\ BooksBalance /\ Balanced(m, h) => BooksBalance'
      /\ IndicesRise
      /\ market' \in [Tokens -> MarketType]
      /\ history' \in [Tokens -> HistoryType]
      /\ market'[t] = m /\ history'[t] = h
      /\ \A x \in Tokens \ {t} :
           market'[x] = market[x] /\ history'[x] = history[x]
  <2>1. Lags(m, p)
    BY DEF UpToDate
  <2> QED BY <1>2, <2>1, StoreStep
<1>5. TotalsCoverPositions => TotalsCoverPositions'
  <2>1. TotalsMove(market[t], market'[t], position[t][u], p,
                   history[t], history'[t])
    <3>1. /\ market[t] \in MarketType /\ history[t] \in HistoryType
          /\ position[t][u] \in PositionType
      BY <1>1 DEF TypeOK
    <3> QED BY <1>2, <1>4, <3>1, EntryFollows
  <2>2. PositionReplaced(t, u, p)
    BY DEF Store, PositionReplaced
  <2> QED BY <1>1, <1>4, <2>1, <2>2, TotalsFollow
<1>6. PayoutsMatch => PayoutsMatch'
  <2>1. ASSUME NEW x \in Tokens
        PROVE  /\ history'[x].seized
                    = history[x].seized + (IF x = t THEN 0 ELSE 0)
               /\ history'[x].paidOut
                    = history[x].paidOut + (IF x = WETH THEN 0 ELSE 0)
    <3>1. history[x].seized \in Nat /\ history[x].paidOut \in Nat
      BY <1>1 DEF TypeOK, HistoryType
    <3>2. /\ history'[x].seized = history[x].seized
          /\ history'[x].paidOut = history[x].paidOut
      BY <1>2, <1>4
    <3> QED BY <3>1, <3>2
  <2> QED BY <1>1, <1>4, <2>1, PayoutsFollow
<1>7. DebtsFallByPayment
  <2>1. PositionReplaced(t, u, p)
    BY DEF Store, PositionReplaced
  <2>2. /\ Debt(t, u) = AccruedPosition(t, u).borrowAmount
        /\ Debt(t, u)' = p.borrowAmount
        /\ \A x \in Tokens, v \in Users :
             ~(x = t /\ v = u) => Debt(x, v)' = Debt(x, v)
    BY <1>4, <2>1, OneDebtMoves
  <2>3. \A x \in Tokens, v \in Users : Debt(x, v) \in Nat
    BY DebtIsNat
  <2>4. Received(t) = m.cash - market[t].cash
    <3>1. /\ market[t] \in MarketType /\ history[t] \in HistoryType
          /\ market[t].cash \in Nat /\ m.cash \in Nat
          /\ history[t].paidOut \in Nat
      BY <1>1 DEF TypeOK, MarketType, HistoryType
    <3> DEFINE a == m.cash
               b == market[t].cash
    <3>2. /\ a \in Nat /\ b \in Nat
          /\ market'[t].cash = a
      BY <1>4, <3>1
    <3>3. history'[t].paidOut = history[t].paidOut + 0
      BY <1>2, <1>4, <3>1
    <3> HIDE DEF a, b
    <3>4. a - b \in Int /\ a = b + (a - b) - 0
      BY <3>2
    <3>5. market'[t].cash = market[t].cash + (a - b) - 0
      BY <3>2, <3>4 DEF b
    <3> QED BY <3>1, <3>3, <3>4, <3>5, ReceivedIs DEF a, b
  <2>5. Debt(t, u)' < Debt(t, u) => Debt(t, u) - Debt(t, u)' = Received(t)
    BY <2>2, <2>4
  <2> QED BY <2>2, <2>3, <2>5, PaidDebtsFall
<1> QED BY <1>3, <1>4, <1>5, <1>6, <1>7 DEF BooksKept

-----------------------------------------------------------------------------
(***************************************************************************)
(* LendingPool seen as a LendingBook.                                      *)
(***************************************************************************)
(* A nested function changed at one place.                                 *)
LEMMA NestedExcept ==
  ASSUME NEW A, NEW B, NEW S,
         NEW f \in [A -> [B -> S]], NEW g \in [A -> [B -> S]],
         NEW a \in A, NEW b \in B, NEW s \in S,
         \A x \in A, y \in B :
           g[x][y] = IF x = a /\ y = b THEN s ELSE f[x][y]
  PROVE  g = [f EXCEPT ![a][b] = s]
<1> DEFINE h == [f EXCEPT ![a][b] = s]
<1>1. h \in [A -> [B -> S]]
  OBVIOUS
<1>2. \A x \in A, y \in B : h[x][y] = IF x = a /\ y = b THEN s ELSE f[x][y]
  OBVIOUS
<1> HIDE DEF h
<1>3. ASSUME NEW x \in A PROVE g[x] = h[x]
  <2>1. g[x] \in [B -> S] /\ h[x] \in [B -> S]
    BY <1>1
  <2>2. \A y \in B : g[x][y] = h[x][y]
    BY <1>2
  <2> QED BY <2>1, <2>2
<1>4. g = h
  BY <1>1, <1>3
<1> QED BY <1>4 DEF h

LEMMA BookType ==
  ASSUME TypeOK
  PROVE  /\ Saved \in [Tokens -> [Users -> Nat]]
         /\ Owed \in [Tokens -> [Users -> Nat]]
         /\ Vault \in [Tokens -> Nat]
         /\ \A t \in Tokens :
              /\ Vault[t] = market[t].cash
              /\ \A u \in Users :
                   /\ Saved[t][u] = position[t][u].depositAmount
                   /\ Owed[t][u] = position[t][u].borrowAmount
BY DEF TypeOK, MarketType, PositionType, Saved, Owed, Vault

(* A replaced position is one changed entry of the book.                   *)
EntryChanged(t, u, p) ==
  /\ Saved' = [Saved EXCEPT ![t][u] = p.depositAmount]
  /\ Owed' = [Owed EXCEPT ![t][u] = p.borrowAmount]

LEMMA EntryWritten ==
  ASSUME TypeOK, NEW t \in Tokens, NEW u \in Users, NEW p \in PositionType,
         PositionReplaced(t, u, p)
  PROVE  EntryChanged(t, u, p)
<1>1. /\ position \in [Tokens -> [Users -> PositionType]]
      /\ position' = [position EXCEPT ![t][u] = p]
  BY DEF TypeOK, PositionReplaced
<1>2. /\ position' \in [Tokens -> [Users -> PositionType]]
      /\ \A x \in Tokens, v \in Users :
           position'[x][v] = IF x = t /\ v = u THEN p ELSE position[x][v]
  BY <1>1
<1>3. p.depositAmount \in Nat /\ p.borrowAmount \in Nat
  BY DEF PositionType
<1>4. /\ Saved' \in [Tokens -> [Users -> Nat]]
      /\ Owed' \in [Tokens -> [Users -> Nat]]
      /\ \A x \in Tokens, v \in Users :
           /\ Saved'[x][v] = position'[x][v].depositAmount
           /\ Owed'[x][v] = position'[x][v].borrowAmount
  BY <1>2 DEF PositionType, Saved, Owed
<1>5. ASSUME NEW x \in Tokens, NEW v \in Users
      PROVE  /\ Saved'[x][v] = IF x = t /\ v = u THEN p.depositAmount
                                                 ELSE Saved[x][v]
             /\ Owed'[x][v] = IF x = t /\ v = u THEN p.borrowAmount
                                                ELSE Owed[x][v]
  <2>1. /\ Saved[x][v] = position[x][v].depositAmount
        /\ Owed[x][v] = position[x][v].borrowAmount
    BY BookType
  <2>2. CASE x = t /\ v = u
    BY <1>2, <1>4, <2>2
  <2>3. CASE ~(x = t /\ v = u)
    <3>1. position'[x][v] = position[x][v]
      BY <1>2, <2>3
    <3> QED BY <1>4, <2>1, <2>3, <3>1
  <2> QED BY <2>2, <2>3
<1>6. Saved' = [Saved EXCEPT ![t][u] = p.depositAmount]
  BY <1>3, <1>4, <1>5, BookType, NestedExcept
<1>7. Owed' = [Owed EXCEPT ![t][u] = p.borrowAmount]
  BY <1>3, <1>4, <1>5, BookType, NestedExcept
<1> QED BY <1>6, <1>7 DEF EntryChanged

LEMMA StoreWritten ==
  ASSUME TypeOK, NEW t \in Tokens, NEW u \in Users, NEW m \in MarketType,
         NEW p \in PositionType, Store(t, u, m, p)
  PROVE  /\ Saved' = [Saved EXCEPT ![t][u] = p.depositAmount]
         /\ Owed' = [Owed EXCEPT ![t][u] = p.borrowAmount]
         /\ Vault' = [Vault EXCEPT ![t] = m.cash]
         /\ Saved'[t][u] = p.depositAmount
         /\ Owed'[t][u] = p.borrowAmount
         /\ Vault'[t] = m.cash
<1>1. market' = [market EXCEPT ![t] = m] /\ market \in [Tokens -> MarketType]
  BY DEF Store, TypeOK
<1>2. Vault' = [Vault EXCEPT ![t] = m.cash]
  BY <1>1 DEF Vault
<1>3. PositionReplaced(t, u, p)
  BY DEF Store, PositionReplaced
<1>4. EntryChanged(t, u, p)
  BY <1>3, EntryWritten
<1> QED BY <1>2, <1>4, BookType DEF EntryChanged

(* Deposits and withdrawals are transfers.                                 *)
LEMMA TransferInBook ==
  ASSUME TypeOK, NEW t \in Tokens, NEW u \in Users, NEW m \in MarketType,
         NEW p \in PositionType, Store(t, u, m, p),
         p.depositAmount - position[t][u].depositAmount
           = m.cash - market[t].cash,
         p.borrowAmount >= position[t][u].borrowAmount,
         position[t][u].borrowAmount = 0 => p.borrowAmount = 0
  PROVE  Book!Transfer(t, u)
<1> DEFINE amount == Saved'[t][u] - Saved[t][u]
<1>1. /\ p.depositAmount \in Nat /\ p.borrowAmount \in Nat /\ m.cash \in Nat
      /\ Saved[t][u] \in Nat /\ Vault[t] \in Nat
      /\ Saved[t][u] = position[t][u].depositAmount
      /\ Owed[t][u] = position[t][u].borrowAmount
      /\ Vault[t] = market[t].cash
  BY BookType DEF MarketType, PositionType
<1>2. /\ Saved' = [Saved EXCEPT ![t][u] = p.depositAmount]
      /\ Owed' = [Owed EXCEPT ![t][u] = p.borrowAmount]
      /\ Vault' = [Vault EXCEPT ![t] = m.cash]
      /\ Saved'[t][u] = p.depositAmount
      /\ Owed'[t][u] = p.borrowAmount
  BY StoreWritten
<1>3. Saved[t][u] + amount = p.depositAmount /\ Vault[t] + amount = m.cash
  BY <1>1, <1>2
<1>4. Book!Owes(t, u, Owed[t][u])
  BY <1>1, <1>2 DEF Book!Owes
<1> HIDE DEF amount
<1>5. /\ Saved' = [Saved EXCEPT ![t][u] = @ + amount]
      /\ Vault' = [Vault EXCEPT ![t] = @ + amount]
  BY <1>2, <1>3, BookType
<1>6. Saved[t][u] + amount >= 0 /\ Vault[t] + amount >= 0
  BY <1>1, <1>3
<1> QED BY <1>4, <1>5, <1>6 DEF Book!Transfer, amount

LEMMA LendInBook ==
  ASSUME TypeOK, NEW t \in Tokens, NEW u \in Users, NEW m \in MarketType,
         NEW p \in PositionType, NEW amount \in Nat \ {0}, Store(t, u, m, p),
         p.depositAmount = position[t][u].depositAmount,
         m.cash = market[t].cash - amount,
         p.borrowAmount >= position[t][u].borrowAmount + amount,
         position[t][u].borrowAmount = 0 => p.borrowAmount = amount
  PROVE  Book!Lend(t, u)
<1> DEFINE lent == Vault[t] - Vault'[t]
<1>1. /\ p.borrowAmount \in Nat /\ m.cash \in Nat /\ Vault[t] \in Nat
      /\ Owed[t][u] \in Nat
      /\ Saved[t][u] = position[t][u].depositAmount
      /\ Owed[t][u] = position[t][u].borrowAmount
      /\ Vault[t] = market[t].cash
  BY BookType DEF MarketType, PositionType
<1>2. /\ Saved' = [Saved EXCEPT ![t][u] = p.depositAmount]
      /\ Owed' = [Owed EXCEPT ![t][u] = p.borrowAmount]
      /\ Vault' = [Vault EXCEPT ![t] = m.cash]
      /\ Owed'[t][u] = p.borrowAmount
      /\ Vault'[t] = m.cash
  BY StoreWritten
<1>3. /\ lent = amount /\ lent > 0 /\ Vault[t] >= lent
      /\ Vault[t] - lent = m.cash
  BY <1>1, <1>2
<1> HIDE DEF lent
<1>4. Book!Owes(t, u, Owed[t][u] + lent)
  <2>1. Owed' = [Owed EXCEPT ![t][u] = Owed'[t][u]]
    BY <1>2
  <2>2. /\ Owed'[t][u] >= Owed[t][u] + lent
        /\ Owed[t][u] = 0 => Owed'[t][u] = Owed[t][u] + lent
    BY <1>1, <1>2, <1>3
  <2> QED BY <2>1, <2>2 DEF Book!Owes
<1>5. Vault' = [Vault EXCEPT ![t] = @ - lent] /\ Saved' = Saved
  BY <1>1, <1>2, <1>3, BookType
<1> QED BY <1>3, <1>4, <1>5 DEF Book!Lend, lent

LEMMA PayInBook ==
  ASSUME TypeOK, NEW t \in Tokens, NEW u \in Users, NEW m \in MarketType,
         NEW p \in PositionType, NEW amount \in Nat, Store(t, u, m, p),
         p.depositAmount = position[t][u].depositAmount,
         m.cash = market[t].cash + amount,
         p.borrowAmount >= position[t][u].borrowAmount - amount,
         position[t][u].borrowAmount = 0 => amount = 0 /\ p.borrowAmount = 0
  PROVE  Book!Pay(t, u)
<1> DEFINE paid == Vault'[t] - Vault[t]
<1>1. /\ p.borrowAmount \in Nat /\ m.cash \in Nat /\ Vault[t] \in Nat
      /\ Owed[t][u] \in Nat
      /\ Saved[t][u] = position[t][u].depositAmount
      /\ Owed[t][u] = position[t][u].borrowAmount
      /\ Vault[t] = market[t].cash
  BY BookType DEF MarketType, PositionType
<1>2. /\ Saved' = [Saved EXCEPT ![t][u] = p.depositAmount]
      /\ Owed' = [Owed EXCEPT ![t][u] = p.borrowAmount]
      /\ Vault' = [Vault EXCEPT ![t] = m.cash]
      /\ Owed'[t][u] = p.borrowAmount
      /\ Vault'[t] = m.cash
  BY StoreWritten
<1>3. paid = amount /\ Vault[t] + paid = m.cash
  BY <1>1, <1>2
<1> HIDE DEF paid
<1>4. Book!Owes(t, u, Owed[t][u] - paid)
  <2>1. Owed' = [Owed EXCEPT ![t][u] = Owed'[t][u]]
    BY <1>2
  <2>2. /\ Owed'[t][u] >= Owed[t][u] - paid
        /\ Owed[t][u] = 0 => Owed'[t][u] = Owed[t][u] - paid
    BY <1>1, <1>2, <1>3
  <2> QED BY <2>1, <2>2 DEF Book!Owes
<1>5. Vault' = [Vault EXCEPT ![t] = @ + paid] /\ Saved' = Saved
  BY <1>1, <1>2, <1>3, BookType
<1> QED BY <1>3, <1>4, <1>5 DEF Book!Pay, paid

(* What a liquidation does to the balances: amount comes in, seize goes    *)
(* out in WETH.                                                            *)
CashSettled(t, amount, seize) ==
  /\ market' \in [Tokens -> MarketType]
  /\ \A x \in Tokens :
       market'[x].cash = market[x].cash + (IF x = t THEN amount ELSE 0)
                                        - (IF x = WETH THEN seize ELSE 0)

(* What it does to the position, before that interest may be charged.      *)
EntrySettled(t, u, p, amount, seize) ==
  /\ p.depositAmount = position[t][u].depositAmount - seize
  /\ p.borrowAmount >= position[t][u].borrowAmount - amount
  /\ amount <= p.borrowAmount
  /\ position[t][u].borrowAmount = 0 => amount = 0 /\ p.borrowAmount = 0

(* Liquidations settle: the debt falls by what is paid in, the savings by  *)
(* what is paid out in WETH.                                               *)
LEMMA SettleInBook ==
  ASSUME TypeOK, NEW t \in Tokens, NEW u \in Users, NEW p \in PositionType,
         NEW amount \in Nat, NEW seize \in Nat,
         PositionReplaced(t, u, p),
         CashSettled(t, amount, seize),
         EntrySettled(t, u, p, amount, seize)
  PROVE  Book!Settle(t, u)
<1> USE DEF CashSettled, EntrySettled
<1> DEFINE seized == Saved[t][u] - Saved'[t][u]
           repaid == Vault'[t] - Vault[t] + (IF t = WETH THEN seized ELSE 0)
<1>1. /\ p.depositAmount \in Nat /\ p.borrowAmount \in Nat
      /\ Owed[t][u] \in Nat /\ Saved[t][u] \in Nat /\ Vault[t] \in Nat
      /\ Saved[t][u] = position[t][u].depositAmount
      /\ Owed[t][u] = position[t][u].borrowAmount
      /\ WETH \in Tokens
  BY BookType, PoolConstants DEF PositionType
<1>2. /\ Saved' = [Saved EXCEPT ![t][u] = p.depositAmount]
      /\ Owed' = [Owed EXCEPT ![t][u] = p.borrowAmount]
  BY EntryWritten DEF EntryChanged
<1>3. Saved'[t][u] = p.depositAmount /\ Owed'[t][u] = p.borrowAmount
  BY <1>2, BookType
<1>4. /\ Vault' \in [Tokens -> Nat]
      /\ \A x \in Tokens :
           Vault'[x] = Vault[x] + (IF x = t THEN amount ELSE 0)
                                - (IF x = WETH THEN seize ELSE 0)
  <2>1. /\ Vault' \in [Tokens -> Nat]
        /\ \A x \in Tokens : Vault'[x] = market'[x].cash
    BY DEF Vault, MarketType
  <2> QED BY <2>1, BookType
<1>5. seized = seize
  BY <1>1, <1>3
<1>6. repaid = amount
  <2> HIDE DEF seized
  <2> QED BY <1>1, <1>4, <1>5
<1> HIDE DEF seized, repaid
<1> DEFINE paidIn == [Vault EXCEPT ![t] = @ + repaid]
<1>7. Vault' = [paidIn EXCEPT ![WETH] = @ - seized]
  <2>1. /\ Vault \in [Tokens -> Nat]
        /\ DOMAIN Vault' = Tokens
        /\ Vault' = [x \in Tokens |-> Vault'[x]]
    BY <1>4, BookType
  <2>2. \A x \in Tokens :
          Vault'[x] = Vault[x] + (IF x = t THEN repaid ELSE 0)
                               - (IF x = WETH THEN seized ELSE 0)
    BY <1>4, <1>5, <1>6
  <2> DEFINE v == [paidIn EXCEPT ![WETH] = @ - seized]
  <2>3. DOMAIN v = Tokens /\ v = [x \in Tokens |-> v[x]]
    BY <2>1
  <2>4. ASSUME NEW x \in Tokens PROVE Vault'[x] = v[x]
    <3>1. CASE x = WETH
      <4>1. v[x] = paidIn[x] - seized
        BY <2>1, <3>1
      <4>2. CASE x = t
        <5>1. paidIn[x] = Vault[x] + repaid
          BY <2>1, <4>2
        <5> HIDE DEF v, paidIn
        <5>2. Vault'[x] = Vault[x] + repaid - seized
          BY <2>2, <3>1, <4>2
        <5>3. Vault[x] \in Int /\ repaid \in Int /\ seized \in Int
          BY <1>5, <1>6, <2>1
        <5> QED BY <4>1, <5>1, <5>2, <5>3
      <4>3. CASE x # t
        <5>1. paidIn[x] = Vault[x]
          BY <2>1, <4>3
        <5> HIDE DEF v, paidIn
        <5>2. Vault'[x] = Vault[x] + 0 - seized
          BY <2>2, <3>1, <4>3
        <5>3. Vault[x] \in Int /\ seized \in Int
          BY <1>5, <2>1
        <5> QED BY <4>1, <5>1, <5>2, <5>3
      <4> QED BY <4>2, <4>3
    <3>2. CASE x # WETH
      <4>1. v[x] = paidIn[x]
        BY <2>1, <3>2
      <4>2. CASE x = t
        <5>1. paidIn[x] = Vault[x] + repaid
          BY <2>1, <4>2
        <5> HIDE DEF v, paidIn
        <5>2. Vault'[x] = Vault[x] + repaid - 0
          BY <2>2, <3>2, <4>2
        <5>3. Vault[x] \in Int /\ repaid \in Int
          BY <1>6, <2>1
        <5> QED BY <4>1, <5>1, <5>2, <5>3
      <4>3. CASE x # t
        <5>1. paidIn[x] = Vault[x]
          BY <2>1, <4>3
        <5> HIDE DEF v, paidIn
        <5>2. Vault'[x] = Vault[x] + 0 - 0
          BY <2>2, <3>2, <4>3
        <5>3. Vault[x] \in Int
          BY <2>1
        <5> QED BY <4>1, <5>1, <5>2, <5>3
      <4> QED BY <4>2, <4>3
    <3> QED BY <3>1, <3>2
  <2> HIDE DEF v, paidIn
  <2>5. Vault' = v
    BY <2>1, <2>3, <2>4
  <2> QED BY <2>5 DEF v
<1>8. Saved' = [Saved EXCEPT ![t][u] = @ - seized]
  BY <1>1, <1>2, <1>5, BookType
<1>9. /\ seized \in 0 .. Saved[t][u]
      /\ repaid >= 0 /\ repaid <= Owed'[t][u]
  BY <1>1, <1>3, <1>5, <1>6
<1>10. Book!Owes(t, u, Owed[t][u] - repaid)
  <2>1. Owed' = [Owed EXCEPT ![t][u] = Owed'[t][u]]
    BY <1>2, <1>3
  <2>2. /\ Owed'[t][u] >= Owed[t][u] - repaid
        /\ Owed[t][u] = 0 => Owed'[t][u] = Owed[t][u] - repaid
    BY <1>1, <1>3, <1>6
  <2> QED BY <2>1, <2>2 DEF Book!Owes
<1> QED BY <1>7, <1>8, <1>9, <1>10 DEF Book!Settle, seized, repaid

-----------------------------------------------------------------------------
(***************************************************************************)
(* One lemma per action: it keeps the invariant and balanced books.        *)
(***************************************************************************)
LEMMA DepositStep ==
  ASSUME IInv, NEW t \in Tokens, NEW u \in Users, NEW amount \in Nat,
         Deposit(u, t, amount)
  PROVE  /\ IInv' /\ BooksKept /\ IndicesRise
         /\ Book!Transfer(t, u)
<1> DEFINE m == AccruedMarket(t, u)
           p == AccruedPosition(t, u)
           i == Interest(t, u)
           deposits == m.totalDeposits + amount
           cash     == m.cash + amount
           own      == p.depositAmount + amount
           mm == [m EXCEPT !.totalDeposits = deposits, !.cash = cash]
           pp == [p EXCEPT !.depositAmount = own]
<1>1. /\ i \in Nat
      /\ position[t][u].borrowAmount = 0 => i = 0
      /\ m \in MarketType
      /\ m.globalIndex >= market[t].globalIndex
      /\ m.lastGlobalUpdate = now
      /\ m.totalDeposits = market[t].totalDeposits
      /\ m.totalBorrows = market[t].totalBorrows + i
      /\ m.cash = market[t].cash
      /\ p \in PositionType
      /\ p.depositAmount = position[t][u].depositAmount
      /\ p.borrowAmount = position[t][u].borrowAmount + i
      /\ p.interestIndex >= position[t][u].interestIndex
      /\ UpToDate(m, p)
  BY EntryAccrual DEF IInv
<1>2. /\ Store(t, u, mm, pp)
      /\ history' = [history EXCEPT ![t].interest = @ + i]
      /\ UNCHANGED <<config, price, paused, now>>
  BY DEF Deposit
<1> HIDE DEF m, p, i
<1>3. deposits \in Nat /\ cash \in Nat /\ own \in Nat
  BY <1>1 DEF MarketType, PositionType
<1> HIDE DEF deposits, cash, own
<1>4. /\ mm \in MarketType
      /\ mm.globalIndex = m.globalIndex
      /\ mm.lastGlobalUpdate = m.lastGlobalUpdate
      /\ mm.totalDeposits = deposits
      /\ mm.totalBorrows = m.totalBorrows
      /\ mm.cash = cash
  BY <1>1, <1>3 DEF MarketType
<1>5. /\ pp \in PositionType
      /\ pp.depositAmount = own
      /\ pp.borrowAmount = p.borrowAmount
      /\ pp.interestIndex = p.interestIndex
      /\ pp.lastUpdateTime = p.lastUpdateTime
  BY <1>1, <1>3 DEF PositionType
<1> HIDE DEF mm, pp
<1>6. UpToDate(mm, pp)
  BY <1>1, <1>4, <1>5 DEF UpToDate, Lags, IndexFloor
<1>7. (mm.cash - market[t].cash) + (mm.totalBorrows - market[t].totalBorrows)
        = (mm.totalDeposits - market[t].totalDeposits) + i
  <2>1. /\ market[t].cash \in Nat /\ market[t].totalBorrows \in Nat
        /\ market[t].totalDeposits \in Nat
    BY DEF IInv, TypeOK, MarketType
  <2> QED BY <1>1, <1>4, <2>1 DEF deposits, cash
<1>8. Book!Transfer(t, u)
  <2>1. /\ market[t].cash \in Nat
        /\ position[t][u].depositAmount \in Nat
        /\ position[t][u].borrowAmount \in Nat
    BY DEF IInv, TypeOK, MarketType, PositionType
  <2>2. pp.depositAmount - position[t][u].depositAmount
          = mm.cash - market[t].cash
    BY <1>1, <1>4, <1>5, <2>1 DEF own, cash
  <2>3. /\ pp.borrowAmount >= position[t][u].borrowAmount
        /\ position[t][u].borrowAmount = 0 => pp.borrowAmount = 0
    BY <1>1, <1>5, <2>1
  <2> QED BY <1>2, <1>4, <1>5, <2>2, <2>3, TransferInBook DEF IInv
<1>9. /\ mm.totalBorrows - market[t].totalBorrows
           = pp.borrowAmount - position[t][u].borrowAmount
       /\ mm.totalDeposits - market[t].totalDeposits
           = pp.depositAmount - position[t][u].depositAmount
  <2>1. /\ market[t].totalBorrows \in Nat /\ market[t].totalDeposits \in Nat
        /\ position[t][u].borrowAmount \in Nat
        /\ position[t][u].depositAmount \in Nat
    BY DEF IInv, TypeOK, MarketType, PositionType
  <2> QED BY <1>1, <1>4, <1>5, <2>1 DEF deposits, own
<1>10. mm.globalIndex = AccruedMarket(t, u).globalIndex
  BY <1>4 DEF m
<1>11. ~(pp.borrowAmount < AccruedPosition(t, u).borrowAmount)
  <2>1. p.borrowAmount \in Nat /\ pp.borrowAmount = p.borrowAmount
    BY <1>1, <1>5 DEF PositionType
  <2>2. ~(pp.borrowAmount < p.borrowAmount)
    BY <2>1
  <2> QED BY <2>2 DEF p
<1> QED BY <1>1, <1>2, <1>4, <1>5, <1>6, <1>7, <1>8, <1>9, <1>10, <1>11,
         EntryStep

LEMMA WithdrawStep ==
  ASSUME IInv, NEW t \in Tokens, NEW u \in Users, NEW amount \in Nat,
         Withdraw(u, t, amount)
  PROVE  /\ IInv' /\ BooksKept /\ IndicesRise
         /\ Book!Transfer(t, u)
<1> DEFINE m == AccruedMarket(t, u)
           p == AccruedPosition(t, u)
           i == Interest(t, u)
           deposits == m.totalDeposits - amount
           cash     == m.cash - amount
           own      == p.depositAmount - amount
           mm == [m EXCEPT !.totalDeposits = deposits, !.cash = cash]
           pp == [p EXCEPT !.depositAmount = own]
<1>1. /\ i \in Nat
      /\ position[t][u].borrowAmount = 0 => i = 0
      /\ m \in MarketType
      /\ m.globalIndex >= market[t].globalIndex
      /\ m.lastGlobalUpdate = now
      /\ m.totalDeposits = market[t].totalDeposits
      /\ m.totalBorrows = market[t].totalBorrows + i
      /\ m.cash = market[t].cash
      /\ p \in PositionType
      /\ p.depositAmount = position[t][u].depositAmount
      /\ p.borrowAmount = position[t][u].borrowAmount + i
      /\ p.interestIndex >= position[t][u].interestIndex
      /\ UpToDate(m, p)
  BY EntryAccrual DEF IInv
<1>2. /\ amount <= p.depositAmount
      /\ amount <= m.totalDeposits
      /\ amount <= m.cash
      /\ Store(t, u, mm, pp)
      /\ history' = [history EXCEPT ![t].interest = @ + i]
      /\ UNCHANGED <<config, price, paused, now>>
  BY DEF Withdraw
<1> HIDE DEF m, p, i
<1>3. deposits \in Nat /\ cash \in Nat /\ own \in Nat
  BY <1>1, <1>2 DEF MarketType, PositionType
<1> HIDE DEF deposits, cash, own
<1>4. /\ mm \in MarketType
      /\ mm.globalIndex = m.globalIndex
      /\ mm.lastGlobalUpdate = m.lastGlobalUpdate
      /\ mm.totalDeposits = deposits
      /\ mm.totalBorrows = m.totalBorrows
      /\ mm.cash = cash
  BY <1>1, <1>3 DEF MarketType
<1>5. /\ pp \in PositionType
      /\ pp.depositAmount = own
      /\ pp.borrowAmount = p.borrowAmount
      /\ pp.interestIndex = p.interestIndex
      /\ pp.lastUpdateTime = p.lastUpdateTime
  BY <1>1, <1>3 DEF PositionType
<1> HIDE DEF mm, pp
<1>6. UpToDate(mm, pp)
  BY <1>1, <1>4, <1>5 DEF UpToDate, Lags, IndexFloor
<1>7. (mm.cash - market[t].cash) + (mm.totalBorrows - market[t].totalBorrows)
        = (mm.totalDeposits - market[t].totalDeposits) + i
  <2>1. /\ market[t].cash \in Nat /\ market[t].totalBorrows \in Nat
        /\ market[t].totalDeposits \in Nat
    BY DEF IInv, TypeOK, MarketType
  <2> QED BY <1>1, <1>4, <2>1 DEF deposits, cash
<1>8. Book!Transfer(t, u)
  <2>1. /\ market[t].cash \in Nat
        /\ position[t][u].depositAmount \in Nat
        /\ position[t][u].borrowAmount \in Nat
    BY DEF IInv, TypeOK, MarketType, PositionType
  <2>2. pp.depositAmount - position[t][u].depositAmount
          = mm.cash - market[t].cash
    BY <1>1, <1>4, <1>5, <2>1 DEF own, cash
  <2>3. /\ pp.borrowAmount >= position[t][u].borrowAmount
        /\ position[t][u].borrowAmount = 0 => pp.borrowAmount = 0
    BY <1>1, <1>5, <2>1
  <2> QED BY <1>2, <1>4, <1>5, <2>2, <2>3, TransferInBook DEF IInv
<1>9. /\ mm.totalBorrows - market[t].totalBorrows
           = pp.borrowAmount - position[t][u].borrowAmount
       /\ mm.totalDeposits - market[t].totalDeposits
           = pp.depositAmount - position[t][u].depositAmount
  <2>1. /\ market[t].totalBorrows \in Nat /\ market[t].totalDeposits \in Nat
        /\ position[t][u].borrowAmount \in Nat
        /\ position[t][u].depositAmount \in Nat
    BY DEF IInv, TypeOK, MarketType, PositionType
  <2> QED BY <1>1, <1>4, <1>5, <2>1 DEF deposits, own
<1>10. mm.globalIndex = AccruedMarket(t, u).globalIndex
  BY <1>4 DEF m
<1>11. ~(pp.borrowAmount < AccruedPosition(t, u).borrowAmount)
  <2>1. p.borrowAmount \in Nat /\ pp.borrowAmount = p.borrowAmount
    BY <1>1, <1>5 DEF PositionType
  <2>2. ~(pp.borrowAmount < p.borrowAmount)
    BY <2>1
  <2> QED BY <2>2 DEF p
<1> QED BY <1>1, <1>2, <1>4, <1>5, <1>6, <1>7, <1>8, <1>9, <1>10, <1>11,
         EntryStep

LEMMA LendStep ==
  ASSUME IInv, NEW t \in Tokens, NEW u \in Users, NEW amount \in Nat,
         Lend(u, t, amount)
  PROVE  /\ IInv' /\ BooksKept /\ IndicesRise
         /\ Book!Lend(t, u)
<1> DEFINE m == AccruedMarket(t, u)
           p == AccruedPosition(t, u)
           i == Interest(t, u)
           first   == p.interestIndex = 0
           borrows == m.totalBorrows + amount
           cash    == m.cash - amount
           global  == IF first THEN IndexOrInitial(m) ELSE m.globalIndex
           debt    == p.borrowAmount + amount
           index   == IF first THEN IndexOrInitial(m) ELSE p.interestIndex
           mm == [m EXCEPT !.totalBorrows = borrows, !.cash = cash,
                           !.globalIndex = global]
           pp == [p EXCEPT !.borrowAmount = debt, !.interestIndex = index]
<1>1. /\ i \in Nat
      /\ position[t][u].borrowAmount = 0 => i = 0
      /\ m \in MarketType
      /\ m.globalIndex >= market[t].globalIndex
      /\ m.lastGlobalUpdate = now
      /\ m.totalDeposits = market[t].totalDeposits
      /\ m.totalBorrows = market[t].totalBorrows + i
      /\ m.cash = market[t].cash
      /\ p \in PositionType
      /\ p.depositAmount = position[t][u].depositAmount
      /\ p.borrowAmount = position[t][u].borrowAmount + i
      /\ p.interestIndex >= position[t][u].interestIndex
      /\ UpToDate(m, p)
  BY EntryAccrual DEF IInv
<1>2. /\ amount > 0
      /\ amount <= m.cash
      /\ Store(t, u, mm, pp)
      /\ history' = [history EXCEPT ![t].interest = @ + i]
      /\ UNCHANGED <<config, price, paused, now>>
  BY DEF Lend
<1> HIDE DEF m, p, i
<1>4. borrows \in Nat /\ cash \in Nat /\ debt \in Nat /\ debt > 0
  BY <1>1, <1>2 DEF MarketType, PositionType
<1>5. /\ global \in Nat /\ index \in Nat
      /\ global >= m.globalIndex
      /\ index = global
      /\ index >= INITIAL_INTEREST_INDEX
      /\ index >= p.interestIndex
      /\ index # 0
      /\ global >= INITIAL_INTEREST_INDEX
  <2>1. /\ m.globalIndex \in Nat /\ p.interestIndex \in Nat
        /\ p.borrowAmount \in Nat
    BY <1>1 DEF MarketType, PositionType
  <2>2. CASE first
    <3>1. global = IndexOrInitial(m) /\ index = IndexOrInitial(m)
      BY <2>2
    <3>2. /\ p.interestIndex = 0
          /\ p.interestIndex <= m.globalIndex
      BY <2>2, <1>1 DEF UpToDate, Lags
    <3>3. CASE m.globalIndex = 0
      <4> HIDE DEF global, index
      <4> QED BY <3>1, <3>2, <3>3, <2>1, InterestConstants DEF IndexOrInitial
    <3>4. CASE m.globalIndex # 0
      <4>1. m.globalIndex >= INITIAL_INTEREST_INDEX
        BY <1>1, <3>4 DEF UpToDate, Lags, IndexFloor
      <4> HIDE DEF global, index
      <4> QED BY <3>1, <3>2, <3>4, <4>1, <2>1, InterestConstants
               DEF IndexOrInitial
    <3> QED BY <3>3, <3>4
  <2>3. CASE ~first
    <3>1. /\ global = m.globalIndex /\ index = p.interestIndex
          /\ index # 0
      BY <2>3
    <3>2. /\ p.interestIndex = m.globalIndex
          /\ p.interestIndex >= INITIAL_INTEREST_INDEX
      BY <1>1, <2>1, <2>3 DEF UpToDate, Lags
    <3> HIDE DEF global, index, first
    <3> QED BY <2>1, <3>1, <3>2, InterestConstants
  <2> HIDE DEF global, index, first
  <2> QED BY <2>2, <2>3
<1> HIDE DEF borrows, cash, global, debt, index
<1>6. /\ mm \in MarketType
      /\ mm.globalIndex = global
      /\ mm.lastGlobalUpdate = m.lastGlobalUpdate
      /\ mm.totalDeposits = m.totalDeposits
      /\ mm.totalBorrows = borrows
      /\ mm.cash = cash
  BY <1>1, <1>4, <1>5 DEF MarketType
<1>7. /\ pp \in PositionType
      /\ pp.depositAmount = p.depositAmount
      /\ pp.borrowAmount = debt
      /\ pp.interestIndex = index
      /\ pp.lastUpdateTime = p.lastUpdateTime
  BY <1>1, <1>4, <1>5 DEF PositionType
<1> HIDE DEF mm, pp
<1>8. UpToDate(mm, pp)
  BY <1>1, <1>4, <1>5, <1>6, <1>7 DEF UpToDate, Lags, IndexFloor
<1>9. mm.globalIndex >= market[t].globalIndex
  <2>1. market[t].globalIndex \in Nat /\ m.globalIndex \in Nat
    BY <1>1 DEF IInv, TypeOK, MarketType
  <2> QED BY <1>1, <1>5, <1>6, <2>1
<1>10. (mm.cash - market[t].cash) + (mm.totalBorrows - market[t].totalBorrows)
         = (mm.totalDeposits - market[t].totalDeposits) + i
  <2>1. /\ market[t].cash \in Nat /\ market[t].totalBorrows \in Nat
        /\ market[t].totalDeposits \in Nat
    BY DEF IInv, TypeOK, MarketType
  <2> QED BY <1>1, <1>6, <2>1 DEF borrows, cash
<1>11. pp.interestIndex >= position[t][u].interestIndex
  <2>1. position[t][u].interestIndex \in Nat /\ p.interestIndex \in Nat
    BY <1>1 DEF IInv, TypeOK, PositionType
  <2> QED BY <1>1, <1>5, <1>7, <2>1
<1>12. Book!Lend(t, u)
  <2>1. /\ market[t].cash \in Nat
        /\ position[t][u].borrowAmount \in Nat
    BY DEF IInv, TypeOK, MarketType, PositionType
  <2>2. /\ amount \in Nat \ {0}
        /\ pp.depositAmount = position[t][u].depositAmount
        /\ mm.cash = market[t].cash - amount
    BY <1>1, <1>2, <1>6, <1>7 DEF cash
  <2>3. /\ pp.borrowAmount >= position[t][u].borrowAmount + amount
        /\ position[t][u].borrowAmount = 0 => pp.borrowAmount = amount
    BY <1>1, <1>7, <2>1 DEF debt
  <2> QED BY <1>2, <1>6, <1>7, <2>2, <2>3, LendInBook DEF IInv
<1>13. /\ mm.totalBorrows - market[t].totalBorrows
           = pp.borrowAmount - position[t][u].borrowAmount
       /\ mm.totalDeposits - market[t].totalDeposits
           = pp.depositAmount - position[t][u].depositAmount
  <2>1. /\ market[t].totalBorrows \in Nat /\ market[t].totalDeposits \in Nat
        /\ position[t][u].borrowAmount \in Nat
        /\ position[t][u].depositAmount \in Nat
    BY DEF IInv, TypeOK, MarketType, PositionType
  <2> QED BY <1>1, <1>6, <1>7, <2>1 DEF borrows, debt
<1>14. market[t].globalIndex # 0 =>
         mm.globalIndex = AccruedMarket(t, u).globalIndex
  <2>1. SUFFICES ASSUME market[t].globalIndex # 0
                 PROVE  mm.globalIndex = m.globalIndex
    BY DEF m
  <2>2. m.globalIndex \in Nat /\ market[t].globalIndex \in Nat
    BY <1>1 DEF IInv, TypeOK, MarketType
  <2>3. IndexOrInitial(m) = m.globalIndex
    BY <1>1, <2>1, <2>2 DEF IndexOrInitial
  <2> QED BY <1>6, <2>3 DEF global
<1>15. ~(pp.borrowAmount < AccruedPosition(t, u).borrowAmount)
  <2>1. p.borrowAmount \in Nat /\ pp.borrowAmount = p.borrowAmount + amount
    BY <1>1, <1>7 DEF PositionType, debt
  <2>2. ~(pp.borrowAmount < p.borrowAmount)
    BY <2>1
  <2> QED BY <2>2 DEF p
<1> QED BY <1>1, <1>2, <1>6, <1>7, <1>8, <1>9, <1>10, <1>11, <1>12, <1>13, <1>14, <1>15,
         EntryStep

LEMMA RepayStep ==
  ASSUME IInv, NEW t \in Tokens, NEW u \in Users, NEW amount \in Nat,
         Repay(u, t, amount)
  PROVE  /\ IInv' /\ BooksKept /\ IndicesRise
         /\ Book!Pay(t, u)
<1> DEFINE m == AccruedMarket(t, u)
           p == AccruedPosition(t, u)
           i == Interest(t, u)
           borrows == m.totalBorrows - amount
           cash    == m.cash + amount
           left    == p.borrowAmount - amount
           index   == IF left = 0 THEN 0 ELSE p.interestIndex
           mm == [m EXCEPT !.totalBorrows = borrows, !.cash = cash]
           pp == [p EXCEPT !.borrowAmount = left, !.interestIndex = index]
<1>1. /\ i \in Nat
      /\ position[t][u].borrowAmount = 0 => i = 0
      /\ m \in MarketType
      /\ m.globalIndex >= market[t].globalIndex
      /\ m.lastGlobalUpdate = now
      /\ m.totalDeposits = market[t].totalDeposits
      /\ m.totalBorrows = market[t].totalBorrows + i
      /\ m.cash = market[t].cash
      /\ p \in PositionType
      /\ p.depositAmount = position[t][u].depositAmount
      /\ p.borrowAmount = position[t][u].borrowAmount + i
      /\ p.interestIndex >= position[t][u].interestIndex
      /\ UpToDate(m, p)
  BY EntryAccrual DEF IInv
<1>2. /\ amount <= m.totalBorrows
      /\ amount <= p.borrowAmount
      /\ Store(t, u, mm, pp)
      /\ history' = [history EXCEPT ![t].interest = @ + i]
      /\ UNCHANGED <<config, price, paused, now>>
  BY DEF Repay
<1> HIDE DEF m, p, i
<1>3. borrows \in Nat /\ cash \in Nat /\ left \in Nat /\ index \in Nat
  BY <1>1, <1>2 DEF MarketType, PositionType
<1>4. /\ left = 0 => index = 0
      /\ left # 0 => p.borrowAmount # 0 /\ index = p.interestIndex
      /\ index = p.interestIndex \/ index = 0
  BY <1>1, <1>2 DEF PositionType
<1> HIDE DEF borrows, cash, left, index
<1>5. /\ mm \in MarketType
      /\ mm.globalIndex = m.globalIndex
      /\ mm.lastGlobalUpdate = m.lastGlobalUpdate
      /\ mm.totalDeposits = m.totalDeposits
      /\ mm.totalBorrows = borrows
      /\ mm.cash = cash
  BY <1>1, <1>3 DEF MarketType
<1>6. /\ pp \in PositionType
      /\ pp.depositAmount = p.depositAmount
      /\ pp.borrowAmount = left
      /\ pp.interestIndex = index
      /\ pp.lastUpdateTime = p.lastUpdateTime
  BY <1>1, <1>3 DEF PositionType
<1> HIDE DEF mm, pp
<1>7. UpToDate(mm, pp)
  <2>1. m.globalIndex \in Nat /\ p.borrowAmount \in Nat
    BY <1>1 DEF MarketType, PositionType
  <2>2. Lags(mm, pp)
    BY <1>1, <1>3, <1>4, <1>5, <1>6, <2>1 DEF UpToDate, Lags, IndexFloor
  <2> QED BY <1>1, <1>3, <1>4, <1>5, <1>6, <2>1, <2>2
          DEF UpToDate, Lags, IndexFloor
<1>8. (mm.cash - market[t].cash) + (mm.totalBorrows - market[t].totalBorrows)
         = (mm.totalDeposits - market[t].totalDeposits) + i
  <2>1. /\ market[t].cash \in Nat /\ market[t].totalBorrows \in Nat
        /\ market[t].totalDeposits \in Nat
    BY DEF IInv, TypeOK, MarketType
  <2> QED BY <1>1, <1>5, <2>1 DEF borrows, cash
<1>9. \/ pp.interestIndex >= position[t][u].interestIndex
       \/ pp.borrowAmount = 0
  BY <1>1, <1>4, <1>6
<1>10. Book!Pay(t, u)
  <2>1. /\ market[t].cash \in Nat
        /\ position[t][u].borrowAmount \in Nat
        /\ p.borrowAmount \in Nat
    BY <1>1 DEF IInv, TypeOK, MarketType, PositionType
  <2>2. /\ pp.depositAmount = position[t][u].depositAmount
        /\ mm.cash = market[t].cash + amount
    BY <1>1, <1>5, <1>6 DEF cash
  <2>3. /\ pp.borrowAmount >= position[t][u].borrowAmount - amount
        /\ position[t][u].borrowAmount = 0 =>
             amount = 0 /\ pp.borrowAmount = 0
    BY <1>1, <1>2, <1>6, <2>1 DEF left
  <2> QED BY <1>2, <1>5, <1>6, <2>2, <2>3, PayInBook DEF IInv
<1>11. /\ mm.totalBorrows - market[t].totalBorrows
           = pp.borrowAmount - position[t][u].borrowAmount
       /\ mm.totalDeposits - market[t].totalDeposits
           = pp.depositAmount - position[t][u].depositAmount
  <2>1. /\ market[t].totalBorrows \in Nat /\ market[t].totalDeposits \in Nat
        /\ position[t][u].borrowAmount \in Nat
        /\ position[t][u].depositAmount \in Nat
    BY DEF IInv, TypeOK, MarketType, PositionType
  <2> QED BY <1>1, <1>5, <1>6, <2>1 DEF borrows, left
<1>12. market[t].globalIndex # 0 =>
         mm.globalIndex = AccruedMarket(t, u).globalIndex
  BY <1>5 DEF m
<1>13. AccruedPosition(t, u).borrowAmount - pp.borrowAmount
         = mm.cash - market[t].cash
  <2> DEFINE a == p.borrowAmount
             b == market[t].cash
  <2>1. a \in Nat /\ b \in Nat
    BY <1>1 DEF IInv, TypeOK, MarketType, PositionType
  <2>2. pp.borrowAmount = a - amount /\ mm.cash = b + amount
    BY <1>1, <1>5, <1>6 DEF left, cash
  <2> HIDE DEF a, b
  <2>3. a - (a - amount) = (b + amount) - b
    BY <2>1
  <2> QED BY <2>2, <2>3 DEF a, b, p
<1> QED BY <1>1, <1>2, <1>5, <1>6, <1>7, <1>8, <1>9, <1>10, <1>11, <1>12, <1>13,
         EntryStep

(* The close factor: a liquidation repays at most half of the debt.        *)
LEMMA CloseFactor ==
  ASSUME NEW debt \in Nat, NEW amount \in Nat,
         amount <= (debt * LIQUIDATION_CLOSE_FACTOR) \div BASIS_POINTS
  PROVE  2 * amount <= debt
<1> DEFINE most == (debt * 5000) \div 10000
<1>1. most \in Nat /\ 10000 * most <= debt * 5000
  BY Quotient
<1>2. amount <= most
  BY DEF LIQUIDATION_CLOSE_FACTOR, BASIS_POINTS
<1> HIDE DEF most
<1> QED BY <1>1, <1>2

LEMMA SeizeIsNat ==
  ASSUME TypeOK, NEW t \in Tokens, NEW amount \in Nat, price[WETH] > 0
  PROVE  CollateralToSeize(t, amount) \in Nat
<1> DEFINE value == amount * (BASIS_POINTS + config[t].liquidationPenalty)
                      * price[t]
           weth  == value \div price[WETH]
<1>1. /\ price[WETH] \in Nat \ {0} /\ price[t] \in Nat
      /\ config[t].liquidationPenalty \in Nat
  BY PoolConstants DEF TypeOK, ConfigType
<1>2. value \in Nat
  BY <1>1 DEF BASIS_POINTS
<1> HIDE DEF value
<1>3. weth \in Nat
  BY <1>1, <1>2, Quotient
<1> HIDE DEF weth
<1>4. weth \div BASIS_POINTS \in Nat
  BY <1>3, Quotient DEF BASIS_POINTS
<1> QED BY <1>4 DEF CollateralToSeize, weth, value

(* What a liquidation does to the markets: token t receives the repayment  *)
(* and the interest of the debt, WETH loses what is seized.                *)
LEMMA LiquidateMarkets ==
  ASSUME TypeOK, NEW t \in Tokens, NEW m \in MarketType,
         NEW amount \in Nat, NEW seize \in Nat,
         NEW repaid,
         repaid = [market EXCEPT ![t] = [m EXCEPT !.cash = m.cash + amount]],
         seize <= repaid[WETH].cash,
         market' = [repaid EXCEPT ![WETH].cash = @ - seize]
  PROVE  /\ market' \in [Tokens -> MarketType]
         /\ \A x \in Tokens :
              LET old == IF x = t THEN m ELSE market[x]
              IN  /\ market'[x].globalIndex = old.globalIndex
                  /\ market'[x].lastGlobalUpdate = old.lastGlobalUpdate
                  /\ market'[x].totalDeposits = old.totalDeposits
                  /\ market'[x].totalBorrows = old.totalBorrows
                  /\ market'[x].cash = old.cash
                       + (IF x = t THEN amount ELSE 0)
                       - (IF x = WETH THEN seize ELSE 0)
<1> DEFINE more == m.cash + amount
           mm   == [m EXCEPT !.cash = more]
           less == repaid[WETH].cash - seize
           ww   == [repaid[WETH] EXCEPT !.cash = less]
<1>1. WETH \in Tokens
  BY PoolConstants
<1>2. more \in Nat
  BY DEF MarketType
<1> HIDE DEF more
<1>3. /\ mm \in MarketType
      /\ mm.globalIndex = m.globalIndex
      /\ mm.lastGlobalUpdate = m.lastGlobalUpdate
      /\ mm.totalDeposits = m.totalDeposits
      /\ mm.totalBorrows = m.totalBorrows
      /\ mm.cash = more
  BY <1>2 DEF MarketType
<1>4. repaid = [market EXCEPT ![t] = mm]
  BY DEF more
<1> HIDE DEF mm
<1>5. /\ repaid \in [Tokens -> MarketType]
      /\ repaid[t] = mm
      /\ \A x \in Tokens \ {t} : repaid[x] = market[x]
  BY <1>3, <1>4 DEF TypeOK
<1>6. less \in Nat
  <2>1. repaid[WETH].cash \in Nat
    BY <1>1, <1>5 DEF MarketType
  <2> QED BY <2>1
<1>7. market' = [repaid EXCEPT ![WETH] = ww]
  BY <1>1, <1>5 DEF MarketType
<1> HIDE DEF less
<1>8. /\ ww \in MarketType
      /\ ww.globalIndex = repaid[WETH].globalIndex
      /\ ww.lastGlobalUpdate = repaid[WETH].lastGlobalUpdate
      /\ ww.totalDeposits = repaid[WETH].totalDeposits
      /\ ww.totalBorrows = repaid[WETH].totalBorrows
      /\ ww.cash = less
  BY <1>1, <1>5, <1>6 DEF MarketType
<1> HIDE DEF ww
<1>9. /\ market' \in [Tokens -> MarketType]
      /\ market'[WETH] = ww
      /\ \A x \in Tokens \ {WETH} : market'[x] = repaid[x]
  BY <1>1, <1>5, <1>7, <1>8
<1>10. ASSUME NEW x \in Tokens
       PROVE  LET old == IF x = t THEN m ELSE market[x]
              IN  /\ market'[x].globalIndex = old.globalIndex
                  /\ market'[x].lastGlobalUpdate = old.lastGlobalUpdate
                  /\ market'[x].totalDeposits = old.totalDeposits
                  /\ market'[x].totalBorrows = old.totalBorrows
                  /\ market'[x].cash = old.cash
                       + (IF x = t THEN amount ELSE 0)
                       - (IF x = WETH THEN seize ELSE 0)
  <2>1. /\ market[x].cash \in Nat /\ m.cash \in Nat
    BY DEF TypeOK, MarketType
  <2>2. CASE x = WETH /\ x = t
    BY <1>3, <1>5, <1>8, <1>9, <2>1, <2>2 DEF more, less
  <2>3. CASE x = WETH /\ x # t
    BY <1>3, <1>5, <1>8, <1>9, <2>1, <2>3 DEF more, less
  <2>4. CASE x # WETH /\ x = t
    BY <1>3, <1>5, <1>9, <2>1, <2>4 DEF more
  <2>5. CASE x # WETH /\ x # t
    BY <1>5, <1>9, <2>1, <2>5
  <2> QED BY <2>2, <2>3, <2>4, <2>5
<1> QED BY <1>9, <1>10

(* The history records after a liquidation.                                *)
LiquidatedHistory(t, i, amount, seize) ==
  [history EXCEPT ![t].interest   = @ + i,
                  ![t].liquidated = @ + amount,
                  ![t].seized     = @ + seize,
                  ![WETH].paidOut = @ + seize]

LEMMA LiquidateHistory ==
  ASSUME TypeOK, NEW t \in Tokens, NEW i \in Nat,
         NEW amount \in Nat, NEW seize \in Nat,
         history' = LiquidatedHistory(t, i, amount, seize)
  PROVE  /\ history' \in [Tokens -> HistoryType]
         /\ \A x \in Tokens :
              /\ history'[x].interest
                   = history[x].interest + (IF x = t THEN i ELSE 0)
              /\ history'[x].liquidated
                   = history[x].liquidated + (IF x = t THEN amount ELSE 0)
              /\ history'[x].seized
                   = history[x].seized + (IF x = t THEN seize ELSE 0)
              /\ history'[x].paidOut
                   = history[x].paidOut + (IF x = WETH THEN seize ELSE 0)
<1> DEFINE j == history[t].interest + i
           l == history[t].liquidated + amount
           s == history[t].seized + seize
           h == [history[t] EXCEPT !.interest = j, !.liquidated = l,
                                   !.seized = s]
           mid  == [history EXCEPT ![t] = h]
           paid == mid[WETH].paidOut + seize
           w    == [mid[WETH] EXCEPT !.paidOut = paid]
<1>1. /\ WETH \in Tokens
      /\ history \in [Tokens -> HistoryType] /\ history[t] \in HistoryType
  BY PoolConstants DEF TypeOK
<1>2. j \in Nat /\ l \in Nat /\ s \in Nat
  BY <1>1 DEF HistoryType
<1>3. history' = [mid EXCEPT ![WETH] = w]
  BY <1>1 DEF HistoryType, LiquidatedHistory
<1> HIDE DEF j, l, s
<1>4. /\ h \in HistoryType
      /\ h.interest = j /\ h.liquidated = l /\ h.seized = s
      /\ h.paidOut = history[t].paidOut
  BY <1>1, <1>2 DEF HistoryType
<1> HIDE DEF h
<1>5. /\ mid \in [Tokens -> HistoryType]
      /\ mid[t] = h
      /\ \A x \in Tokens \ {t} : mid[x] = history[x]
  BY <1>1, <1>4
<1> HIDE DEF mid
<1>6. paid \in Nat /\ mid[WETH] \in HistoryType
  BY <1>1, <1>5 DEF HistoryType
<1>7. paid = history[WETH].paidOut + seize
  BY <1>1, <1>4, <1>5
<1> HIDE DEF paid
<1>8. /\ w \in HistoryType
      /\ w.interest = mid[WETH].interest
      /\ w.liquidated = mid[WETH].liquidated
      /\ w.seized = mid[WETH].seized
      /\ w.paidOut = paid
  BY <1>6 DEF HistoryType
<1> HIDE DEF w
<1>9. /\ history' \in [Tokens -> HistoryType]
      /\ history'[WETH] = w
      /\ \A x \in Tokens \ {WETH} : history'[x] = mid[x]
  BY <1>1, <1>3, <1>5, <1>8
<1>10. ASSUME NEW x \in Tokens
       PROVE  /\ history'[x].interest
                   = history[x].interest + (IF x = t THEN i ELSE 0)
              /\ history'[x].liquidated
                   = history[x].liquidated + (IF x = t THEN amount ELSE 0)
              /\ history'[x].seized
                   = history[x].seized + (IF x = t THEN seize ELSE 0)
              /\ history'[x].paidOut
                   = history[x].paidOut + (IF x = WETH THEN seize ELSE 0)
  <2>1. /\ history[x].interest \in Nat /\ history[x].liquidated \in Nat
        /\ history[x].paidOut \in Nat /\ history[x].seized \in Nat
    BY <1>1 DEF HistoryType
  <2>2. CASE x = WETH /\ x = t
    BY <1>4, <1>5, <1>7, <1>8, <1>9, <2>1, <2>2 DEF j, l, s
  <2>3. CASE x = WETH /\ x # t
    BY <1>5, <1>7, <1>8, <1>9, <2>1, <2>3
  <2>4. CASE x # WETH /\ x = t
    BY <1>4, <1>5, <1>9, <2>1, <2>4 DEF j, l, s
  <2>5. CASE x # WETH /\ x # t
    BY <1>5, <1>9, <2>1, <2>5
  <2> QED BY <2>2, <2>3, <2>4, <2>5
<1> QED BY <1>9, <1>10

LEMMA LiquidateStep ==
  ASSUME IInv, NEW t \in Tokens, NEW u \in Users, NEW amount \in Nat,
         Liquidate(u, t, amount)
  PROVE  /\ IInv' /\ BooksKept /\ IndicesRise
         /\ Book!Settle(t, u)
<1> DEFINE m == AccruedMarket(t, u)
           p == AccruedPosition(t, u)
           i == Interest(t, u)
           seize  == CollateralToSeize(t, amount)
           repaid == [market EXCEPT ![t] = [m EXCEPT !.cash = m.cash + amount]]
           left   == p.borrowAmount - amount
           own    == p.depositAmount - seize
           pp == [p EXCEPT !.borrowAmount = left, !.depositAmount = own]
<1>1. /\ i \in Nat
      /\ position[t][u].borrowAmount = 0 => i = 0
      /\ m \in MarketType
      /\ m.globalIndex >= market[t].globalIndex
      /\ m.lastGlobalUpdate = now
      /\ m.totalDeposits = market[t].totalDeposits
      /\ m.totalBorrows = market[t].totalBorrows + i
      /\ m.cash = market[t].cash
      /\ p \in PositionType
      /\ p.depositAmount = position[t][u].depositAmount
      /\ p.borrowAmount = position[t][u].borrowAmount + i
      /\ p.interestIndex >= position[t][u].interestIndex
      /\ UpToDate(m, p)
  BY EntryAccrual DEF IInv
<1>2. /\ price[WETH] > 0
      /\ amount <= (p.borrowAmount * LIQUIDATION_CLOSE_FACTOR) \div BASIS_POINTS
      /\ seize <= p.depositAmount
      /\ seize <= repaid[WETH].cash
      /\ market' = [repaid EXCEPT ![WETH].cash = @ - seize]
      /\ position' = [position EXCEPT ![t][u] = pp]
      /\ history' = [history EXCEPT
           ![t].interest   = @ + i,
           ![t].liquidated = @ + amount,
           ![t].seized     = @ + seize,
           ![WETH].paidOut = @ + seize]
      /\ UNCHANGED <<config, price, paused, now>>
  BY DEF Liquidate, IsLiquidatable
<1>3. TypeOK /\ DebtIndexed
  BY DEF IInv
<1>4. seize \in Nat
  BY <1>2, <1>3, SeizeIsNat
<1> HIDE DEF m, p, i, seize
<1>5. /\ p.borrowAmount \in Nat /\ p.depositAmount \in Nat
      /\ 2 * amount <= p.borrowAmount
  BY <1>1, <1>2, CloseFactor DEF PositionType
<1>6. /\ left \in Nat /\ own \in Nat
      /\ left = 0 <=> p.borrowAmount = 0
  BY <1>2, <1>4, <1>5
<1> HIDE DEF left, own
<1>7. /\ pp \in PositionType
      /\ pp.depositAmount = own
      /\ pp.borrowAmount = left
      /\ pp.interestIndex = p.interestIndex
      /\ pp.lastUpdateTime = p.lastUpdateTime
  BY <1>1, <1>6 DEF PositionType
<1> HIDE DEF pp
<1>8. /\ market' \in [Tokens -> MarketType]
      /\ \A x \in Tokens :
           LET old == IF x = t THEN m ELSE market[x]
           IN  /\ market'[x].globalIndex = old.globalIndex
               /\ market'[x].lastGlobalUpdate = old.lastGlobalUpdate
               /\ market'[x].totalDeposits = old.totalDeposits
               /\ market'[x].totalBorrows = old.totalBorrows
               /\ market'[x].cash = old.cash
                    + (IF x = t THEN amount ELSE 0)
                    - (IF x = WETH THEN seize ELSE 0)
  <2> HIDE DEF repaid
  <2>1. repaid = [market EXCEPT ![t] = [m EXCEPT !.cash = m.cash + amount]]
    BY DEF repaid
  <2> QED BY <1>1, <1>2, <1>3, <1>4, <2>1, LiquidateMarkets,
           ZenonT(60)
<1>9. /\ history' \in [Tokens -> HistoryType]
      /\ \A x \in Tokens :
           /\ history'[x].interest
                = history[x].interest + (IF x = t THEN i ELSE 0)
           /\ history'[x].liquidated
                = history[x].liquidated + (IF x = t THEN amount ELSE 0)
           /\ history'[x].seized
                = history[x].seized + (IF x = t THEN seize ELSE 0)
           /\ history'[x].paidOut
                = history[x].paidOut + (IF x = WETH THEN seize ELSE 0)
  <2>1. i \in Nat
    BY <1>1
  <2>2. history' = LiquidatedHistory(t, i, amount, seize)
    BY <1>2 DEF LiquidatedHistory
  <2> HIDE DEF repaid
  <2> QED BY <1>3, <1>4, <2>1, <2>2, LiquidateHistory
<1>10. ASSUME NEW x \in Tokens
       PROVE  /\ market'[x].globalIndex >= market[x].globalIndex
              /\ market'[x].lastGlobalUpdate >= market[x].lastGlobalUpdate
              /\ market'[x].lastGlobalUpdate <= now
              /\ IndexFloor(market[x]) => IndexFloor(market'[x])
  <2>1. /\ market[x].globalIndex \in Nat /\ market[x].lastGlobalUpdate \in Nat
        /\ now \in Nat /\ market[x].lastGlobalUpdate <= now
    BY <1>3 DEF TypeOK, MarketType, DebtIndexed
  <2>2. CASE x = t
    BY <1>1, <1>8, <2>1, <2>2 DEF UpToDate, Lags, IndexFloor
  <2>3. CASE x # t
    BY <1>8, <2>1, <2>3 DEF IndexFloor
  <2> QED BY <2>2, <2>3
<1>11. Lags(market'[t], pp)
  BY <1>1, <1>6, <1>7, <1>8 DEF UpToDate, Lags, IndexFloor
<1>12. /\ position' \in [Tokens -> [Users -> PositionType]]
       /\ DebtIndexed'
       /\ IndicesRise
  BY <1>1, <1>2, <1>3, <1>7, <1>8, <1>10, <1>11, EntryReplaced
<1>13. IInv'
  BY <1>2, <1>3, <1>8, <1>9, <1>12 DEF IInv, TypeOK
<1>14. ASSUME BooksBalance PROVE BooksBalance'
  <2> SUFFICES ASSUME NEW x \in Tokens
               PROVE  Balanced(market'[x], history'[x])
    BY DEF BooksBalance, Balanced
  <2>1. Balanced(market[x], history[x])
    BY <1>14 DEF BooksBalance, Balanced
  <2>2. /\ market[x].cash \in Nat /\ market[x].totalBorrows \in Nat
        /\ market[x].totalDeposits \in Nat
        /\ history[x].interest \in Nat /\ history[x].liquidated \in Nat
        /\ history[x].paidOut \in Nat
    BY <1>3 DEF TypeOK, MarketType, HistoryType
  <2>3. CASE x = t
    <3> DEFINE out == IF x = WETH THEN seize ELSE 0
    <3>1. out \in Nat
      BY <1>4
    <3>2. market'[x].cash = market[x].cash + amount - out
      BY <1>1, <1>8, <2>3
    <3>3. /\ market'[x].totalBorrows = market[x].totalBorrows + i
          /\ market'[x].totalDeposits = market[x].totalDeposits
      BY <1>1, <1>8, <2>3
    <3>4. /\ history'[x].interest = history[x].interest + i
          /\ history'[x].liquidated = history[x].liquidated + amount
          /\ history'[x].paidOut = history[x].paidOut + out
      BY <1>9, <2>3
    <3>5. i \in Nat
      BY <1>1
    <3> HIDE DEF out
    <3> QED BY <2>1, <2>2, <3>1, <3>2, <3>3, <3>4, <3>5 DEF Balanced
  <2>4. CASE x # t
    <3> DEFINE out == IF x = WETH THEN seize ELSE 0
    <3>1. out \in Nat
      BY <1>4
    <3>2. market'[x].cash = market[x].cash - out
      BY <1>8, <2>2, <2>4, <3>1
    <3>3. /\ market'[x].totalBorrows = market[x].totalBorrows
          /\ market'[x].totalDeposits = market[x].totalDeposits
      BY <1>8, <2>4
    <3>4. /\ history'[x].interest = history[x].interest
          /\ history'[x].liquidated = history[x].liquidated
          /\ history'[x].paidOut = history[x].paidOut + out
      BY <1>9, <2>2, <2>4
    <3> HIDE DEF out
    <3> QED BY <2>1, <2>2, <3>1, <3>2, <3>3, <3>4 DEF Balanced
  <2> QED BY <2>3, <2>4
<1>15. Book!Settle(t, u)
  <2>1. /\ market \in [Tokens -> MarketType]
        /\ position[t][u].depositAmount \in Nat
        /\ position[t][u].borrowAmount \in Nat
    BY <1>3 DEF TypeOK, PositionType
  <2>2. CashSettled(t, amount, seize)
    BY <1>1, <1>8 DEF CashSettled
  <2>3. pp.depositAmount = position[t][u].depositAmount - seize
    BY <1>1, <1>7 DEF own
  <2>4. /\ pp.borrowAmount >= position[t][u].borrowAmount - amount
        /\ amount <= pp.borrowAmount
        /\ position[t][u].borrowAmount = 0 =>
             amount = 0 /\ pp.borrowAmount = 0
    BY <1>1, <1>5, <1>7, <2>1 DEF left
  <2>5. EntrySettled(t, u, pp, amount, seize)
    BY <2>3, <2>4 DEF EntrySettled
  <2>6. PositionReplaced(t, u, pp)
    BY <1>2 DEF PositionReplaced
  <2>7. TypeOK /\ pp \in PositionType /\ seize \in Nat
    BY <1>3, <1>4, <1>7
  <2> QED BY <2>2, <2>5, <2>6, <2>7, SettleInBook
<1>16. TotalsCoverPositions => TotalsCoverPositions'
  <2>1. /\ market[t].totalBorrows \in Nat /\ market[t].totalDeposits \in Nat
        /\ history[t].liquidated \in Nat /\ history[t].seized \in Nat
        /\ position[t][u].borrowAmount \in Nat
        /\ position[t][u].depositAmount \in Nat
    BY <1>3 DEF TypeOK, MarketType, HistoryType, PositionType
  <2>2. /\ market'[t].totalBorrows = market[t].totalBorrows + i
        /\ market'[t].totalDeposits = market[t].totalDeposits
    BY <1>1, <1>8
  <2>3. /\ history'[t].liquidated = history[t].liquidated + amount
        /\ history'[t].seized = history[t].seized + seize
    BY <1>9
  <2>4. /\ pp.borrowAmount = position[t][u].borrowAmount + i - amount
        /\ pp.depositAmount = position[t][u].depositAmount - seize
    BY <1>1, <1>4, <1>5, <1>7, <2>1 DEF left, own
  <2>5. TotalsMove(market[t], market'[t], position[t][u], pp,
                   history[t], history'[t])
    BY <1>1, <1>4, <2>1, <2>2, <2>3, <2>4 DEF TotalsMove
  <2>6. ASSUME NEW x \in Tokens \ {t}
        PROVE  /\ market'[x].totalBorrows = market[x].totalBorrows
               /\ market'[x].totalDeposits = market[x].totalDeposits
               /\ history'[x].liquidated = history[x].liquidated
               /\ history'[x].seized = history[x].seized
    <3>1. history[x].liquidated \in Nat /\ history[x].seized \in Nat
      BY <1>3 DEF TypeOK, HistoryType
    <3> QED BY <1>8, <1>9, <3>1
  <2>7. PositionReplaced(t, u, pp)
    BY <1>2 DEF PositionReplaced
  <2> QED BY <1>3, <1>7, <1>8, <1>9, <2>5, <2>6, <2>7, TotalsFollow
<1>17. PayoutsMatch => PayoutsMatch'
  BY <1>3, <1>4, <1>9, PayoutsFollow
<1>18. DebtsFallByPayment
  <2>1. UpToDate(market'[t], pp)
    <3>1. pp.borrowAmount > 0 => p.borrowAmount > 0
      BY <1>5, <1>6, <1>7
    <3>2. market'[t].globalIndex = m.globalIndex
      BY <1>8
    <3> QED BY <1>1, <1>7, <1>11, <3>1, <3>2 DEF UpToDate
  <2>2. PositionReplaced(t, u, pp)
    BY <1>2 DEF PositionReplaced
  <2>3. /\ market'[t].lastGlobalUpdate = now
        /\ market'[t].globalIndex = AccruedMarket(t, u).globalIndex
    BY <1>1, <1>8 DEF m
  <2>4. /\ Debt(t, u) = AccruedPosition(t, u).borrowAmount
        /\ Debt(t, u)' = pp.borrowAmount
        /\ \A x \in Tokens, v \in Users :
             ~(x = t /\ v = u) => Debt(x, v)' = Debt(x, v)
    BY <1>2, <1>7, <1>8, <2>1, <2>2, <2>3, OneDebtMoves
  <2>5. \A x \in Tokens, v \in Users : Debt(x, v) \in Nat
    BY DebtIsNat
  <2>6. Received(t) = amount
    <3> DEFINE out == IF t = WETH THEN seize ELSE 0
    <3>1. out \in Nat
      BY <1>4
    <3>2. /\ market'[t].cash = market[t].cash + amount - out
          /\ history'[t].paidOut = history[t].paidOut + out
      BY <1>1, <1>8, <1>9
    <3>3. market[t] \in MarketType /\ history[t] \in HistoryType
      BY <1>3 DEF TypeOK
    <3> HIDE DEF out
    <3> QED BY <3>1, <3>2, <3>3, ReceivedIs
  <2>7. Debt(t, u) - Debt(t, u)' = amount
    <3>1. Debt(t, u) = p.borrowAmount /\ Debt(t, u)' = left
      BY <1>7, <2>4 DEF p
    <3>2. p.borrowAmount \in Nat /\ left = p.borrowAmount - amount
      BY <1>5 DEF left
    <3> DEFINE a == p.borrowAmount
    <3>3. a \in Nat /\ left = a - amount
      BY <3>2
    <3> HIDE DEF a
    <3>4. a - left = amount
      BY <3>3
    <3> QED BY <3>1, <3>4 DEF a
  <2> QED BY <2>4, <2>5, <2>6, <2>7, PaidDebtsFall
<1> QED BY <1>12, <1>13, <1>14, <1>15, <1>16, <1>17, <1>18 DEF BooksKept

(* The administrator, the oracle and time leave markets and positions be.  *)
LEMMA Untouched ==
  ASSUME IInv, UNCHANGED <<market, position, history>>, now' \in Nat,
         now' >= now
  PROVE  /\ DebtIndexed' /\ BooksKept /\ IndicesRise
         /\ market' \in [Tokens -> MarketType]
         /\ position' \in [Tokens -> [Users -> PositionType]]
         /\ history' \in [Tokens -> HistoryType]
<1>1. /\ market' = market /\ position' = position /\ history' = history
      /\ TypeOK /\ DebtIndexed
  BY DEF IInv
<1>2. DebtIndexed'
  <2> SUFFICES ASSUME NEW t \in Tokens, NEW u \in Users
               PROVE  /\ Lags(market[t], position[t][u])
                      /\ market[t].lastGlobalUpdate <= now'
    BY <1>1 DEF DebtIndexed, Lags, IndexFloor
  <2>1. market[t].lastGlobalUpdate \in Nat /\ now \in Nat
    BY <1>1 DEF TypeOK, MarketType
  <2>2. market[t].lastGlobalUpdate <= now
    BY <1>1 DEF DebtIndexed
  <2> QED BY <1>1, <2>1, <2>2 DEF DebtIndexed, Lags, IndexFloor
<1>3. BooksKept
  BY <1>1, DebtsOnlyGrow DEF BooksKept, BooksBalance, TotalsCoverPositions, AllDebts,
              AllDeposits, PayoutsMatch, SeizedElsewhere
<1>4. IndicesRise
  <2> SUFFICES ASSUME NEW t \in Tokens, NEW u \in Users
               PROVE  /\ market[t].globalIndex >= market[t].globalIndex
                      /\ market[t].lastGlobalUpdate
                           >= market[t].lastGlobalUpdate
                      /\ ~(position[t][u].interestIndex
                             < position[t][u].interestIndex)
    <3>1. CASE Users = {}
      <4> QED BY <1>1, <3>1 DEF IndicesRise, TypeOK, MarketType
    <3>2. CASE Users # {}
      BY <1>1, <3>2 DEF IndicesRise
    <3> QED BY <3>1, <3>2
  <2> QED BY <1>1 DEF TypeOK, MarketType, PositionType
<1> QED BY <1>1, <1>2, <1>3, <1>4 DEF TypeOK

LEMMA AdminStepKeeps ==
  ASSUME IInv, AdminStep
  PROVE  IInv' /\ BooksKept /\ IndicesRise
<1>1. TypeOK /\ now \in Nat
  BY DEF IInv, TypeOK
<1>2. UNCHANGED <<market, position, history, now>>
  BY DEF AdminStep, SetTokenConfig, UpdatePrice, UpdateOracle, Pause, Unpause
<1>3. /\ config' \in [Tokens -> ConfigType]
      /\ price' \in [Tokens -> Nat]
      /\ paused' \in BOOLEAN
  <2>1. CASE \E t \in Tokens, c \in Configs : SetTokenConfig(t, c)
    <3>1. PICK t \in Tokens, c \in ConfigType :
            /\ config' = [config EXCEPT ![t] = c]
            /\ price' = price /\ paused' = paused
      BY <2>1, PoolConstants DEF SetTokenConfig
    <3> QED BY <1>1, <3>1 DEF TypeOK
  <2>2. CASE \E t \in Tokens, value \in Prices : UpdatePrice(t, value)
    <3>1. PICK t \in Tokens, value \in Nat :
            /\ price' = [price EXCEPT ![t] = value]
            /\ config' = config /\ paused' = paused
      BY <2>2, PoolConstants DEF UpdatePrice
    <3> QED BY <1>1, <3>1 DEF TypeOK
  <2>3. CASE \E prices \in [Tokens -> Prices \cup {0}] : UpdateOracle(prices)
    <3>1. PICK prices \in [Tokens -> Prices \cup {0}] :
            /\ price' = prices
            /\ config' = config /\ paused' = paused
      BY <2>3 DEF UpdateOracle
    <3>2. Prices \cup {0} \subseteq Nat
      BY PoolConstants
    <3> QED BY <1>1, <3>1, <3>2 DEF TypeOK
  <2>4. CASE Pause
    BY <1>1, <2>4 DEF Pause, TypeOK
  <2>5. CASE Unpause
    BY <1>1, <2>5 DEF Unpause, TypeOK
  <2> QED BY <2>1, <2>2, <2>3, <2>4, <2>5 DEF AdminStep
<1>4. now' \in Nat /\ now' >= now
  BY <1>1, <1>2
<1> QED BY <1>2, <1>3, <1>4, Untouched DEF IInv, TypeOK

LEMMA TickKeeps ==
  ASSUME IInv, Tick
  PROVE  IInv' /\ BooksKept /\ IndicesRise
<1>1. now' \in Nat /\ now' >= now
  BY DEF IInv, TypeOK, Tick
<1>2. UNCHANGED <<market, position, config, price, paused, history>>
  BY DEF Tick
<1> QED BY <1>1, <1>2, Untouched DEF IInv, TypeOK

LEMMA UserStepKeeps ==
  ASSUME IInv, UserStep
  PROVE  /\ IInv' /\ BooksKept /\ IndicesRise
         /\ Book!Next
<1>1. PICK u \in Users, t \in Tokens, amount \in Amounts :
        \/ Deposit(u, t, amount)
        \/ Withdraw(u, t, amount)
        \/ Borrow(u, t, amount)
        \/ BorrowBehalf(u, t, amount)
        \/ Repay(u, t, amount)
        \/ Liquidate(u, t, amount)
  BY DEF UserStep
<1>2. amount \in Nat
  BY PoolConstants
<1>3. CASE Deposit(u, t, amount)
  BY <1>2, <1>3, DepositStep DEF Book!Next
<1>4. CASE Withdraw(u, t, amount)
  BY <1>2, <1>4, WithdrawStep DEF Book!Next
<1>5. CASE Borrow(u, t, amount)
  BY <1>2, <1>5, LendStep DEF Borrow, Book!Next
<1>6. CASE BorrowBehalf(u, t, amount)
  BY <1>2, <1>6, LendStep DEF BorrowBehalf, Book!Next
<1>7. CASE Repay(u, t, amount)
  BY <1>2, <1>7, RepayStep DEF Book!Next
<1>8. CASE Liquidate(u, t, amount)
  BY <1>2, <1>8, LiquidateStep DEF Book!Next
<1> QED BY <1>1, <1>3, <1>4, <1>5, <1>6, <1>7, <1>8

(* A transaction stores the index that the view had reported, and leaves   *)
(* the index of every other token alone.                                   *)
AccruedOrKept(x) ==
  \/ /\ market'[x].globalIndex = market[x].globalIndex
     /\ market'[x].lastGlobalUpdate = market[x].lastGlobalUpdate
     /\ market'[x].totalBorrows = market[x].totalBorrows
  \/ /\ market'[x].lastGlobalUpdate = now
     /\ market'[x].globalIndex
          = GlobalAccrued(market[x], config[x].interestRate, now).globalIndex

LEMMA UserStepAccrues ==
  ASSUME IInv, UserStep, NEW x \in Tokens, market[x].globalIndex # 0
  PROVE  AccruedOrKept(x)
<1>1. PICK u \in Users, t \in Tokens, amount \in Amounts :
        \/ Deposit(u, t, amount)
        \/ Withdraw(u, t, amount)
        \/ Lend(u, t, amount)
        \/ Repay(u, t, amount)
        \/ Liquidate(u, t, amount)
  BY DEF UserStep, Borrow, BorrowBehalf
<1> DEFINE m == AccruedMarket(t, u)
           g == GlobalAccrued(market[t], config[t].interestRate, now)
<1>2. /\ market \in [Tokens -> MarketType] /\ WETH \in Tokens
      /\ amount \in Nat
  BY PoolConstants DEF IInv, TypeOK
<1>3. /\ m \in MarketType /\ m.globalIndex >= market[t].globalIndex
      /\ m.lastGlobalUpdate = now
  BY EntryAccrual DEF IInv
<1>4. m.globalIndex = g.globalIndex
  <2>1. /\ market[t] \in MarketType /\ config[t].interestRate \in Nat
        /\ now \in Nat /\ market[t].lastGlobalUpdate <= now
    BY DEF IInv, TypeOK, ConfigType, DebtIndexed
  <2>2. g \in MarketType
    BY <2>1, GlobalAccrual
  <2> HIDE DEF g
  <2>3. m = [g EXCEPT !.totalBorrows = g.totalBorrows + Interest(t, u)]
    BY DEF AccruedMarket, g
  <2> QED BY <2>2, <2>3 DEF MarketType
<1> HIDE DEF m, g
<1>5. ASSUME x = t, market'[t].lastGlobalUpdate = m.lastGlobalUpdate,
             market'[t].globalIndex = m.globalIndex
      PROVE  AccruedOrKept(x)
  BY <1>3, <1>4, <1>5 DEF AccruedOrKept, g
<1>6. ASSUME NEW n, market' = [market EXCEPT ![t] = n],
             n.lastGlobalUpdate = m.lastGlobalUpdate,
             n.globalIndex = m.globalIndex
      PROVE  AccruedOrKept(x)
  <2>1. CASE x = t
    BY <1>2, <1>5, <1>6, <2>1
  <2>2. CASE x # t
    BY <1>2, <1>6, <2>2 DEF AccruedOrKept
  <2> QED BY <2>1, <2>2
<1>7. CASE Deposit(u, t, amount)
  BY <1>3, <1>6, <1>7 DEF Deposit, Store, MarketType, m
<1>8. CASE Withdraw(u, t, amount)
  BY <1>3, <1>6, <1>8 DEF Withdraw, Store, MarketType, m
<1>9. CASE Repay(u, t, amount)
  BY <1>3, <1>6, <1>9 DEF Repay, Store, MarketType, m
<1>10. CASE Lend(u, t, amount)
  <2>1. CASE x = t
    <3>1. IndexOrInitial(m) = m.globalIndex
      <4>1. market[t].globalIndex \in Nat /\ m.globalIndex \in Nat
        BY <1>2, <1>3 DEF MarketType
      <4> QED BY <1>3, <2>1, <4>1 DEF IndexOrInitial
    <3> QED BY <1>3, <1>6, <1>10, <3>1 DEF Lend, Store, MarketType, m
  <2>2. CASE x # t
    BY <1>2, <1>10, <2>2 DEF Lend, Store, AccruedOrKept
  <2> QED BY <2>1, <2>2
<1>11. CASE Liquidate(u, t, amount)
  <2> DEFINE seize  == CollateralToSeize(t, amount)
             paid   == [m EXCEPT !.cash = m.cash + amount]
             repaid == [market EXCEPT ![t] = paid]
             left   == [repaid[WETH] EXCEPT !.cash = repaid[WETH].cash - seize]
  <2>1. market' = [repaid EXCEPT ![WETH] = left]
    BY <1>11 DEF Liquidate, m
  <2>2. /\ paid.globalIndex = m.globalIndex
        /\ paid.lastGlobalUpdate = m.lastGlobalUpdate
        /\ paid.totalBorrows = m.totalBorrows
    BY <1>3 DEF MarketType
  <2>3. paid = [m EXCEPT !.cash = paid.cash]
    BY <1>3 DEF MarketType
  <2>4. repaid[WETH] = IF WETH = t THEN paid ELSE market[WETH]
    BY <1>2
  <2>5. /\ left.globalIndex = repaid[WETH].globalIndex
        /\ left.lastGlobalUpdate = repaid[WETH].lastGlobalUpdate
        /\ left.totalBorrows = repaid[WETH].totalBorrows
    BY <1>2, <1>3, <2>4 DEF MarketType
  <2> HIDE DEF left, paid
  <2>6. market'[x] = IF x = WETH THEN left ELSE IF x = t THEN paid
                     ELSE market[x]
    BY <1>2, <2>1
  <2>7. CASE x = t
    <3>1. /\ market'[x].globalIndex = m.globalIndex
          /\ market'[x].lastGlobalUpdate = m.lastGlobalUpdate
      BY <2>2, <2>4, <2>5, <2>6, <2>7
    <3> QED BY <1>5, <2>7, <3>1
  <2>8. CASE x # t
    BY <2>4, <2>5, <2>6, <2>8 DEF AccruedOrKept
  <2> QED BY <2>7, <2>8
<1> QED BY <1>1, <1>7, <1>8, <1>9, <1>10, <1>11

LEMMA IndexIsForeseen ==
  ASSUME IInv, [Next]_vars
  PROVE  ReportedIndexStays
<1> SUFFICES ASSUME NEW x \in Tokens, UNCHANGED <<now, config[x]>>,
                    market[x].globalIndex # 0
             PROVE  CurrentGlobalIndex(market'[x], config[x].interestRate)
                      = CurrentGlobalIndex(market[x], config[x].interestRate)
  BY DEF ReportedIndexStays
<1> DEFINE m == market[x]
           n == market'[x]
           rate == config[x].interestRate
           g == GlobalAccrued(m, rate, now)
<1>0. CASE UNCHANGED market
  BY <1>0
<1>1. UserStep \/ UNCHANGED market
  BY DEF Next, AdminStep, SetTokenConfig, UpdatePrice, UpdateOracle, Pause,
         Unpause, Tick, vars
<1> SUFFICES ASSUME UserStep
             PROVE  CurrentGlobalIndex(n, rate) = CurrentGlobalIndex(m, rate)
  BY <1>0, <1>1
<1>2. /\ m \in MarketType /\ rate \in Nat /\ now \in Nat
      /\ m.lastGlobalUpdate <= now /\ m.globalIndex \in Nat
  <2>1. PICK u \in Users : TRUE
    BY DEF UserStep
  <2>2. m \in MarketType /\ rate \in Nat /\ now \in Nat
    BY DEF IInv, TypeOK, ConfigType
  <2>3. m.lastGlobalUpdate <= now
    BY <2>1 DEF IInv, DebtIndexed
  <2> QED BY <2>2, <2>3 DEF MarketType
<1>3. CurrentGlobalIndex(m, rate) = g.globalIndex
  BY <1>2, ForeseenIndex
<1>4. g.globalIndex \in Nat /\ g.globalIndex # 0
  <2>1. g \in MarketType /\ g.globalIndex >= m.globalIndex
    BY <1>2, GlobalAccrual
  <2> HIDE DEF g
  <2> QED BY <1>2, <2>1 DEF MarketType
<1>5. CASE n.lastGlobalUpdate = now /\ n.globalIndex = g.globalIndex
  <2> HIDE DEF g, n, m
  <2>1. ~(n.lastGlobalUpdate < now)
    BY <1>2, <1>5
  <2> QED BY <1>3, <1>4, <1>5, <2>1 DEF CurrentGlobalIndex, IndexOrInitial, n, m
<1>6. CASE /\ n.globalIndex = m.globalIndex
           /\ n.lastGlobalUpdate = m.lastGlobalUpdate
           /\ n.totalBorrows = m.totalBorrows
  BY <1>6 DEF CurrentGlobalIndex, IndexOrInitial
<1> QED BY UserStepAccrues, <1>5, <1>6 DEF AccruedOrKept

(* Every step of the contract, and every step that does nothing.           *)
LEMMA NextKeeps ==
  ASSUME IInv, [Next]_vars
  PROVE  /\ IInv' /\ BooksKept /\ IndicesRise
         /\ [Book!Next]_(Book!bookVars)
<1>1. CASE UserStep
  BY <1>1, UserStepKeeps
<1>2. ASSUME UNCHANGED <<market, position>>
      PROVE  UNCHANGED Book!bookVars
  BY <1>2 DEF Book!bookVars, Saved, Owed, Vault
<1>3. CASE AdminStep
  <2>1. UNCHANGED <<market, position>>
    BY <1>3 DEF AdminStep, SetTokenConfig, UpdatePrice, UpdateOracle, Pause,
                Unpause
  <2> QED BY <1>2, <1>3, <2>1, AdminStepKeeps
<1>4. CASE Tick
  <2>1. UNCHANGED <<market, position>>
    BY <1>4 DEF Tick
  <2> QED BY <1>2, <1>4, <2>1, TickKeeps
<1>5. CASE UNCHANGED vars
  <2>1. now' \in Nat /\ now' >= now
    BY <1>5 DEF IInv, TypeOK, vars
  <2>2. UNCHANGED <<market, position>>
    BY <1>5 DEF vars
  <2> QED BY <1>2, <1>5, <2>1, <2>2, Untouched DEF IInv, TypeOK, vars
<1> QED BY <1>1, <1>3, <1>4, <1>5 DEF Next

-----------------------------------------------------------------------------
(***************************************************************************)
(* Theorems.                                                               *)
(***************************************************************************)
THEOREM Invariance == Spec => []IInv
<1>1. Init => IInv
  BY InitIInv
<1>2. IInv /\ [Next]_vars => IInv'
  BY NextKeeps
<1> QED BY <1>1, <1>2, PTL DEF Spec

(* No operation of the contract, whatever its arguments, drives a total, a *)
(* balance, a debt or an index below zero or out of its type.              *)
THEOREM TypeCorrect == Spec => []TypeOK
<1>1. IInv => TypeOK
  BY DEF IInv
<1> QED BY <1>1, Invariance, PTL

(* A debt has an index exactly while it is not cleared, and no position is *)
(* ever ahead of its market: repay, liquidate and borrow agree on that     *)
(* although only two of the three write the index.                         *)
THEOREM DebtsAreIndexed == Spec => []DebtIndexed
<1>1. IInv => DebtIndexed
  BY DEF IInv
<1> QED BY <1>1, Invariance, PTL

(* Token balance plus loans equal deposits plus interest, up to what       *)
(* liquidations moved without updating the totals, after any transactions. *)
THEOREM BooksAreBalanced == Spec => []BooksBalance
<1>1. Init => BooksBalance
  BY DEF Init, BooksBalance
<1>2. IInv /\ BooksBalance /\ [Next]_vars => BooksBalance'
  BY NextKeeps DEF BooksKept
<1> QED BY <1>1, <1>2, Invariance, PTL DEF Spec

(* The totals the contract keeps are the sums of its positions, up to what *)
(* liquidators repaid and seized: no truncation, accrual or interleaving   *)
(* of users makes a total drift, so that no checked subtraction from it    *)
(* reverts a withdrawal or a repayment that the position allows.           *)
THEOREM TotalsAreExact == Spec => []TotalsCoverPositions
<1>1. Init => TotalsCoverPositions
  <2> SUFFICES ASSUME Init, NEW t \in Tokens
               PROVE  /\ market[t].totalBorrows
                           = AllDebts(t) + history[t].liquidated
                      /\ market[t].totalDeposits
                           = AllDeposits(t) + history[t].seized
    BY DEF TotalsCoverPositions
  <2>1. AllDebts(t) = 0 /\ AllDeposits(t) = 0
    BY NothingOwed
  <2> QED BY <2>1 DEF Init
<1>2. IInv /\ TotalsCoverPositions /\ [Next]_vars => TotalsCoverPositions'
  BY NextKeeps DEF BooksKept
<1> QED BY <1>1, <1>2, Invariance, PTL DEF Spec

(* Liquidators have received, in WETH, what they seized in all tokens.     *)
THEOREM PayoutsAreSeizures == Spec => []PayoutsMatch
<1>1. Init => PayoutsMatch
  <2> SUFFICES ASSUME Init PROVE PayoutsMatch
    OBVIOUS
  <2>1. \A t \in Tokens : history[t].paidOut = 0 /\ history[t].seized = 0
    BY DEF Init
  <2>2. SeizedElsewhere = 0
    BY NothingOwed
  <2> QED BY <2>1, <2>2, PoolConstants DEF PayoutsMatch
<1>2. IInv /\ PayoutsMatch /\ [Next]_vars => PayoutsMatch'
  BY NextKeeps DEF BooksKept
<1> QED BY <1>1, <1>2, Invariance, PTL DEF Spec

(* What the pool holds and is owed covers its depositors in every token    *)
(* but WETH, and there but for what liquidations of other tokens seized.   *)
THEOREM ShortfallIsSeized == Spec => []SolventButForSeizures
<1>1. TypeOK /\ BooksBalance /\ TotalsCoverPositions /\ PayoutsMatch
        => SolventButForSeizures
  BY ShortfallFollows
<1> QED BY <1>1, TypeCorrect, BooksAreBalanced, TotalsAreExact,
           PayoutsAreSeizures, PTL

(* A pool that has only ever listed WETH can pay out all its deposits once *)
(* its loans are repaid, whatever was lent, accrued and liquidated.        *)
THEOREM WethPoolIsSolvent ==
  ASSUME Tokens = {WETH}
  PROVE  Spec => []Solvent
<1>1. TypeOK /\ SolventButForSeizures => Solvent
  BY NoSeizedElsewhere
<1> QED BY <1>1, TypeCorrect, ShortfallIsSeized, PTL

(* Interest indices and accrual timestamps never go back, no transaction   *)
(* moves the index a view reports, so no period is charged twice, and only *)
(* clearing a debt resets its index.                                       *)
THEOREM IndicesNeverFall == Spec => IndexNeverFalls
<1>1. IInv /\ [Next]_vars => [IndicesRise /\ ReportedIndexStays]_vars
  BY NextKeeps, IndexIsForeseen
<1> QED BY <1>1, Invariance, PTL DEF Spec, IndexNeverFalls

(* While no rate changes nobody's debt, as the views report it, shrinks    *)
(* but by what the pool is paid for it: not by time, not by rounding, not  *)
(* by another user's transaction, not by a liquidation of somebody else.   *)
THEOREM DebtsAreOnlyPaidOff == Spec => DebtFallsOnlyByPayment
<1>1. IInv /\ [Next]_vars => [DebtsFallByPayment]_vars
  BY NextKeeps DEF BooksKept
<1> QED BY <1>1, Invariance, PTL DEF Spec, DebtFallsOnlyByPayment

(* At every moment getCurrentBorrowAmount tells a user exactly the debt    *)
(* that the user's next transaction in that block will store.              *)
THEOREM ViewsAreExact == Spec => []ViewMatchesCommit
<1>1. IInv => ViewMatchesCommit
  BY ViewIsCommitted
<1> QED BY <1>1, Invariance, PTL

(* The contract implements LendingBook: whatever happens to indices, rates *)
(* and totals, stored debts, deposits and the token balance move only as   *)
(* entries of a lending book may, one user at a time and paid to the unit. *)
THEOREM PoolKeepsBook == Spec => KeepsBook
<1>1. Init => Book!Init
  BY DEF Init, Book!Init, Saved, Owed, Vault
<1>2. IInv /\ [Next]_vars => [Book!Next]_(Book!bookVars)
  BY NextKeeps
<1> QED BY <1>1, <1>2, Invariance, PTL DEF Spec, KeepsBook, Book!Spec
=============================================================================
