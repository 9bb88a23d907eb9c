------------------------- MODULE LendingTabs_proofs -------------------------
(***************************************************************************)
(* Theorems about LendingTabs for any number of clicks, any amounts and    *)
(* any size of the account: what a handler reports is what it did, and     *)
(* nothing is withdrawn while a loan is out, with the two exceptions that  *)
(* NoWithdrawalInDebt names.                                               *)
(***************************************************************************)
EXTENDS LendingTabs, SequenceTheorems, TLAPS

Outcomes == {"none", "ok", "failed", "lost"}

Runs ==
  [kind : Kinds, amount : Nat, stage : Stages, mined : 0..2,
   logged : BOOLEAN, outcome : Outcomes]

Early == {"connecting", "checking", "approving", "allowing", "paying",
          "pending"}
Late  == {"refreshing", "rechecking", "payingRest", "pendingRest",
          "refreshingRest", "logging", "listing"}
Over  == {"unused", "orphaned", "ended"}

(* The stages of a full repayment between its two transactions.            *)
Between == {"refreshing", "rechecking", "payingRest", "pendingRest"}

(* What a handler has done at each stage.                                  *)
Sound(R) ==
  /\ R.stage \notin Over => R.stage \in ToSet(Route[R.kind])
  /\ R.stage \in Early \cup {"unused"} => R.mined = 0
  /\ R.stage \in Late => R.mined > 0
  /\ R.stage \in Between /\ R.kind = "fullRepay" => R.mined = 1
  /\ R.kind # "fullRepay" => R.mined <= 1
  /\ R.stage = "orphaned" =>
       /\ R.mined <= 1
       /\ R.kind # "fullRepay" => R.mined = 0
  /\ R.logged => R.mined > 0
  /\ R.kind \in {"withdraw", "borrow"} /\ R.stage = "refreshing" => R.logged
  /\ R.stage \notin {"orphaned", "ended"} => R.outcome = "none"
  /\ R.stage = "orphaned" => R.outcome \in {"failed", "lost"}
  /\ R.outcome = "ok" =>
       \/ R.mined > 0 /\ R.logged
       \/ R.mined = 0 /\ R.kind = "fullRepay"

(* `loading` lets one handler in at a time, liquidations apart, as long as *)
(* nobody else clears it.                                                  *)
Holds(R) == R.stage \notin Over /\ R.kind # "liquidate"

Locked ==
  ~intruded =>
    /\ \A r \in Clicks : Holds(run[r]) => loading
    /\ \A r, s \in Clicks : Holds(run[r]) /\ Holds(run[s]) => r = s

ListingRuns == \A r \in listing \ {Tab} : run[r].stage = "listing"

(* A withdrawal that was checked finds no loan but one that was mined late.*)
Checked(R) == R.kind = "withdraw" /\ R.stage \in {"paying", "pending"}
IsLate(R)  == R.kind = "borrow" /\ R.mined > 0 /\ R.outcome \in {"failed", "lost"}
Unowed ==
  ~intruded =>
    ((\E r \in Clicks : Checked(run[r])) => chain.debt = 0 \/ LateLoan)

IInv ==
  /\ TypeOK
  /\ \A r \in Clicks : Sound(run[r])
  /\ Locked /\ ListingRuns /\ Unowed
-----------------------------------------------------------------------------
(***************************************************************************)
(* Routes.                                                                 *)
(***************************************************************************)
LEMMA KindsAre ==
  Kinds = {"deposit", "withdraw", "borrow", "repay", "fullRepay", "liquidate"}
BY DEF Kinds, Route

LEMMA NoRepeats ==
  ASSUME NEW k \in Kinds, NEW i \in DOMAIN Route[k], NEW j \in DOMAIN Route[k],
         Route[k][i] = Route[k][j]
  PROVE  i = j
<1> USE DEF Route
<1>1. CASE k = "deposit"
  BY <1>1 DEF DepositRoute
<1>2. CASE k = "withdraw"
  BY <1>2 DEF WithdrawRoute
<1>3. CASE k = "borrow"
  BY <1>3 DEF BorrowRoute
<1>4. CASE k = "repay"
  BY <1>4 DEF RepayRoute
<1>5. CASE k = "fullRepay"
  BY <1>5 DEF FullRepayRoute
<1>6. CASE k = "liquidate"
  BY <1>6 DEF LiquidateRoute
<1> QED BY <1>1, <1>2, <1>3, <1>4, <1>5, <1>6, KindsAre

LEMMA AfterIsNext ==
  ASSUME NEW k \in Kinds, NEW i \in DOMAIN Route[k]
  PROVE  After(k, Route[k][i]) = Route[k][i + 1]
BY NoRepeats DEF After

(* The stages of each route, its first one and its last one.               *)
LEMMA RouteStages ==
  /\ ToSet(Route["deposit"]) = {DepositRoute[i] : i \in 1..5}
  /\ ToSet(Route["withdraw"]) = {WithdrawRoute[i] : i \in 1..6}
  /\ ToSet(Route["borrow"]) = {BorrowRoute[i] : i \in 1..6}
  /\ ToSet(Route["repay"]) = {RepayRoute[i] : i \in 1..8}
  /\ ToSet(Route["fullRepay"]) = {FullRepayRoute[i] : i \in 1..11}
  /\ ToSet(Route["liquidate"]) = {LiquidateRoute[i] : i \in 1..5}
BY DEF ToSet, Route, DepositRoute, WithdrawRoute, BorrowRoute, RepayRoute,
   FullRepayRoute, LiquidateRoute

LEMMA RouteLasts ==
  /\ Last(Route["deposit"]) = "logging"
  /\ Last(Route["withdraw"]) = "refreshing"
  /\ Last(Route["borrow"]) = "refreshing"
  /\ Last(Route["repay"]) = "logging"
  /\ Last(Route["fullRepay"]) = "logging"
  /\ Last(Route["liquidate"]) = "logging"
BY DEF Last, Route, DepositRoute, WithdrawRoute, BorrowRoute, RepayRoute,
   FullRepayRoute, LiquidateRoute

(* What comes after a stage.                                               *)
Follows(k, stage, next) ==
  /\ next \in ToSet(Route[k])
  /\ stage \in Early \ {"pending"} => next \in Early
  /\ stage \in Late \cup {"pending"} => next \in Late
  /\ next \in Between /\ k = "fullRepay" =>
       stage \in (Between \ {"pendingRest"}) \cup {"pending"}
  /\ k \in {"withdraw", "borrow"} /\ next = "refreshing" => stage = "logging"
  /\ k = "withdraw" /\ next = "paying" => stage = "checking"
  /\ k = "withdraw" /\ next = "pending" => stage = "paying"

LEMMA NextStage ==
  ASSUME NEW k \in Kinds, NEW stage \in ToSet(Route[k]),
         stage # Last(Route[k])
  PROVE  Follows(k, stage, After(k, stage))
<1>1. PICK i \in DOMAIN Route[k] : stage = Route[k][i]
  BY DEF ToSet
<1>2. After(k, stage) = Route[k][i + 1]
  BY <1>1, AfterIsNext
<1> USE DEF Follows, Early, Late, Between, Route
<1>3. CASE k = "deposit"
  BY <1>1, <1>2, <1>3, RouteStages, RouteLasts DEF DepositRoute
<1>4. CASE k = "withdraw"
  BY <1>1, <1>2, <1>4, RouteStages, RouteLasts DEF WithdrawRoute
<1>5. CASE k = "borrow"
  BY <1>1, <1>2, <1>5, RouteStages, RouteLasts DEF BorrowRoute
<1>6. CASE k = "repay"
  BY <1>1, <1>2, <1>6, RouteStages, RouteLasts DEF RepayRoute
<1>7. CASE k = "fullRepay"
  BY <1>1, <1>2, <1>7, RouteStages, RouteLasts DEF FullRepayRoute
<1>8. CASE k = "liquidate"
  BY <1>1, <1>2, <1>8, RouteStages, RouteLasts DEF LiquidateRoute
<1> QED BY <1>3, <1>4, <1>5, <1>6, <1>7, <1>8, KindsAre

(* Which handlers come to the stages that only some have.                  *)
LEMMA OwnStages ==
  ASSUME NEW k \in Kinds
  PROVE  /\ ToSet(Route[k]) \subseteq Early \cup Late
         /\ ToSet(Route[k]) \subseteq Stages
         /\ "logging" \in ToSet(Route[k])
         /\ Head(Route[k]) \in ToSet(Route[k]) /\ Head(Route[k]) \in Early
         /\ Head(Route[k]) \notin {"paying", "pending"}
         /\ Last(Route[k]) \in {"logging", "refreshing"}
         /\ Last(Route[k]) = "refreshing" <=> k \in {"withdraw", "borrow"}
         /\ "rechecking" \in ToSet(Route[k]) => k = "fullRepay"
         /\ "pendingRest" \in ToSet(Route[k]) => k = "fullRepay"
         /\ "payingRest" \in ToSet(Route[k]) => k = "fullRepay"
         /\ "allowing" \in ToSet(Route[k]) => k \in {"repay", "fullRepay"}
         /\ "approving" \in ToSet(Route[k]) => k \in {"repay", "fullRepay"}
         /\ "listing" \in ToSet(Route[k]) => k = "liquidate"
<1>0. ToSet(Route[k]) \subseteq Stages
  BY DEF Stages
<1> USE DEF Early, Late
<1>1. CASE k = "deposit"
  BY <1>0, <1>1, RouteStages, RouteLasts DEF DepositRoute, Route
<1>2. CASE k = "withdraw"
  BY <1>0, <1>2, RouteStages, RouteLasts DEF WithdrawRoute, Route
<1>3. CASE k = "borrow"
  BY <1>0, <1>3, RouteStages, RouteLasts DEF BorrowRoute, Route
<1>4. CASE k = "repay"
  BY <1>0, <1>4, RouteStages, RouteLasts DEF RepayRoute, Route
<1>5. CASE k = "fullRepay"
  BY <1>0, <1>5, RouteStages, RouteLasts DEF FullRepayRoute, Route
<1>6. CASE k = "liquidate"
  BY <1>0, <1>6, RouteStages, RouteLasts DEF LiquidateRoute, Route
<1> QED BY <1>1, <1>2, <1>3, <1>4, <1>5, <1>6, KindsAre
-----------------------------------------------------------------------------
(***************************************************************************)
(* What keeps each part of the invariant when one handler moves.           *)
(***************************************************************************)
LEMMA Records ==
  TypeOK <=> /\ run \in [Clicks -> Runs]
             /\ loading \in BOOLEAN
             /\ shell \in 0..MaxShell
             /\ intruded \in BOOLEAN
             /\ liquidationLoading \in BOOLEAN
             /\ listing \subseteq Clicks \cup {Tab}
             /\ sent \in Seq(Clicks)
             /\ chain \in [deposit : 0..MaxUnits, debt : 0..MaxUnits]
BY DEF TypeOK, Runs, Outcomes

LEMMA TabIsNoClick == Tab \notin Clicks
BY TabsConstants DEF Tab, Clicks

LEMMA Replace ==
  ASSUME IInv, NEW r \in Clicks, NEW N \in Runs, Sound(N),
         run' = [run EXCEPT ![r] = N]
  PROVE  /\ run' \in [Clicks -> Runs]
         /\ run'[r] = N
         /\ \A s \in Clicks \ {r} : run'[s] = run[s]
         /\ \A s \in Clicks : Sound(run'[s])
<1>1. run \in [Clicks -> Runs] /\ \A s \in Clicks : Sound(run[s])
  BY Records DEF IInv
<1>2. /\ run' \in [Clicks -> Runs]
      /\ run'[r] = N
      /\ \A s \in Clicks \ {r} : run'[s] = run[s]
  BY <1>1
<1> QED BY <1>1, <1>2

LEMMA LockKept ==
  ASSUME Locked, NEW r \in Clicks, UNCHANGED <<loading, intruded>>,
         \A s \in Clicks \ {r} : run'[s] = run[s],
         Holds(run'[r]) => Holds(run[r])
  PROVE  Locked'
<1>1. \A s \in Clicks : Holds(run'[s]) => Holds(run[s])
  OBVIOUS
<1> QED BY <1>1 DEF Locked

LEMMA LockLeft ==
  ASSUME Locked, NEW r \in Clicks, InFlight(r), UNCHANGED intruded,
         loading' = (loading /\ run[r].kind = "liquidate"),
         \A s \in Clicks \ {r} : run'[s] = run[s],
         ~Holds(run'[r])
  PROVE  Locked'
<1>1. ASSUME NEW s \in Clicks, Holds(run'[s])
      PROVE  Holds(run[s]) /\ s # r
  BY <1>1
<1>2. ASSUME NEW s \in Clicks, Holds(run'[s]), ~intruded
      PROVE  loading'
  <2>1. loading /\ ~Holds(run[r])
    BY <1>1, <1>2 DEF Locked
  <2>2. run[r].kind = "liquidate"
    BY <2>1 DEF InFlight, Holds, Over
  <2> QED BY <2>1, <2>2
<1>3. ~intruded =>
        \A s, q \in Clicks : Holds(run'[s]) /\ Holds(run'[q]) => s = q
  BY <1>1 DEF Locked
<1> QED BY <1>2, <1>3 DEF Locked

LEMMA ListingKept ==
  ASSUME ListingRuns, NEW r \in Clicks, run[r].stage # "listing",
         listing \subseteq Clicks \cup {Tab}, UNCHANGED listing,
         \A s \in Clicks \ {r} : run'[s] = run[s]
  PROVE  ListingRuns'
BY DEF ListingRuns

(* The rest of the state stays, or a transaction is sent or done with.     *)
RestKept ==
  /\ UNCHANGED <<shell, intruded, liquidationLoading, listing, chain>>
  /\ sent' \in Seq(Clicks)

LEMMA LateLoanIs == LateLoan <=> \E b \in Clicks : IsLate(run[b])
BY DEF LateLoan, IsLate

LEMMA UnowedKept ==
  ASSUME Unowed, NEW r \in Clicks, UNCHANGED intruded,
         \A s \in Clicks \ {r} : run'[s] = run[s],
         IsLate(run[r]) => IsLate(run'[r]),
         Checked(run'[r]) => Checked(run[r]) \/ chain.debt = 0,
         chain.debt = 0 => chain'.debt = 0
  PROVE  Unowed'
<1>1. LateLoan => LateLoan'
  <2> SUFFICES ASSUME NEW b \in Clicks, IsLate(run[b])
               PROVE  LateLoan'
    BY LateLoanIs
  <2>1. IsLate(run'[b])
    OBVIOUS
  <2> QED BY <2>1 DEF LateLoan, IsLate
<1>2. ASSUME NEW s \in Clicks, Checked(run'[s]), ~intruded
      PROVE  chain.debt = 0 \/ LateLoan
  BY <1>2 DEF Unowed
<1> QED BY <1>1, <1>2 DEF Unowed

(* The handler goes on to the next stage of its route.                     *)
LEMMA AdvanceKeeps ==
  ASSUME IInv, NEW r \in Clicks, InFlight(r), Advance(r),
         run[r].stage \notin {"pending", "pendingRest", "listing", "logging"},
         run[r].stage # Last(Route[run[r].kind]),
         run[r].kind = "withdraw" /\ run[r].stage = "checking" =>
           chain.debt = 0,
         UNCHANGED loading, RestKept
  PROVE  IInv'
<1> USE DEF IInv, RestKept
<1> DEFINE k == run[r].kind
           stage == run[r].stage
           next == After(k, stage)
           N == [run[r] EXCEPT !.stage = next]
<1>1. run[r] \in Runs /\ k \in Kinds /\ Sound(run[r])
  BY Records DEF Runs
<1>2. stage \in ToSet(Route[k])
  BY <1>1 DEF Sound, InFlight, Over
<1>3. Follows(k, stage, next)
  BY <1>1, <1>2, NextStage
<1>4. /\ next \in ToSet(Route[k]) /\ next \in Early \cup Late
      /\ next \in Stages /\ stage \in Early \cup Late
  BY <1>1, <1>2, <1>3, OwnStages DEF Follows
<1> HIDE DEF next
<1>5. /\ N \in Runs
      /\ N.kind = k /\ N.stage = next /\ N.mined = run[r].mined
      /\ N.logged = run[r].logged /\ N.outcome = run[r].outcome
  BY <1>1, <1>4 DEF Runs
<1>6. run' = [run EXCEPT ![r] = N]
  BY DEF Advance, GoTo, next
<1> HIDE DEF N
<1>7. run[r].outcome = "none" /\ next \notin Over
  BY <1>1, <1>4 DEF Sound, InFlight, Over, Early, Late
<1>8. Sound(N)
  <2>1. run[r].logged => run[r].mined > 0
    BY <1>1 DEF Sound
  <2>2. CASE stage \in Early
    <3>1. next \in Early /\ run[r].mined = 0
      BY <1>1, <1>3, <2>2 DEF Sound, Follows, Early
    <3>2. ~run[r].logged
      BY <2>1, <3>1
    <3> QED
      BY <1>1, <1>3, <1>4, <1>5, <1>7, <3>1, <3>2
         DEF Sound, Follows, Early, Late, Over, Between
  <2>3. CASE stage \in Late
    <3>1. next \in Late /\ run[r].mined > 0
      BY <1>1, <1>3, <2>3 DEF Sound, Follows, Late
    <3>2. next \in Between /\ k = "fullRepay" => run[r].mined = 1
      BY <1>1, <1>3 DEF Sound, Follows, Between
    <3>3. ~(k \in {"withdraw", "borrow"} /\ next = "refreshing")
      BY <1>3 DEF Follows
    <3>4. k # "fullRepay" => run[r].mined <= 1
      BY <1>1 DEF Sound
    <3> QED
      BY <1>4, <1>5, <1>7, <3>1, <3>2, <3>3, <3>4
         DEF Sound, Early, Late, Over
  <2> QED BY <1>4, <2>2, <2>3
<1>9. /\ run' \in [Clicks -> Runs] /\ run'[r] = N
      /\ \A s \in Clicks \ {r} : run'[s] = run[s]
      /\ \A s \in Clicks : Sound(run'[s])
  BY <1>5, <1>6, <1>8, Replace
<1>10. TypeOK'
  BY <1>9, Records DEF TypeOK, Runs, Outcomes
<1>11. Locked'
  BY <1>5, <1>9, LockKept DEF Holds, InFlight, Over
<1>12. ListingRuns'
  BY <1>9, ListingKept DEF TypeOK
<1>13. /\ Checked(N) => Checked(run[r]) \/ chain.debt = 0
       /\ ~IsLate(run[r])
  BY <1>3, <1>5, <1>7 DEF Checked, Follows, IsLate
<1>14. Unowed'
  BY <1>5, <1>9, <1>13, UnowedKept
<1> QED BY <1>9, <1>10, <1>11, <1>12, <1>14

LEMMA NoRouteStages == Over \subseteq Stages
BY DEF Over, Stages

(* What was mined of a handler while it waits for a transaction.           *)
LEMMA PendingMined ==
  ASSUME NEW r \in Clicks, run[r] \in Runs, Sound(run[r]),
         run[r].stage \in Pending \cup {"paying", "payingRest"}
  PROVE  /\ run[r].mined <= 1
         /\ run[r].kind # "fullRepay" => run[r].mined = 0
<1>1. /\ run[r].kind \in Kinds
      /\ run[r].stage \in ToSet(Route[run[r].kind])
  BY DEF Runs, Sound, Over, Pending
<1>2. run[r].stage \in {"pendingRest", "payingRest"} =>
        run[r].kind = "fullRepay"
  BY <1>1, OwnStages
<1> QED BY <1>2 DEF Sound, Early, Between, Pending

(* The handler ends, with or without an error.                             *)
LEMMA EndKeeps ==
  ASSUME IInv, NEW r \in Clicks, InFlight(r),
         run[r].stage # "listing", NEW o \in {"ok", "failed"},
         NEW left \in {"ended", "orphaned"},
         left = "orphaned" => o = "failed" /\ run[r].stage \in Pending,
         o = "ok" => \/ run[r].mined > 0 /\ run[r].logged
                     \/ run[r].mined = 0 /\ run[r].kind = "fullRepay",
         Finally(r, left, o), RestKept
  PROVE  IInv'
<1> USE DEF IInv, RestKept
<1> DEFINE N == [run[r] EXCEPT !.stage = left, !.outcome = o]
<1>1. /\ run[r] \in Runs /\ Sound(run[r])
      /\ left \in Stages /\ o \in Outcomes
  BY Records, NoRouteStages DEF Over, Outcomes
<1>2. /\ N \in Runs
      /\ N.kind = run[r].kind /\ N.stage = left
      /\ N.mined = run[r].mined
      /\ N.logged = run[r].logged /\ N.outcome = o
  BY <1>1 DEF Runs
<1>3. /\ run' = [run EXCEPT ![r] = N]
      /\ loading' = (loading /\ run[r].kind = "liquidate")
  BY DEF Finally
<1> HIDE DEF N
<1>4. run[r].outcome = "none"
  BY <1>1 DEF Sound, InFlight
<1>5. Sound(N)
  <2>1. run[r].logged => run[r].mined > 0
    BY <1>1 DEF Sound
  <2>2. run[r].kind # "fullRepay" => run[r].mined <= 1
    BY <1>1 DEF Sound
  <2>3. left = "orphaned" => /\ run[r].mined <= 1
                             /\ run[r].kind # "fullRepay" => run[r].mined = 0
    BY <1>1, PendingMined
  <2> QED BY <1>2, <2>1, <2>2, <2>3 DEF Sound, Over, Early, Late, Between
<1>6. /\ run' \in [Clicks -> Runs] /\ run'[r] = N
      /\ \A s \in Clicks \ {r} : run'[s] = run[s]
      /\ \A s \in Clicks : Sound(run'[s])
  BY <1>2, <1>3, <1>5, Replace
<1>7. TypeOK'
  BY <1>3, <1>6, Records DEF TypeOK, Runs, Outcomes
<1>8. Locked'
  BY <1>2, <1>3, <1>6, LockLeft DEF Holds, Over
<1>9. ListingRuns'
  BY <1>6, ListingKept DEF TypeOK
<1>10. Unowed'
  BY <1>2, <1>4, <1>6, UnowedKept DEF Checked, IsLate
<1> QED BY <1>6, <1>7, <1>8, <1>9, <1>10

LEMMA FailKeeps ==
  ASSUME IInv, NEW r \in Clicks, Fail(r)
  PROVE  IInv'
<1>1. InFlight(r) /\ run[r].stage # "listing"
  BY DEF Fail
<1>2. RestKept
  BY DEF Fail, others, account, RestKept, IInv, TypeOK
<1>3. CASE run[r].stage \in Pending
  BY <1>1, <1>2, <1>3, EndKeeps DEF Fail
<1>4. CASE run[r].stage \notin Pending
  BY <1>1, <1>2, <1>4, EndKeeps DEF Fail
<1> QED BY <1>3, <1>4

-----------------------------------------------------------------------------
(***************************************************************************)
(* The invariant, action by action.                                        *)
(***************************************************************************)
LEMMA InitInvariant == Init => IInv
<1> SUFFICES ASSUME Init PROVE IInv
  OBVIOUS
<1> USE DEF Init
<1> DEFINE N == [kind |-> "deposit", amount |-> 0, stage |-> "unused",
                 mined |-> 0, logged |-> FALSE, outcome |-> "none"]
<1>1. N \in Runs
  <2>1. "unused" \in Stages /\ "deposit" \in Kinds
    BY KindsAre, NoRouteStages DEF Over
  <2> QED BY <2>1 DEF Runs, Outcomes
<1>2. Sound(N) /\ ~Holds(N) /\ ~Checked(N)
  BY DEF Sound, Holds, Checked, Over, Early, Late, Between
<1>3. run = [r \in Clicks |-> N]
  OBVIOUS
<1> HIDE DEF N
<1>4. run \in [Clicks -> Runs] /\ \A r \in Clicks : run[r] = N
  BY <1>1, <1>3
<1>5. /\ loading \in BOOLEAN /\ liquidationLoading \in BOOLEAN
      /\ shell \in 0..MaxShell /\ intruded \in BOOLEAN
      /\ sent \in Seq(Clicks)
  <2>1. shell \in 0..MaxShell
    BY TabsConstants
  <2>2. sent = <<>> /\ <<>> \in Seq(Clicks)
    OBVIOUS
  <2> QED BY <2>1, <2>2
<1>6. chain \in [deposit : 0..MaxUnits, debt : 0..MaxUnits]
  BY TabsConstants
<1>7. TypeOK
  BY <1>4, <1>5, <1>6, Records
<1>8. /\ \A r \in Clicks : Sound(run[r])
      /\ Locked /\ ListingRuns /\ Unowed
  BY <1>2, <1>4 DEF Locked, ListingRuns, Unowed
<1> QED BY <1>7, <1>8 DEF IInv

(* A button is pressed.  It is disabled while another handler holds        *)
(* `loading`.                                                              *)
LEMMA ClickKeeps ==
  ASSUME IInv, NEW r \in Clicks, NEW k \in Kinds, NEW amount \in Amounts,
         Click(r, k, amount)
  PROVE  IInv'
<1> USE DEF IInv
<1> DEFINE first == Head(Route[k])
           N == [run[r] EXCEPT !.kind = k, !.amount = amount, !.stage = first]
<1>1. /\ run[r] \in Runs /\ Sound(run[r]) /\ amount \in Nat
  BY Records, TabsConstants
<1>2. /\ first \in ToSet(Route[k]) /\ first \in Early /\ first \in Stages
      /\ first \notin {"paying", "pending"}
  BY OwnStages
<1> HIDE DEF first
<1>3. /\ N \in Runs
      /\ N.kind = k /\ N.stage = first /\ N.mined = run[r].mined
      /\ N.logged = run[r].logged /\ N.outcome = run[r].outcome
  BY <1>1, <1>2 DEF Runs
<1>4. /\ run[r].stage = "unused"
      /\ k # "liquidate" => ~loading
      /\ run' = [run EXCEPT ![r] = N]
      /\ loading' = (loading \/ k # "liquidate")
      /\ UNCHANGED <<shell, intruded, liquidationLoading, listing, sent, chain>>
  BY DEF Click, first, others, account
<1> HIDE DEF N
<1>5. run[r].mined = 0 /\ ~run[r].logged /\ run[r].outcome = "none"
  BY <1>1, <1>4 DEF Sound, Runs
<1>6. Sound(N)
  BY <1>2, <1>3, <1>5 DEF Sound, Early, Late, Over, Between
<1>7. /\ run' \in [Clicks -> Runs] /\ run'[r] = N
      /\ \A s \in Clicks \ {r} : run'[s] = run[s]
      /\ \A s \in Clicks : Sound(run'[s])
  BY <1>3, <1>4, <1>6, Replace
<1>8. TypeOK'
  BY <1>4, <1>7, Records DEF TypeOK, Runs, Outcomes
<1>9. Locked'
  <2>1. CASE k = "liquidate"
    <3>1. ~Holds(run'[r])
      BY <1>3, <1>7, <2>1 DEF Holds
    <3>2. UNCHANGED loading
      BY <1>4, <2>1 DEF TypeOK
    <3> QED BY <1>4, <1>7, <3>1, <3>2, LockKept
  <2>2. CASE k # "liquidate"
    <3>1. ~intruded => \A s \in Clicks : ~Holds(run[s])
      BY <1>4, <2>2 DEF Locked
    <3>2. ~intruded => \A s \in Clicks : Holds(run'[s]) => s = r
      BY <1>7, <3>1
    <3> QED BY <1>4, <2>2, <3>2 DEF Locked
  <2> QED BY <2>1, <2>2
<1>10. ListingRuns'
  BY <1>4, <1>7, ListingKept DEF TypeOK
<1>11. Unowed'
  <2>1. ASSUME NEW s \in Clicks, Checked(run'[s])
        PROVE  Checked(run[s])
    BY <1>2, <1>3, <1>7, <2>1 DEF Checked
  <2>2. ~IsLate(run[r])
    BY <1>5 DEF IsLate
  <2> QED BY <1>4, <1>7, <2>1, <2>2, UnowedKept
<1> QED BY <1>7, <1>8, <1>9, <1>10, <1>11

LEMMA SentKept ==
  ASSUME TypeOK, NEW r \in Clicks,
         UNCHANGED sent \/ sent' = Append(sent, r) \/ (sent # <<>> /\ sent' = Tail(sent))
  PROVE  sent' \in Seq(Clicks)
<1>0. sent \in Seq(Clicks)
  BY DEF TypeOK
<1>1. CASE UNCHANGED sent
  BY <1>0, <1>1
<1>2. CASE sent' = Append(sent, r)
  BY <1>0, <1>2, AppendProperties
<1>3. CASE sent # <<>> /\ sent' = Tail(sent)
  BY <1>0, <1>3, HeadTailProperties
<1> QED BY <1>1, <1>2, <1>3

LEMMA AdvancingKeeps ==
  ASSUME IInv, NEW r \in Clicks, GetContracts(r) \/ Allow(r)
  PROVE  IInv'
<1>1. /\ Advance(r) /\ UNCHANGED loading
      /\ UNCHANGED <<shell, intruded, liquidationLoading, listing, sent, chain>>
      /\ run[r].stage \in {"connecting", "allowing"}
  BY DEF GetContracts, Allow, others, account
<1>2. run[r].kind \in Kinds /\ RestKept
  BY <1>1, Records DEF IInv, TypeOK, Runs, RestKept
<1> QED BY <1>1, <1>2, AdvanceKeeps, OwnStages DEF InFlight

(* The user confirms; after a reload only the queue of the account grows.  *)
LEMMA ConfirmKeeps ==
  ASSUME IInv, NEW r \in Clicks, Confirm(r)
  PROVE  IInv'
<1>1. /\ UNCHANGED <<loading, shell, intruded, liquidationLoading, listing, chain>>
      /\ sent' = Append(sent, r)
  BY DEF Confirm, others
<1>2. RestKept /\ run[r].kind \in Kinds
  BY <1>1, SentKept, Records DEF RestKept, IInv, Runs
<1>3. CASE run[r].stage \in {"paying", "payingRest"} /\ Advance(r)
  BY <1>1, <1>2, <1>3, AdvanceKeeps, OwnStages DEF InFlight
<1>4. CASE UNCHANGED run
  <2>1. TypeOK'
    BY <1>1, <1>2, <1>4 DEF IInv, TypeOK, RestKept
  <2> QED
    BY <1>1, <1>4, <2>1
       DEF IInv, Locked, ListingRuns, Unowed, LateLoan
<1> QED BY <1>3, <1>4 DEF Confirm

LEMMA CheckPositionKeeps ==
  ASSUME IInv, NEW r \in Clicks, CheckPosition(r)
  PROVE  IInv'
<1> USE DEF IInv
<1>1. /\ run[r] \in Runs /\ run[r].kind \in Kinds /\ Sound(run[r])
      /\ run[r].stage = "checking" /\ InFlight(r)
      /\ UNCHANGED <<shell, intruded, liquidationLoading, listing, sent, chain>>
      /\ chain.deposit \in Nat /\ chain.debt \in Nat
  BY Records DEF Runs, CheckPosition, InFlight, others, account
<1>0. RestKept
  BY <1>1 DEF RestKept, TypeOK
<1>2. CASE run[r].kind # "fullRepay"
  <2>1. Advance(r) /\ UNCHANGED loading
    BY <1>2 DEF CheckPosition
  <2>2. run[r].kind = "withdraw" => chain.debt = 0
    BY <1>1 DEF CheckPosition, Refuses
  <2> QED BY <1>0, <1>1, <2>1, <2>2, AdvanceKeeps, OwnStages
<1>3. CASE run[r].kind = "fullRepay" /\ chain.debt = 0
  <2>1. Finally(r, "ended", "ok")
    BY <1>3 DEF CheckPosition
  <2>2. run[r].mined = 0
    BY <1>1 DEF Sound, Early
  <2> QED BY <1>0, <1>1, <1>3, <2>1, <2>2, EndKeeps
<1>4. CASE run[r].kind = "fullRepay" /\ chain.debt # 0
  <2> DEFINE N == [run[r] EXCEPT !.amount = chain.debt, !.stage = "approving"]
  <2>1. "approving" \in Stages /\ "approving" \in ToSet(Route["fullRepay"])
    <3>1. "approving" \in ToSet(Route["fullRepay"])
      BY RouteStages DEF FullRepayRoute
    <3> QED BY <3>1, <1>4, <1>1, OwnStages
  <2>2. /\ N \in Runs
        /\ N.kind = run[r].kind /\ N.stage = "approving"
        /\ N.mined = run[r].mined
        /\ N.logged = run[r].logged /\ N.outcome = run[r].outcome
    BY <1>1, <2>1 DEF Runs
  <2>3. run' = [run EXCEPT ![r] = N] /\ UNCHANGED loading
    BY <1>4 DEF CheckPosition
  <2> HIDE DEF N
  <2>4. run[r].mined = 0 /\ ~run[r].logged /\ run[r].outcome = "none"
    BY <1>1 DEF Sound, Early, Runs
  <2>5. Sound(N)
    BY <1>4, <2>1, <2>2, <2>4 DEF Sound, Early, Late, Over, Between
  <2>6. /\ run' \in [Clicks -> Runs] /\ run'[r] = N
        /\ \A s \in Clicks \ {r} : run'[s] = run[s]
        /\ \A s \in Clicks : Sound(run'[s])
    BY <2>2, <2>3, <2>5, Replace
  <2>7. TypeOK'
    BY <1>1, <2>3, <2>6, Records DEF TypeOK, Runs, Outcomes
  <2>8. Locked'
    BY <1>1, <1>4, <2>3, <2>6, LockKept DEF Holds, InFlight, Over
  <2>9. ListingRuns'
    BY <1>1, <2>6, ListingKept DEF TypeOK
  <2>10. Unowed'
    BY <1>1, <2>2, <2>4, <2>6, UnowedKept DEF Checked, IsLate
  <2> QED BY <2>6, <2>7, <2>8, <2>9, <2>10
<1> QED BY <1>2, <1>3, <1>4

LEMMA RefreshKeeps ==
  ASSUME IInv, NEW r \in Clicks, Refresh(r)
  PROVE  IInv'
<1> USE DEF IInv
<1>1. /\ run[r] \in Runs /\ run[r].kind \in Kinds /\ Sound(run[r])
      /\ run[r].stage \in {"refreshing", "refreshingRest"} /\ InFlight(r)
      /\ RestKept
  BY Records DEF Runs, Refresh, InFlight, others, account, RestKept, TypeOK
<1>2. CASE run[r].stage = Last(Route[run[r].kind])
  <2>1. Finally(r, "ended", "ok")
    BY <1>2 DEF Refresh
  <2>2. run[r].kind \in {"withdraw", "borrow"} /\ run[r].stage = "refreshing"
    BY <1>1, <1>2, OwnStages
  <2>3. run[r].mined > 0 /\ run[r].logged
    BY <1>1, <2>2 DEF Sound
  <2> QED BY <1>1, <2>1, <2>3, EndKeeps
<1>3. CASE run[r].stage # Last(Route[run[r].kind])
  BY <1>1, <1>3, AdvanceKeeps DEF Refresh
<1> QED BY <1>2, <1>3

(* What the transaction does to the account leaves a debt of zero alone,   *)
(* unless it borrows.                                                      *)
LEMMA EffectOnAccount ==
  ASSUME TypeOK, NEW r \in Clicks, Effect(r)
  PROVE  /\ chain' \in [deposit : 0..MaxUnits, debt : 0..MaxUnits]
         /\ run[r].kind # "borrow" /\ chain.debt = 0 => chain'.debt = 0
<1>1. /\ run[r].kind \in Kinds /\ run[r].amount \in Nat
      /\ chain \in [deposit : 0..MaxUnits, debt : 0..MaxUnits]
      /\ MaxUnits \in Nat
  BY Records, TabsConstants DEF Runs
<1>2. CASE run[r].kind = "deposit"
  BY <1>1, <1>2 DEF Effect
<1>3. CASE run[r].kind = "withdraw"
  BY <1>1, <1>3 DEF Effect
<1>4. CASE run[r].kind = "borrow"
  BY <1>1, <1>4 DEF Effect
<1>5. CASE run[r].kind \in {"repay", "fullRepay"}
  BY <1>1, <1>5 DEF Effect
<1>6. CASE run[r].kind = "liquidate"
  BY <1>1, <1>6 DEF Effect
<1> QED BY <1>1, <1>2, <1>3, <1>4, <1>5, <1>6, KindsAre

(* A loan that is mined while a checked withdrawal waits is a late one,    *)
(* for two handlers cannot hold `loading`.                                 *)
LEMMA MinedUnowed ==
  ASSUME IInv, NEW r \in Clicks, Mined(r), Effect(r), UNCHANGED intruded,
         \A s \in Clicks \ {r} : run'[s] = run[s],
         run'[r].kind = run[r].kind, ~Checked(run'[r]), run'[r].mined > 0,
         run[r].stage = "orphaned" => run'[r].outcome = run[r].outcome,
         IsLate(run[r]) => run'[r].outcome = run[r].outcome
  PROVE  Unowed'
<1> USE DEF IInv
<1>1. CASE run[r].kind # "borrow"
  BY <1>1, EffectOnAccount, UnowedKept DEF IsLate
<1>2. CASE run[r].kind = "borrow" /\ run[r].stage = "orphaned"
  <2>1. run[r].outcome \in {"failed", "lost"}
    BY <1>2 DEF Sound
  <2> QED BY <1>2, <2>1 DEF Unowed, LateLoan
<1>3. CASE run[r].kind = "borrow" /\ run[r].stage # "orphaned"
  <2>1. Holds(run[r])
    BY <1>3 DEF Mined, Pending, Holds, Over
  <2>2. ASSUME NEW s \in Clicks, Checked(run'[s]), ~intruded PROVE FALSE
    <3>1. s # r /\ Checked(run[s])
      BY <2>2
    <3>2. Holds(run[s])
      BY <3>1 DEF Checked, Holds, Over
    <3> QED BY <2>1, <2>2, <3>1, <3>2 DEF Locked
  <2> QED BY <2>2 DEF Unowed
<1> QED BY <1>1, <1>2, <1>3

(* What a mined transaction adds to the record of its click.               *)
LEMMA MinedMore ==
  ASSUME IInv, NEW r \in Clicks, Mined(r)
  PROVE  /\ run[r] \in Runs /\ run[r].kind \in Kinds /\ Sound(run[r])
         /\ run[r].mined \in 0..1 /\ run[r].mined + 1 \in 0..2
         /\ run[r].kind # "fullRepay" => run[r].mined = 0
         /\ run[r].stage # "orphaned" => InFlight(r) /\ run[r].outcome = "none"
         /\ run[r].stage = "orphaned" => run[r].outcome \in {"failed", "lost"}
         /\ sent' \in Seq(Clicks)
<1> USE DEF IInv
<1>1. /\ run[r] \in Runs /\ run[r].kind \in Kinds /\ Sound(run[r])
      /\ run[r].stage \in {"pending", "pendingRest", "orphaned"}
      /\ run[r].mined \in Nat
  BY Records DEF Runs, Mined, Pending
<1>2. sent' \in Seq(Clicks)
  BY SentKept DEF Mined
<1>3. /\ run[r].mined <= 1
      /\ run[r].kind # "fullRepay" => run[r].mined = 0
  BY <1>1, PendingMined DEF Sound, Pending
<1>4. /\ run[r].stage # "orphaned" => InFlight(r) /\ run[r].outcome = "none"
      /\ run[r].stage = "orphaned" => run[r].outcome \in {"failed", "lost"}
  BY <1>1 DEF Sound, InFlight
<1> QED BY <1>1, <1>2, <1>3, <1>4

LEMMA MineKeeps ==
  ASSUME IInv, NEW r \in Clicks, Mine(r)
  PROVE  IInv'
<1> USE DEF IInv
<1> DEFINE k == run[r].kind
           stage == run[r].stage
           next == IF stage = "orphaned" THEN "ended" ELSE After(k, stage)
           more == run[r].mined + 1
           N == [run[r] EXCEPT !.stage = next, !.mined = more]
<1>1. /\ Mined(r)
      /\ stage \in {"pending", "pendingRest", "orphaned"}
      /\ Effect(r) /\ UNCHANGED <<loading, shell, intruded>>
      /\ run' = [run EXCEPT ![r] = N]
  BY Records DEF Runs, Mine, Mined, Pending, Orphan
<1>2. /\ run[r] \in Runs /\ k \in Kinds /\ Sound(run[r])
      /\ run[r].mined \in 0..1 /\ more \in 0..2 /\ more > 0
      /\ k # "fullRepay" => run[r].mined = 0
      /\ stage # "orphaned" => InFlight(r) /\ run[r].outcome = "none"
      /\ stage = "orphaned" => run[r].outcome \in {"failed", "lost"}
      /\ sent' \in Seq(Clicks)
  BY <1>1, MinedMore
<1>3. CASE stage = "orphaned"
  <2>1. next = "ended" /\ "ended" \in Stages
    BY <1>3, NoRouteStages DEF Over
  <2>2. k # "fullRepay" => more <= 1
    BY <1>2
  <2> HIDE DEF next, more
  <2>3. /\ N \in Runs
        /\ N.kind = k /\ N.stage = "ended" /\ N.mined = more
        /\ N.logged = run[r].logged /\ N.outcome = run[r].outcome
    BY <1>2, <2>1 DEF Runs
  <2> HIDE DEF N
  <2>4. Sound(N)
    BY <1>2, <1>3, <2>2, <2>3 DEF Sound, Early, Late, Over, Between
  <2>5. /\ run' \in [Clicks -> Runs] /\ run'[r] = N
        /\ \A s \in Clicks \ {r} : run'[s] = run[s]
        /\ \A s \in Clicks : Sound(run'[s])
    BY <1>1, <2>3, <2>4, Replace
  <2>6. UNCHANGED <<liquidationLoading, listing>>
    BY <2>3, <2>5 DEF Mine, TypeOK
  <2>7. TypeOK'
    BY <1>1, <1>2, <2>5, <2>6, EffectOnAccount, Records DEF TypeOK, Runs, Outcomes
  <2>8. Locked'
    BY <1>1, <2>3, <2>5, LockKept DEF Holds, Over
  <2>9. ListingRuns'
    BY <1>3, <2>5, <2>6, ListingKept DEF TypeOK
  <2>10. Unowed'
    BY <1>1, <1>2, <2>3, <2>5, MinedUnowed DEF Checked
  <2> QED BY <2>5, <2>7, <2>8, <2>9, <2>10
<1>4. CASE stage # "orphaned"
  <2>1. stage \in {"pending", "pendingRest"} /\ InFlight(r)
    BY <1>1, <1>2, <1>4
  <2>2. stage \in ToSet(Route[k]) /\ stage # Last(Route[k])
    BY <1>2, <2>1, OwnStages DEF Sound, Over
  <2>3. Follows(k, stage, next)
    BY <1>2, <1>4, <2>2, NextStage
  <2>4. next \in ToSet(Route[k]) /\ next \in Late /\ next \in Stages
    BY <1>2, <2>1, <2>3, OwnStages DEF Follows, Late
  <2>5. /\ next \in Between /\ k = "fullRepay" => run[r].mined = 0
        /\ ~(k \in {"withdraw", "borrow"} /\ next = "refreshing")
    BY <1>2, <2>1, <2>3 DEF Sound, Follows, Early, Between
  <2>6. /\ k # "fullRepay" => more <= 1
        /\ next \in Between /\ k = "fullRepay" => more = 1
    BY <1>2, <2>5
  <2> HIDE DEF next, more
  <2>7. /\ N \in Runs
        /\ N.kind = k /\ N.stage = next /\ N.mined = more
        /\ N.logged = run[r].logged /\ N.outcome = "none"
    BY <1>2, <1>4, <2>4 DEF Runs
  <2> HIDE DEF N
  <2>8. Sound(N)
    BY <1>2, <2>4, <2>5, <2>6, <2>7 DEF Sound, Early, Late, Over, Between
  <2>9. /\ run' \in [Clicks -> Runs] /\ run'[r] = N
        /\ \A s \in Clicks \ {r} : run'[s] = run[s]
        /\ \A s \in Clicks : Sound(run'[s])
    BY <1>1, <2>7, <2>8, Replace
  <2>10. /\ listing' = listing \cup {s \in {r} : run'[s].stage = "listing"}
         /\ liquidationLoading' \in BOOLEAN
    BY DEF Mine
  <2>11. TypeOK'
    <3>1. listing' \subseteq Clicks \cup {Tab}
      BY <2>10 DEF TypeOK
    <3> QED
      BY <1>1, <1>2, <2>9, <2>10, <3>1, EffectOnAccount, Records
         DEF TypeOK, Runs, Outcomes
  <2>12. Locked'
    BY <1>1, <2>1, <2>7, <2>9, LockKept DEF Holds, InFlight, Over
  <2>13. ListingRuns'
    BY <2>1, <2>9, <2>10 DEF ListingRuns, TypeOK
  <2>14. Unowed'
    BY <1>1, <1>2, <1>4, <2>4, <2>7, <2>9, MinedUnowed DEF Checked, Late, IsLate
  <2> QED BY <2>9, <2>11, <2>12, <2>13, <2>14
<1> QED BY <1>3, <1>4

(* It reverts: the handler fails, or nobody notices.                       *)
LEMMA RevertKeeps ==
  ASSUME IInv, NEW r \in Clicks, Revert(r)
  PROVE  IInv'
<1> USE DEF IInv
<1>1. /\ Mined(r)
      /\ UNCHANGED <<shell, intruded, liquidationLoading, listing, chain>>
  BY DEF Revert, others
<1>2. /\ run[r] \in Runs /\ run[r].kind \in Kinds /\ Sound(run[r])
      /\ run[r].mined \in 0..1
      /\ run[r].stage # "orphaned" => InFlight(r)
      /\ run[r].stage = "orphaned" => run[r].outcome \in {"failed", "lost"}
      /\ sent' \in Seq(Clicks)
  BY <1>1, MinedMore
<1>3. CASE Orphan(r)
  <2> DEFINE N == [run[r] EXCEPT !.stage = "ended"]
  <2>1. run[r].stage = "orphaned" /\ "ended" \in Stages
    BY <1>3, NoRouteStages DEF Orphan, Over
  <2>2. /\ N \in Runs
        /\ N.kind = run[r].kind /\ N.stage = "ended"
        /\ N.mined = run[r].mined
        /\ N.logged = run[r].logged /\ N.outcome = run[r].outcome
    BY <1>2, <2>1 DEF Runs
  <2>3. run' = [run EXCEPT ![r] = N] /\ UNCHANGED loading
    BY <1>3 DEF Revert, GoTo
  <2> HIDE DEF N
  <2>4. Sound(N)
    BY <1>2, <2>1, <2>2 DEF Sound, Early, Late, Over, Between
  <2>5. /\ run' \in [Clicks -> Runs] /\ run'[r] = N
        /\ \A s \in Clicks \ {r} : run'[s] = run[s]
        /\ \A s \in Clicks : Sound(run'[s])
    BY <2>2, <2>3, <2>4, Replace
  <2>6. TypeOK'
    BY <1>1, <1>2, <2>3, <2>5, Records DEF TypeOK, Runs, Outcomes
  <2>7. Locked'
    BY <1>1, <2>2, <2>3, <2>5, LockKept DEF Holds, Over
  <2>8. ListingRuns'
    BY <1>1, <2>1, <2>5, ListingKept DEF TypeOK
  <2>9. Unowed'
    BY <1>1, <2>2, <2>5, UnowedKept DEF Checked, IsLate
  <2> QED BY <2>5, <2>6, <2>7, <2>8, <2>9
<1>4. CASE ~Orphan(r)
  <2>1. Finally(r, "ended", "failed") /\ InFlight(r) /\ run[r].stage # "listing"
    BY <1>1, <1>2, <1>4 DEF Revert, Orphan, Mined, Pending
  <2> QED BY <1>1, <1>2, <2>1, EndKeeps DEF RestKept
<1> QED BY <1>3, <1>4

(* The replacement was mined, and the handler does not know.               *)
LEMMA ReplacedKeeps ==
  ASSUME IInv, NEW r \in Clicks, Replaced(r)
  PROVE  IInv'
<1> USE DEF IInv
<1> DEFINE k == run[r].kind
           more == run[r].mined + 1
           N == [run[r] EXCEPT !.stage = "ended", !.outcome = "failed",
                               !.mined = more]
<1>1. /\ Mined(r) /\ Effect(r)
      /\ run[r].stage \in {"pending", "pendingRest"}
      /\ loading' = (loading /\ run[r].kind = "liquidate")
      /\ UNCHANGED <<shell, intruded, liquidationLoading, listing>>
      /\ run' = [run EXCEPT ![r] = N]
  BY Records DEF Runs, Replaced, Pending, others
<1>2. /\ run[r] \in Runs /\ k \in Kinds /\ Sound(run[r]) /\ InFlight(r)
      /\ run[r].outcome = "none"
      /\ run[r].mined \in 0..1 /\ more \in 0..2 /\ more > 0
      /\ k # "fullRepay" => more <= 1
      /\ sent' \in Seq(Clicks)
  BY <1>1, MinedMore
<1>3. "ended" \in Stages
  BY NoRouteStages DEF Over
<1> HIDE DEF more
<1>4. /\ N \in Runs
      /\ N.kind = k /\ N.stage = "ended" /\ N.mined = more
      /\ N.logged = run[r].logged /\ N.outcome = "failed"
  BY <1>1, <1>2, <1>3 DEF Runs, Outcomes
<1> HIDE DEF N
<1>5. Sound(N)
  BY <1>2, <1>4 DEF Sound, Early, Late, Over, Between
<1>6. /\ run' \in [Clicks -> Runs] /\ run'[r] = N
      /\ \A s \in Clicks \ {r} : run'[s] = run[s]
      /\ \A s \in Clicks : Sound(run'[s])
  BY <1>1, <1>4, <1>5, Replace
<1>7. TypeOK'
  BY <1>1, <1>2, <1>6, EffectOnAccount, Records DEF TypeOK, Runs, Outcomes
<1>8. Locked'
  BY <1>1, <1>2, <1>4, <1>6, LockLeft DEF Holds, Over
<1>9. ListingRuns'
  BY <1>1, <1>6, ListingKept DEF TypeOK
<1>10. Unowed'
  BY <1>1, <1>2, <1>4, <1>6, MinedUnowed DEF Checked, IsLate
<1> QED BY <1>6, <1>7, <1>8, <1>9, <1>10

(* A handler that holds on to `loading` goes to another stage, its record  *)
(* otherwise the same but for amount and logged.                           *)
LEMMA MoveKeeps ==
  ASSUME IInv, NEW r \in Clicks, InFlight(r), run[r].stage # "listing",
         NEW N \in Runs, Sound(N), run' = [run EXCEPT ![r] = N],
         N.kind = run[r].kind,
         N.kind = "withdraw" => N.stage \notin {"paying", "pending"},
         UNCHANGED loading, RestKept
  PROVE  IInv'
<1> USE DEF IInv, RestKept
<1>1. /\ run' \in [Clicks -> Runs] /\ run'[r] = N
      /\ \A s \in Clicks \ {r} : run'[s] = run[s]
      /\ \A s \in Clicks : Sound(run'[s])
  BY Replace
<1>2. run[r].outcome = "none"
  BY DEF Sound, InFlight
<1>3. TypeOK'
  BY <1>1, Records DEF TypeOK, Runs, Outcomes
<1>4. Locked'
  BY <1>1, LockKept DEF Holds, InFlight, Over
<1>5. ListingRuns'
  BY <1>1, ListingKept DEF TypeOK
<1>6. Unowed'
  BY <1>1, <1>2, UnowedKept DEF Checked, IsLate
<1> QED BY <1>1, <1>3, <1>4, <1>5, <1>6

(* The wallet asks for an allowance, or need not.                          *)
LEMMA ApproveKeeps ==
  ASSUME IInv, NEW r \in Clicks, Approve(r)
  PROVE  IInv'
<1> USE DEF IInv
<1>1. /\ run[r] \in Runs /\ run[r].kind \in Kinds /\ Sound(run[r])
      /\ run[r].stage = "approving" /\ InFlight(r)
      /\ UNCHANGED loading /\ RestKept
  BY Records DEF Runs, Approve, InFlight, others, account, RestKept, TypeOK
<1>2. PICK next \in {"allowing", "paying"} : GoTo(r, next)
  BY DEF Approve
<1>3. run[r].kind \in {"repay", "fullRepay"}
  BY <1>1, OwnStages DEF Sound, Over
<1>4. /\ next \in ToSet(Route[run[r].kind]) /\ next \in Stages
      /\ next \in Early
  <2>1. {"allowing", "paying"} \subseteq ToSet(Route[run[r].kind])
    BY <1>3, RouteStages DEF RepayRoute, FullRepayRoute
  <2> QED BY <1>1, <2>1, OwnStages DEF Early
<1> DEFINE N == [run[r] EXCEPT !.stage = next]
<1>5. run' = [run EXCEPT ![r] = N]
  BY <1>2 DEF GoTo
<1>6. /\ N \in Runs
      /\ N.kind = run[r].kind /\ N.stage = next
      /\ N.mined = run[r].mined
      /\ N.logged = run[r].logged /\ N.outcome = run[r].outcome
  BY <1>1, <1>4 DEF Runs
<1> HIDE DEF N
<1>7. run[r].mined = 0 /\ ~run[r].logged /\ run[r].outcome = "none"
  BY <1>1 DEF Sound, Early, Runs
<1>8. Sound(N)
  BY <1>4, <1>6, <1>7 DEF Sound, Early, Late, Over, Between
<1> QED BY <1>1, <1>3, <1>5, <1>6, <1>8, MoveKeeps

LEMMA RecheckKeeps ==
  ASSUME IInv, NEW r \in Clicks, Recheck(r)
  PROVE  IInv'
<1> USE DEF IInv
<1>1. /\ run[r] \in Runs /\ run[r].kind \in Kinds /\ Sound(run[r])
      /\ run[r].stage = "rechecking" /\ InFlight(r)
      /\ UNCHANGED loading /\ RestKept
      /\ chain.debt \in Nat
  BY Records DEF Runs, Recheck, InFlight, others, account, RestKept, TypeOK
<1>2. run[r].kind = "fullRepay"
  BY <1>1, OwnStages DEF Sound, Over
<1>3. run[r].mined = 1 /\ run[r].outcome = "none"
  BY <1>1, <1>2 DEF Sound, Between
<1>4. /\ {"logging", "payingRest"} \subseteq ToSet(Route["fullRepay"])
      /\ {"logging", "payingRest"} \subseteq Stages
  <2>1. {"logging", "payingRest"} \subseteq ToSet(Route["fullRepay"])
    BY RouteStages DEF FullRepayRoute
  <2> QED BY <1>1, <1>2, <2>1, OwnStages
<1>5. CASE chain.debt = 0
  <2> DEFINE N == [run[r] EXCEPT !.stage = "logging"]
  <2>1. run' = [run EXCEPT ![r] = N]
    BY <1>5 DEF Recheck, GoTo
  <2>2. /\ N \in Runs
        /\ N.kind = run[r].kind /\ N.stage = "logging"
        /\ N.mined = run[r].mined
        /\ N.logged = run[r].logged /\ N.outcome = run[r].outcome
    BY <1>1, <1>4 DEF Runs
  <2> HIDE DEF N
  <2>3. Sound(N)
    BY <1>2, <1>3, <1>4, <2>2 DEF Sound, Early, Late, Over, Between
  <2> QED BY <1>1, <2>1, <2>2, <2>3, MoveKeeps
<1>6. CASE chain.debt # 0
  <2> DEFINE N == [run[r] EXCEPT !.amount = chain.debt, !.stage = "payingRest"]
  <2>1. run' = [run EXCEPT ![r] = N]
    BY <1>6 DEF Recheck
  <2>2. /\ N \in Runs
        /\ N.kind = run[r].kind /\ N.stage = "payingRest"
        /\ N.mined = run[r].mined
        /\ N.logged = run[r].logged /\ N.outcome = run[r].outcome
    BY <1>1, <1>4 DEF Runs
  <2> HIDE DEF N
  <2>3. Sound(N)
    BY <1>2, <1>3, <1>4, <2>2 DEF Sound, Early, Late, Over, Between
  <2> QED BY <1>1, <2>1, <2>2, <2>3, MoveKeeps
<1> QED BY <1>5, <1>6

(* The request is answered: whatever the handler has sent is recorded.     *)
LEMMA LogActivityKeeps ==
  ASSUME IInv, NEW r \in Clicks, LogActivity(r)
  PROVE  IInv'
<1> USE DEF IInv, RestKept
<1> DEFINE k == run[r].kind
           logged == [run EXCEPT ![r].logged = TRUE]
<1>1. /\ run \in [Clicks -> Runs] /\ run[r] \in Runs /\ k \in Kinds
      /\ Sound(run[r])
      /\ run[r].stage = "logging" /\ InFlight(r)
      /\ RestKept
  BY Records DEF Runs, LogActivity, InFlight, others, account, RestKept, TypeOK
<1>2. /\ run[r].mined > 0 /\ run[r].outcome = "none"
      /\ k # "fullRepay" => run[r].mined <= 1
      /\ run[r].mined \in 0..2
  BY <1>1 DEF Sound, Late, Runs
<1>3. CASE Last(Route[k]) = "logging"
  <2> DEFINE N == [run[r] EXCEPT !.logged = TRUE, !.stage = "ended",
                                 !.outcome = "ok"]
  <2>1. /\ run' = [logged EXCEPT ![r].stage = "ended", ![r].outcome = "ok"]
        /\ loading' = (loading /\ run[r].kind = "liquidate")
    BY <1>3 DEF LogActivity
  <2>2. run' = [run EXCEPT ![r] = N]
    BY <1>1, <2>1
  <2>3. "ended" \in Stages
    BY NoRouteStages DEF Over
  <2>4. /\ N \in Runs
        /\ N.kind = k /\ N.stage = "ended" /\ N.mined = run[r].mined
        /\ N.logged /\ N.outcome = "ok"
    BY <1>1, <2>3 DEF Runs, Outcomes
  <2> HIDE DEF N
  <2>5. Sound(N)
    BY <1>2, <2>4 DEF Sound, Early, Late, Over, Between
  <2>6. /\ run' \in [Clicks -> Runs] /\ run'[r] = N
        /\ \A s \in Clicks \ {r} : run'[s] = run[s]
        /\ \A s \in Clicks : Sound(run'[s])
    BY <2>2, <2>4, <2>5, Replace
  <2>7. TypeOK'
    BY <1>1, <2>1, <2>6, Records DEF TypeOK, Runs, Outcomes
  <2>8. Locked'
    BY <1>1, <2>1, <2>4, <2>6, LockLeft DEF Holds, Over
  <2>9. ListingRuns'
    BY <1>1, <2>6, ListingKept DEF TypeOK
  <2>10. Unowed'
    BY <1>1, <1>2, <2>4, <2>6, UnowedKept DEF Checked, IsLate
  <2> QED BY <2>6, <2>7, <2>8, <2>9, <2>10
<1>4. CASE Last(Route[k]) # "logging"
  <2> DEFINE N == [run[r] EXCEPT !.logged = TRUE, !.stage = "refreshing"]
  <2>1. /\ run' = [logged EXCEPT ![r].stage = "refreshing"]
        /\ UNCHANGED loading
    BY <1>4 DEF LogActivity
  <2>2. run' = [run EXCEPT ![r] = N]
    BY <1>1, <2>1
  <2>3. k \in {"withdraw", "borrow"} /\ "refreshing" \in ToSet(Route[k])
    <3>1. k \in {"withdraw", "borrow"}
      BY <1>1, <1>4, OwnStages
    <3> QED BY <3>1, RouteStages DEF WithdrawRoute, BorrowRoute
  <2>4. "refreshing" \in Stages
    BY <1>1, <2>3, OwnStages
  <2>5. /\ N \in Runs
        /\ N.kind = k /\ N.stage = "refreshing" /\ N.mined = run[r].mined
        /\ N.logged /\ N.outcome = run[r].outcome
    BY <1>1, <2>4 DEF Runs
  <2> HIDE DEF N
  <2>6. Sound(N)
    BY <1>2, <2>3, <2>5 DEF Sound, Early, Late, Over, Between
  <2> QED BY <1>1, <2>1, <2>2, <2>5, <2>6, MoveKeeps
<1> QED BY <1>3, <1>4

(* loadLiquidatablePositions ends, for the tab or for a handler.           *)
LEMMA ListedKeeps ==
  ASSUME IInv, NEW who \in Clicks \cup {Tab}, Listed(who)
  PROVE  IInv'
<1> USE DEF IInv
<1>1. /\ who \in listing /\ listing' = listing \ {who}
      /\ liquidationLoading' = FALSE
      /\ UNCHANGED <<loading, shell, intruded, sent, chain>>
  BY DEF Listed, account
<1>2. CASE who = Tab
  <2>1. UNCHANGED run
    BY <1>2 DEF Listed
  <2>2. TypeOK'
    BY <1>1, <2>1 DEF TypeOK
  <2>3. Locked' /\ ListingRuns' /\ Unowed'
    BY <1>1, <2>1 DEF Locked, ListingRuns, Unowed, LateLoan
  <2> QED BY <2>1, <2>2, <2>3
<1>3. CASE who # Tab
  <2> DEFINE N == [run[who] EXCEPT !.stage = "logging"]
  <2>1. who \in Clicks /\ run[who].stage = "listing"
    BY <1>1, <1>3 DEF ListingRuns
  <2>2. /\ run[who] \in Runs /\ run[who].kind \in Kinds /\ Sound(run[who])
        /\ run[who].kind = "liquidate"
    BY <2>1, Records, OwnStages DEF Runs, Sound, Over
  <2>3. /\ run[who].mined > 0 /\ run[who].mined <= 1
        /\ run[who].outcome = "none"
    BY <2>1, <2>2 DEF Sound, Late
  <2>4. /\ "logging" \in ToSet(Route["liquidate"]) /\ "logging" \in Stages
    BY <2>2, OwnStages
  <2>5. /\ N \in Runs
        /\ N.kind = "liquidate" /\ N.stage = "logging"
        /\ N.mined = run[who].mined
        /\ N.logged = run[who].logged /\ N.outcome = "none"
    BY <2>2, <2>3, <2>4 DEF Runs
  <2>6. run' = [run EXCEPT ![who] = N]
    BY <1>3 DEF Listed, GoTo
  <2> HIDE DEF N
  <2>7. Sound(N)
    BY <2>3, <2>4, <2>5 DEF Sound, Early, Late, Over, Between
  <2>8. /\ run' \in [Clicks -> Runs] /\ run'[who] = N
        /\ \A s \in Clicks \ {who} : run'[s] = run[s]
        /\ \A s \in Clicks : Sound(run'[s])
    BY <2>1, <2>5, <2>6, <2>7, Replace
  <2>9. TypeOK'
    BY <1>1, <2>8, Records DEF TypeOK, Runs, Outcomes
  <2>10. Locked'
    BY <1>1, <2>1, <2>5, <2>8, LockKept DEF Holds
  <2>11. ListingRuns'
    BY <1>1, <2>8 DEF ListingRuns, TypeOK
  <2>12. Unowed'
    BY <1>1, <2>1, <2>2, <2>3, <2>5, <2>8, UnowedKept DEF Checked, IsLate
  <2> QED BY <2>8, <2>9, <2>10, <2>11, <2>12
<1> QED BY <1>2, <1>3

(* Steps that leave the handlers alone.                                    *)
LEMMA OutsideKeeps ==
  ASSUME IInv, OpenLiquidation \/ OthersMove
  PROVE  IInv'
<1> USE DEF IInv
<1>1. UNCHANGED <<run, loading, shell, intruded, sent>>
  BY DEF OpenLiquidation, OthersMove, others, account
<1>2. CASE OpenLiquidation
  <2>1. /\ listing' = listing \cup {Tab} /\ liquidationLoading' = TRUE
        /\ UNCHANGED chain
    BY <1>2 DEF OpenLiquidation, account
  <2>2. TypeOK'
    BY <1>1, <2>1 DEF TypeOK
  <2>3. Locked' /\ ListingRuns' /\ Unowed'
    BY <1>1, <2>1 DEF Locked, ListingRuns, Unowed, LateLoan
  <2> QED BY <1>1, <2>2, <2>3
<1>3. CASE OthersMove
  <2>1. /\ chain.debt > 0 /\ UNCHANGED <<liquidationLoading, listing>>
        /\ chain \in [deposit : 0..MaxUnits, debt : 0..MaxUnits]
        /\ MaxUnits \in Nat
    BY <1>3, TabsConstants DEF OthersMove, TypeOK, others
  <2>2. chain' \in [deposit : 0..MaxUnits, debt : 0..MaxUnits]
    BY <1>3, <2>1 DEF OthersMove
  <2>3. TypeOK'
    BY <1>1, <2>1, <2>2 DEF TypeOK
  <2>4. Locked' /\ ListingRuns'
    BY <1>1, <2>1 DEF Locked, ListingRuns
  <2>5. Unowed'
    <3>1. chain.debt # 0
      BY <2>1
    <3> QED BY <1>1, <3>1 DEF Unowed, LateLoan
  <2> QED BY <1>1, <2>3, <2>4, <2>5
<1> QED BY <1>2, <1>3

(* The shell sets the flag, or clears it; under a handler it intrudes.     *)
LEMMA ShellKeeps ==
  ASSUME IInv, ShellStarts \/ ShellEnds
  PROVE  IInv'
<1> USE DEF IInv
<1>1. /\ UNCHANGED <<run, liquidationLoading, listing, sent, chain>>
      /\ loading' \in BOOLEAN
      /\ shell \in 0..MaxShell /\ MaxShell \in Nat /\ intruded \in BOOLEAN
  BY TabsConstants DEF ShellStarts, ShellEnds, account, TypeOK
<1>2. CASE ShellStarts
  <2>1. shell' \in 0..MaxShell /\ loading' /\ UNCHANGED intruded
    BY <1>1, <1>2 DEF ShellStarts
  <2>2. TypeOK'
    BY <1>1, <2>1 DEF TypeOK
  <2>3. Locked' /\ ListingRuns' /\ Unowed'
    BY <1>1, <2>1 DEF Locked, ListingRuns, Unowed, LateLoan
  <2> QED BY <1>1, <2>2, <2>3
<1>3. CASE ShellEnds
  <2>1. /\ shell' \in 0..MaxShell
        /\ intruded' \in BOOLEAN /\ (intruded => intruded')
        /\ ~intruded' => \A r \in Clicks : ~Holds(run[r])
    <3>1. shell > 0 /\ shell' = shell - 1
      BY <1>3 DEF ShellEnds
    <3>2. intruded' = (intruded \/ \E r \in Clicks : Holds(run[r]))
      BY <1>3 DEF ShellEnds, InFlight, Holds, Over
    <3>3. shell' \in 0..MaxShell
      BY <1>1, <3>1
    <3> QED BY <1>1, <3>2, <3>3
  <2>2. TypeOK'
    BY <1>1, <2>1 DEF TypeOK
  <2>3. Locked'
    BY <1>1, <2>1 DEF Locked
  <2>4. ListingRuns' /\ Unowed'
    BY <1>1, <2>1 DEF ListingRuns, Unowed, LateLoan
  <2> QED BY <1>1, <2>2, <2>3, <2>4
<1> QED BY <1>2, <1>3

(* The page is reloaded: every handler is over.                            *)
LEMMA ReloadKeeps ==
  ASSUME IInv, Reload
  PROVE  IInv'
<1> USE DEF IInv
<1> DEFINE stage(r) == IF run[r].stage \in Pending \cup {"paying", "payingRest"}
                       THEN "orphaned" ELSE "ended"
           N(r) == [run[r] EXCEPT !.stage = stage(r), !.outcome = "lost"]
<1>1. /\ run' = [r \in Clicks |-> IF ~InFlight(r) THEN run[r] ELSE N(r)]
      /\ loading' = FALSE /\ liquidationLoading' = FALSE /\ listing' = {}
      /\ shell' = 0 /\ intruded' = FALSE
      /\ UNCHANGED <<sent, chain>>
  BY DEF Reload, account
<1>2. ASSUME NEW r \in Clicks
      PROVE  /\ run'[r] \in Runs /\ Sound(run'[r])
             /\ ~Holds(run'[r]) /\ ~Checked(run'[r])
  <2>1. /\ run[r] \in Runs /\ run[r].kind \in Kinds /\ Sound(run[r])
        /\ {"orphaned", "ended"} \subseteq Stages
    BY Records, NoRouteStages DEF Runs, Over
  <2>2. CASE ~InFlight(r)
    BY <1>1, <2>1, <2>2 DEF InFlight, Holds, Checked, Over
  <2>3. CASE InFlight(r)
    <3>1. run'[r] = N(r)
      BY <1>1, <2>3
    <3>2. stage(r) \in {"orphaned", "ended"} /\ stage(r) \in Stages
      BY <2>1
    <3>4. stage(r) = "orphaned" =>
            /\ run[r].mined <= 1
            /\ run[r].kind # "fullRepay" => run[r].mined = 0
      BY <2>1, PendingMined
    <3>5. /\ run[r].kind # "fullRepay" => run[r].mined <= 1
          /\ run[r].logged => run[r].mined > 0
      BY <2>1 DEF Sound
    <3> HIDE DEF stage
    <3>6. /\ N(r) \in Runs
          /\ N(r).kind = run[r].kind /\ N(r).stage = stage(r)
          /\ N(r).mined = run[r].mined
          /\ N(r).logged = run[r].logged /\ N(r).outcome = "lost"
      BY <2>1, <3>2 DEF Runs, Outcomes
    <3> HIDE DEF N
    <3>7. Sound(N(r))
      BY <3>2, <3>4, <3>5, <3>6 DEF Sound, Early, Late, Over, Between
    <3>8. ~Holds(N(r)) /\ ~Checked(N(r))
      BY <3>2, <3>6 DEF Holds, Checked, Over
    <3> QED BY <3>1, <3>6, <3>7, <3>8
  <2> QED BY <2>2, <2>3
<1>3. run' \in [Clicks -> Runs]
  BY <1>1, <1>2
<1>4. TypeOK'
  <2> HIDE DEF N
  <2>1. /\ sent' \in Seq(Clicks)
        /\ chain' \in [deposit : 0..MaxUnits, debt : 0..MaxUnits]
    BY <1>1 DEF TypeOK
  <2>2. shell' \in 0..MaxShell
    BY <1>1, TabsConstants
  <2> QED BY <1>1, <1>3, <2>1, <2>2 DEF TypeOK, Runs, Outcomes
<1>5. Locked' /\ ListingRuns' /\ Unowed'
  BY <1>1, <1>2 DEF Locked, ListingRuns, Unowed
<1> QED BY <1>2, <1>4, <1>5

LEMMA InvariantStep == IInv /\ [Next]_vars => IInv'
<1> SUFFICES ASSUME IInv, [Next]_vars PROVE IInv'
  OBVIOUS
<1>1. CASE UNCHANGED vars
  BY <1>1 DEF vars, others, account, IInv, TypeOK, Locked, ListingRuns,
     Unowed, LateLoan
<1>2. ASSUME NEW r \in Clicks, Continue(r) PROVE IInv'
  BY <1>2, AdvancingKeeps, CheckPositionKeeps, MineKeeps, RevertKeeps,
     RefreshKeeps, RecheckKeeps, LogActivityKeeps, FailKeeps
     DEF Continue
<1>3. ASSUME NEW r \in Clicks, UserStep(r) PROVE IInv'
  BY <1>3, ClickKeeps, ApproveKeeps, ConfirmKeeps, ReplacedKeeps, FailKeeps,
     TabsConstants DEF UserStep
<1> QED
  BY <1>1, <1>2, <1>3, ListedKeeps, OutsideKeeps, ShellKeeps, ReloadKeeps
     DEF Next

-----------------------------------------------------------------------------
(***************************************************************************)
(* Theorems.                                                               *)
(***************************************************************************)
(* The inductive invariant holds throughout.                               *)
THEOREM Invariance == Spec => []IInv
<1> QED BY InitInvariant, InvariantStep, PTL DEF Spec

(* A handler sends at most two transactions, and stage, report and account *)
(* keep their form, whatever fails, is replaced or reloaded.               *)
THEOREM TypeCorrect == Spec => []TypeOK
<1>1. IInv => TypeOK
  BY DEF IInv
<1> QED BY <1>1, Invariance, PTL

(* A handler that reports no error had its transaction mined and recorded, *)
(* and none records what was not mined.                                    *)
THEOREM ReportsAreTrue == Spec => []OutcomesAreRecorded
<1>1. IInv => OutcomesAreRecorded
  BY DEF IInv, Sound, OutcomesAreRecorded
<1> QED BY <1>1, Invariance, PTL

(* Only a mined transaction is counted.                                    *)
LEMMA OnlyMiningCounts ==
  ASSUME TypeOK, Next, NEW r \in Clicks, run'[r].mined # run[r].mined
  PROVE  Mine(r) \/ Replaced(r)
<1>1. run \in [Clicks -> Runs]
  BY Records
<1>2. ASSUME NEW s \in Clicks, s # r, Mine(s) \/ Replaced(s)
      PROVE  FALSE
  BY <1>1, <1>2 DEF Mine, Replaced
<1>3. ASSUME NEW s \in Clicks, NEW left, NEW o, Finally(s, left, o)
      PROVE  FALSE
  BY <1>1, <1>3 DEF Finally, Runs
<1>4. ASSUME NEW s, NEW stage, GoTo(s, stage)
      PROVE  FALSE
  BY <1>1, <1>4 DEF GoTo, Runs
<1>5. ASSUME NEW s \in Clicks, CheckPosition(s) \/ Recheck(s)
      PROVE  FALSE
  BY <1>1, <1>3, <1>4, <1>5 DEF CheckPosition, Recheck, Advance, Runs
<1>6. ASSUME NEW s \in Clicks, LogActivity(s)
      PROVE  FALSE
  BY <1>1, <1>6 DEF LogActivity, Runs
<1>7. ASSUME NEW s \in Clicks, NEW k \in Kinds, NEW amount \in Amounts,
             Click(s, k, amount)
      PROVE  FALSE
  BY <1>1, <1>7 DEF Click, Runs
<1>8. ASSUME Reload
      PROVE  FALSE
  BY <1>1, <1>8 DEF Reload, Runs
<1>9. ASSUME NEW s \in Clicks, \/ GetContracts(s) \/ Refresh(s) \/ Fail(s)
                               \/ Approve(s) \/ Allow(s) \/ Confirm(s)
                               \/ Revert(s)
      PROVE  FALSE
  BY <1>3, <1>4, <1>9
     DEF GetContracts, Refresh, Fail, Approve, Allow, Confirm, Revert, Advance
<1>10. ASSUME NEW who \in Clicks \cup {Tab}, Listed(who)
       PROVE  FALSE
  BY <1>4, <1>10 DEF Listed
<1>11. ~OpenLiquidation /\ ~OthersMove /\ ~ShellStarts /\ ~ShellEnds
  BY DEF OpenLiquidation, OthersMove, ShellStarts, ShellEnds
<1> QED
  BY <1>2, <1>5, <1>6, <1>7, <1>8, <1>9, <1>10, <1>11, TabsConstants
     DEF Next, Continue, UserStep

(* While its handler waits, no withdrawal is mined with a loan, but for a  *)
(* loan that its handler had given up, or after the shell has cleared the  *)
(* flag of a handler.                                                      *)
THEOREM LoansBlockWithdrawals == Spec => NoWithdrawalInDebt
<1>1. ASSUME IInv, [Next]_vars PROVE [WithdrawsWithoutLoan]_vars
  <2> SUFFICES ASSUME Next, NEW r \in Clicks, run[r].kind = "withdraw",
                      InFlight(r), run'[r].mined > run[r].mined
               PROVE  chain.debt = 0 \/ LateLoan \/ intruded
    BY <1>1 DEF WithdrawsWithoutLoan
  <2>1. run \in [Clicks -> Runs]
    BY <1>1, Records DEF IInv
  <2>2. Mine(r) \/ Replaced(r)
    <3>1. run'[r].mined # run[r].mined
      BY <2>1 DEF Runs
    <3> QED BY <1>1, <3>1, OnlyMiningCounts DEF IInv
  <2>3. run[r].stage \in {"pending", "pendingRest"}
    BY <2>2 DEF Mine, Replaced, Mined, Pending, InFlight
  <2>4. Checked(run[r])
    BY <1>1, <2>1, <2>3, OwnStages DEF IInv, Sound, Checked, Over, Runs
  <2> QED BY <1>1, <2>4 DEF IInv, Unowed
<1> QED BY <1>1, Invariance, PTL DEF Spec, NoWithdrawalInDebt
=============================================================================
