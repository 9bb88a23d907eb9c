---------------------------- MODULE LendingTabs ----------------------------
(***************************************************************************)
(* The handlers behind the buttons of DepositWithdrawTab, BorrowRepayTab   *)
(* and LiquidationTab, with the flags of EnhancedLendingDApp they share.   *)
(* A handler runs from a click to its finally block; every await is a      *)
(* step, at which the others go on.  Five of the six hold `loading`, which *)
(* disables their buttons; a liquidation does not.  The shell writes       *)
(* `loading`, too: initializeContract and Refresh Data set it, and clear   *)
(* it as they end, whoever holds it then; NetworkSession has when they     *)
(* run, here they run at any time.  A transaction that was sent is mined   *)
(* even if nobody waits for it any more.  The pool itself is LendingPool;  *)
(* here it is the deposit and the debt of the one account, and a           *)
(* transaction reverts whenever it likes.  transactionInProgress, which    *)
(* only decides whose price is displayed, and the messages of success are  *)
(* left out.                                                               *)
(***************************************************************************)
EXTENDS Naturals, SequencesExt

CONSTANTS
  MaxClicks,   (* bound: clicks                                            *)
  Buttons,     (* bound: the kinds of handlers these start                 *)
  MaxShell,    (* bound: initialisations and refreshes at the same time    *)
  Amounts,     (* what the user types                                      *)
  MaxUnits     (* bound: deposit and debt stop here                        *)

VARIABLES
  run,                    (* the handler each click started                *)
  loading,
  shell,                  (* how many initialisations and refreshes go on  *)
  intruded,               (* whether one of them has cleared the loading   *)
                          (* of a handler, since the page was loaded       *)
  liquidationLoading,
  listing,                (* who is in loadLiquidatablePositions           *)
  sent,                   (* transactions not yet mined, in the order of   *)
                          (* their nonces, by the click they come from     *)
  chain                   (* deposit and debt, in units well above dust    *)

others  == <<shell, intruded, liquidationLoading, listing>>
account == <<sent, chain>>
vars    == <<run, loading, others, account>>

-----------------------------------------------------------------------------
Clicks == 1..MaxClicks
Tab == 0       (* stands for the tab where a click is expected             *)

(* The awaits of each handler, in the order of its code.  A refresh is     *)
(* loadUserPosition and loadBalances, which may throw; "allowing" is the   *)
(* wait for the allowance to be mined.                                     *)
DepositRoute ==
  <<"connecting", "paying", "pending", "refreshing", "logging">>

WithdrawRoute ==
  <<"connecting", "checking", "paying", "pending", "logging", "refreshing">>

BorrowRoute ==
  <<"connecting", "checking", "paying", "pending", "logging", "refreshing">>

(* Mutant of RepayRoute: the activity is not logged.                       *)
RepayUnlogged ==
  <<"connecting", "checking", "approving", "allowing", "paying", "pending",
    "refreshing">>

RepayRoute ==
  <<"connecting", "checking", "approving", "allowing", "paying", "pending",
    "refreshing", "logging">>

FullRepayRoute ==
  <<"checking", "approving", "allowing", "paying", "pending", "refreshing",
    "rechecking", "payingRest", "pendingRest", "refreshingRest", "logging">>

LiquidateRoute == <<"checking", "paying", "pending", "listing", "logging">>

Route ==
  [deposit   |-> DepositRoute,
   withdraw  |-> WithdrawRoute,
   borrow    |-> BorrowRoute,
   repay     |-> RepayRoute,
   fullRepay |-> FullRepayRoute,
   liquidate |-> LiquidateRoute]

Kinds == DOMAIN Route

ASSUME TabsConstants ==
  /\ MaxClicks \in Nat
  /\ Buttons \subseteq Kinds
  /\ MaxShell \in Nat
  /\ Amounts \subseteq Nat \ {0}
  /\ MaxUnits \in Nat

Stages ==
  (UNION {ToSet(Route[k]) : k \in Kinds})
    \cup {"unused", "orphaned", "ended"}
Prompts == {"approving", "paying", "payingRest"}

Pending == {"pending", "pendingRest"}

(* The handler is over, and what it sent, or showed to the user, is not.   *)
Orphan(r) == run[r].stage = "orphaned"
InFlight(r) == run[r].stage \notin {"unused", "orphaned", "ended"}

TypeOK ==
  /\ run \in [Clicks ->
       [kind : Kinds, amount : Nat, stage : Stages, mined : 0..2,
        logged : BOOLEAN, outcome : {"none", "ok", "failed", "lost"}]]
  /\ loading \in BOOLEAN
  /\ shell \in 0..MaxShell
  /\ intruded \in BOOLEAN
  /\ liquidationLoading \in BOOLEAN
  /\ listing \subseteq Clicks \cup {Tab}
  /\ sent \in Seq(Clicks)
  /\ chain \in [deposit : 0..MaxUnits, debt : 0..MaxUnits]

Init ==
  /\ run = [r \in Clicks |->
       [kind |-> "deposit", amount |-> 0, stage |-> "unused", mined |-> 0,
        logged |-> FALSE, outcome |-> "none"]]
  /\ loading = FALSE
  /\ shell = 0
  /\ intruded = FALSE
  /\ liquidationLoading = FALSE
  /\ listing = {}
  /\ sent = <<>>
  /\ chain \in [deposit : 0..MaxUnits, debt : {0}]

-----------------------------------------------------------------------------
After(k, stage) ==
  LET i == CHOOSE j \in DOMAIN Route[k] : Route[k][j] = stage
  IN  Route[k][i + 1]

GoTo(r, stage) == run' = [run EXCEPT ![r].stage = stage]
Advance(r) == GoTo(r, After(run[r].kind, run[r].stage))

(* Mutant of Finally: loading is only reset when all went well.            *)
FinallyIfOk(r, stage, outcome) ==
  /\ run' = [run EXCEPT ![r].stage = stage, ![r].outcome = outcome]
  /\ loading' = (loading /\ outcome # "ok")

(* catch and finally; "orphaned" if its transaction is still on its way.   *)
Finally(r, stage, outcome) ==
  /\ run' = [run EXCEPT ![r].stage = stage, ![r].outcome = outcome]
  /\ loading' = (loading /\ run[r].kind = "liquidate")

(* Mutant of Click: the buttons are enabled all the time.                  *)
ClickWhenever(r, k, amount) ==
  /\ run[r].stage = "unused"
  /\ \A s \in 1..(r - 1) : run[s].stage # "unused"
  /\ run' = [run EXCEPT ![r].kind = k, ![r].amount = amount,
                        ![r].stage = Head(Route[k])]
  /\ loading' = (loading \/ k # "liquidate")
  /\ UNCHANGED <<others, account>>

(* A button is pressed.  disabled={loading}, or {liquidationLoading}.      *)
Click(r, k, amount) ==
  /\ run[r].stage = "unused"
  /\ \A s \in 1..(r - 1) : run[s].stage # "unused"
  /\ IF k = "liquidate" THEN ~liquidationLoading ELSE ~loading
  /\ run' = [run EXCEPT ![r].kind = k, ![r].amount = amount,
                        ![r].stage = Head(Route[k])]
  /\ loading' = (loading \/ k # "liquidate")
  /\ UNCHANGED <<others, account>>

GetContracts(r) ==
  /\ run[r].stage = "connecting"
  /\ Advance(r)
  /\ UNCHANGED <<loading, others, account>>

(* The position is read and the amount judged by it.  A full repayment     *)
(* takes the debt it reads as its amount; with none it ends there.         *)
Refuses(r) ==
  CASE run[r].kind = "withdraw" ->
         run[r].amount > chain.deposit \/ chain.debt > 0
    [] run[r].kind = "borrow" -> 4 * run[r].amount > 3 * chain.deposit
    [] run[r].kind = "repay" -> run[r].amount > chain.debt
    [] OTHER -> FALSE

CheckPosition(r) ==
  /\ run[r].stage = "checking"
  /\ ~Refuses(r)
  /\ IF run[r].kind # "fullRepay" THEN Advance(r) /\ UNCHANGED loading
     ELSE IF chain.debt = 0 THEN Finally(r, "ended", "ok")
     ELSE /\ run' = [run EXCEPT ![r].amount = chain.debt,
                                ![r].stage = "approving"]
          /\ UNCHANGED loading
  /\ UNCHANGED <<others, account>>

(* The wallet asks for an allowance, or need not: there is one already, or *)
(* the payment is made in ETH.                                             *)
Approve(r) ==
  /\ run[r].stage = "approving"
  /\ GoTo(r, "allowing") \/ GoTo(r, "paying")
  /\ UNCHANGED <<loading, others, account>>

(* approveTx.wait() resolves.                                              *)
Allow(r) ==
  /\ run[r].stage = "allowing"
  /\ Advance(r)
  /\ UNCHANGED <<loading, others, account>>

(* The user confirms the transaction, or one that the wallet still shows   *)
(* after a reload.                                                         *)
Confirm(r) ==
  /\ \/ run[r].stage \in {"paying", "payingRest"} /\ Advance(r)
     \/ Orphan(r) /\ r \notin ToSet(sent) /\ UNCHANGED run
  /\ sent' = Append(sent, r)
  /\ UNCHANGED <<loading, others, chain>>

(* What the transaction does to the account, where the pool accepts it.    *)
Effect(r) ==
  LET amount == run[r].amount
  IN  CASE run[r].kind = "deposit" ->
             /\ chain.deposit + amount <= MaxUnits
             /\ chain' = [chain EXCEPT !.deposit = @ + amount]
        [] run[r].kind = "withdraw" ->
             /\ amount <= chain.deposit
             /\ chain' = [chain EXCEPT !.deposit = @ - amount]
        [] run[r].kind = "borrow" ->
             /\ chain.debt + amount <= MaxUnits
             /\ chain' = [chain EXCEPT !.debt = @ + amount]
        [] run[r].kind \in {"repay", "fullRepay"} ->
             /\ amount <= chain.debt
             /\ chain' = [chain EXCEPT !.debt = @ - amount]
        [] OTHER -> UNCHANGED chain

(* The transaction of click r is mined: it is the next one of the account. *)
Mined(r) ==
  /\ run[r].stage \in Pending \cup {"orphaned"}
  /\ sent # <<>> /\ r = Head(sent)
  /\ sent' = Tail(sent)

(* tx.wait() resolves; without a handler the transaction is mined as well. *)
Mine(r) ==
  /\ Mined(r)
  /\ Effect(r)
  /\ LET next == IF Orphan(r) THEN "ended"
                 ELSE After(run[r].kind, run[r].stage)
     IN  run' = [run EXCEPT ![r].stage = next, ![r].mined = @ + 1]
  /\ listing' = listing \cup {s \in {r} : run'[s].stage = "listing"}
  /\ liquidationLoading' = (liquidationLoading \/ run'[r].stage = "listing")
  /\ UNCHANGED <<loading, shell, intruded>>

(* It reverts, or the user has cancelled it; tx.wait() throws.             *)
Revert(r) ==
  /\ Mined(r)
  /\ IF Orphan(r) THEN GoTo(r, "ended") /\ UNCHANGED loading
     ELSE Finally(r, "ended", "failed")
  /\ UNCHANGED <<others, chain>>

(* loadUserPosition and loadBalances                                       *)
Refresh(r) ==
  /\ run[r].stage \in {"refreshing", "refreshingRest"}
  /\ IF run[r].stage = Last(Route[run[r].kind]) THEN Finally(r, "ended", "ok")
     ELSE Advance(r) /\ UNCHANGED loading
  /\ UNCHANGED <<others, account>>

(* Mutant of Recheck: the remainder is paid by starting over.              *)
RecheckAgain(r) ==
  /\ run[r].stage = "rechecking"
  /\ IF chain.debt = 0 THEN GoTo(r, "logging")
     ELSE run' = [run EXCEPT ![r].amount = chain.debt,
                             ![r].stage = "approving"]
  /\ UNCHANGED <<loading, others, account>>

(* Is there still debt after the repayment?  Then it is paid, once.        *)
Recheck(r) ==
  /\ run[r].stage = "rechecking"
  /\ IF chain.debt = 0 THEN GoTo(r, "logging")
     ELSE run' = [run EXCEPT ![r].amount = chain.debt,
                             ![r].stage = "payingRest"]
  /\ UNCHANGED <<loading, others, account>>

(* logUserActivity has answered.                                           *)
LogActivity(r) ==
  /\ run[r].stage = "logging"
  /\ LET logged == [run EXCEPT ![r].logged = TRUE]
     IN  IF Last(Route[run[r].kind]) = "logging"
         THEN /\ run' = [logged EXCEPT ![r].stage = "ended",
                                       ![r].outcome = "ok"]
              /\ loading' = (loading /\ run[r].kind = "liquidate")
         ELSE /\ run' = [logged EXCEPT ![r].stage = "refreshing"]
              /\ UNCHANGED loading
  /\ UNCHANGED <<others, account>>

(* An await throws: an RPC error, a refusal of the checks or of the user,  *)
(* a refresh or a log that fails.  An RPC error does not stop what was     *)
(* sent.  The listing catches its own.                                     *)
Fail(r) ==
  /\ InFlight(r)
  /\ run[r].stage # "listing"
  /\ IF run[r].stage \in Pending THEN Finally(r, "orphaned", "failed")
     ELSE Finally(r, "ended", "failed")
  /\ UNCHANGED <<others, account>>

(* The user speeds the transaction up in the wallet: the replacement is    *)
(* mined and tx.wait() throws.                                             *)
Replaced(r) ==
  /\ run[r].stage \in Pending
  /\ Mined(r)
  /\ Effect(r)
  /\ run' = [run EXCEPT ![r].stage = "ended", ![r].outcome = "failed",
                        ![r].mined = @ + 1]
  /\ loading' = (loading /\ run[r].kind = "liquidate")
  /\ UNCHANGED others

(* initializeContract, or Refresh Data, begins.                            *)
ShellStarts ==
  /\ shell < MaxShell
  /\ shell' = shell + 1
  /\ loading' = TRUE
  /\ UNCHANGED <<run, intruded, liquidationLoading, listing, account>>

(* It ends, and clears `loading` also for a handler that still needs it.   *)
ShellEnds ==
  /\ shell > 0
  /\ shell' = shell - 1
  /\ loading' = FALSE
  /\ intruded' = (intruded \/ \E r \in Clicks :
                                InFlight(r) /\ run[r].kind # "liquidate")
  /\ UNCHANGED <<run, liquidationLoading, listing, account>>

(* loadLiquidatablePositions, started by the tab when it is opened.        *)
OpenLiquidation ==
  /\ Tab \notin listing
  /\ listing' = listing \cup {Tab}
  /\ liquidationLoading' = TRUE
  /\ UNCHANGED <<run, loading, shell, intruded, account>>

(* It ends, for the tab or for a handler, and clears the one flag.         *)
Listed(who) ==
  /\ who \in listing
  /\ listing' = listing \ {who}
  /\ liquidationLoading' = FALSE
  /\ IF who = Tab THEN UNCHANGED run ELSE GoTo(who, "logging")
  /\ UNCHANGED <<loading, shell, intruded, account>>

(* The page is reloaded: handlers are gone, what they have sent, or the    *)
(* wallet still shows to the user, is not.                                 *)
Reload ==
  /\ \E r \in Clicks : InFlight(r)
  /\ run' = [r \in Clicks |->
       IF ~InFlight(r) THEN run[r]
       ELSE [run[r] EXCEPT
         !.stage = IF @ \in Pending \cup {"paying", "payingRest"}
                   THEN "orphaned" ELSE "ended",
         !.outcome = "lost"]]
  /\ loading' = FALSE /\ shell' = 0 /\ intruded' = FALSE
  /\ liquidationLoading' = FALSE
  /\ listing' = {}
  /\ UNCHANGED account

(* Interest is accrued, or somebody else liquidates the account.           *)
OthersMove ==
  /\ chain.debt > 0
  /\ \/ /\ chain.debt < MaxUnits
        /\ chain' = [chain EXCEPT !.debt = @ + 1]
     \/ /\ chain.deposit > 0
        /\ chain' = [deposit |-> chain.deposit - 1, debt |-> chain.debt - 1]
  /\ UNCHANGED <<run, loading, others, sent>>

-----------------------------------------------------------------------------
(* What goes on without the user.  Prompts wait for as long as they like;  *)
(* what was sent is mined or reverts.                                      *)
Continue(r) ==
  \/ GetContracts(r)
  \/ CheckPosition(r)
  \/ Allow(r)
  \/ Mine(r)
  \/ Revert(r)
  \/ Refresh(r)
  \/ Recheck(r)
  \/ LogActivity(r)
  \/ Fail(r) /\ run[r].stage \notin Prompts \cup Pending

UserStep(r) ==
  \/ \E k \in Buttons, amount \in Amounts : Click(r, k, amount)
  \/ Approve(r)
  \/ Confirm(r)
  \/ Replaced(r)
  \/ Fail(r) /\ run[r].stage \in Prompts \cup Pending

Next ==
  \/ \E r \in Clicks : Continue(r) \/ UserStep(r) \/ Listed(r)
  \/ Listed(Tab)
  \/ ShellStarts \/ ShellEnds
  \/ OpenLiquidation
  \/ Reload
  \/ OthersMove

Fairness ==
  /\ \A r \in Clicks : WF_vars(Continue(r)) /\ WF_vars(Listed(r))
  /\ WF_vars(Listed(Tab)) /\ WF_vars(ShellEnds)

Spec == Init /\ [][Next]_vars /\ Fairness

-----------------------------------------------------------------------------
(* A loan that was mined although its handler was over, or failed after    *)
(* it.                                                                     *)
LateLoan ==
  \E b \in Clicks : /\ run[b].kind = "borrow" /\ run[b].mined > 0
                    /\ run[b].outcome \in {"failed", "lost"}

(* A withdrawal that its handler waits for does not reach the pool while   *)
(* the account owes, although the debt is looked at when the handler       *)
(* starts and the transaction is mined much later: no handler of the page  *)
(* can add a loan in between.  There are two exceptions.  An               *)
(* initialisation or a refresh that ended has enabled the buttons under a  *)
(* handler; or the loan was given up by its handler and mined after all.   *)
WithdrawsWithoutLoan ==
  \A r \in Clicks :
    run[r].kind = "withdraw" /\ InFlight(r) /\ run'[r].mined > run[r].mined
      => chain.debt = 0 \/ LateLoan \/ intruded

NoWithdrawalInDebt == [][WithdrawsWithoutLoan]_vars

(* What a handler left behind and what it reported agree: without an error *)
(* its transaction is mined and recorded, except for a full repayment of   *)
(* nothing; and nothing is recorded that was not mined.                    *)
OutcomesAreRecorded ==
  \A r \in Clicks :
    /\ run[r].outcome = "ok" =>
         \/ run[r].mined > 0 /\ run[r].logged
         \/ run[r].mined = 0 /\ run[r].kind = "fullRepay"
    /\ run[r].logged => run[r].mined > 0

(* The buttons never stay disabled: whatever fails, and whoever else has   *)
(* set or cleared the flag, `loading` is let go of, unless a handler waits *)
(* for the user to answer the wallet.                                      *)
ButtonsReturn ==
  loading ~> (~loading \/ \E r \in Clicks : run[r].stage \in Prompts)
=============================================================================
