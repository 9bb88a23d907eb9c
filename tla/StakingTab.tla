----------------------------- MODULE StakingTab ----------------------------
(***************************************************************************)
(* frontend/components/StakingTab.tsx over the contract of StakingPool:    *)
(* the tab of one user, its countdown, the reward it displays between the  *)
(* calls of the contract, and its four buttons.  The chain and the browser *)
(* share a clock.  What a handler awaits (a wallet prompt, a receipt, a    *)
(* view) is a step.  The page's own load of the staking info reads the     *)
(* chain in one step and writes the page in another; the load at the end   *)
(* of a handler is one step.                                               *)
(***************************************************************************)
EXTENDS StakingPool

CONSTANTS
  Account,      (* the user of the tab                                     *)
  MaxHandlers   (* bound: handlers that run at a time                      *)

ASSUME TabConstants == Account \in Users /\ MaxHandlers \in Nat

VARIABLES
  tab,        (* the state and the refs of the component                   *)
  handler,    (* the await each button's handler is in                     *)
  closure,    (* timerStopped and, to continue, the stake shown, as each   *)
              (* handler saw them when it was clicked                      *)
  snapshot    (* what the page's load in flight read from the chain        *)

page    == <<tab, handler, closure, snapshot>>
tabVars == <<vars, page>>

-----------------------------------------------------------------------------
Buttons == {"continue", "stake", "withdraw", "claim"}
Waits   == {"approving", "storing", "sending"}    (* for wallet and chain  *)
Nothing == [read |-> FALSE]
Loads   == [read : {TRUE}, mount : BOOLEAN,
            staked : Nat, pending : Nat, lastRewardTime : Nat]
NoClosure == [stopped |-> FALSE, staked |-> 0]

TabTypeOK ==
  /\ TypeOK
  /\ tab \in [mounted : BOOLEAN, loaded : BOOLEAN, staked : Nat, pending : Nat,
              base : Nat, stakeRef : Nat, lastRewardTime : Nat,
              timerStopped : BOOLEAN, loading : BOOLEAN]
  /\ handler \in [Buttons ->
       Waits \cup {"idle", "reading", "restarting", "verifying", "rereading",
                   "loading"}]
  /\ closure \in [Buttons -> [stopped : BOOLEAN, staked : Nat]]
  /\ snapshot \in Loads \cup {Nothing}

FreshTab ==
  [mounted |-> FALSE, loaded |-> FALSE, staked |-> 0, pending |-> 0,
   base |-> 0, stakeRef |-> 0, lastRewardTime |-> now,
   timerStopped |-> FALSE, loading |-> FALSE]

Mounted ==
  /\ tab' = FreshTab
  /\ handler' = [b \in Buttons |-> "idle"]
  /\ closure' = [b \in Buttons |-> NoClosure]
  /\ snapshot' = Nothing

TabInit ==
  /\ Init
  /\ tab = FreshTab
  /\ handler = [b \in Buttons |-> "idle"]
  /\ closure = [b \in Buttons |-> NoClosure]
  /\ snapshot = Nothing

-----------------------------------------------------------------------------
(* What the tab shows.                                                     *)
Elapsed == now - tab.lastRewardTime

(* Mutant of Estimate: the two times are swapped.                          *)
EstimateReversed ==
  tab.base + RewardFor(tab.stakeRef, tab.lastRewardTime - now)

(* A stakeRef above 0 comes with the rate of the same load.                *)
Estimate == tab.base + RewardFor(tab.stakeRef, Elapsed)

Estimating == tab.stakeRef > 0 /\ Elapsed > 0

(* getCurrentReward, where shouldShowRealtimeRewards asks for it           *)
Shown ==
  CASE tab.staked = 0                     -> tab.pending
    [] tab.timerStopped /\ tab.base > 0   -> tab.base
    [] ~tab.timerStopped /\ Estimating    -> Estimate
    [] OTHER                              -> tab.pending

(* updateRewardsInRealtime, every second while the countdown runs          *)
UpdateRewardsInRealtime ==
  /\ tab.loaded /\ tab.staked > 0
  /\ ~tab.timerStopped
  /\ Estimating
  /\ tab' = [tab EXCEPT !.pending = Estimate]
  /\ UNCHANGED <<vars, handler, closure, snapshot>>

(* CountdownTimer reaches zero: handleCountdownFinish.                     *)
CountdownFinish ==
  /\ tab.loaded /\ tab.staked > 0
  /\ ~tab.timerStopped
  /\ Elapsed >= REWARD_INTERVAL
  /\ tab' = [tab EXCEPT
       !.timerStopped = TRUE,
       !.base    = IF Estimating THEN Estimate ELSE @,
       !.pending = IF Estimating THEN Estimate ELSE @]
  /\ UNCHANGED <<vars, handler, closure, snapshot>>

-----------------------------------------------------------------------------
(* loadStakingInfo: what it reads ...                                      *)
Read(mount) ==
  LET s == stakes[Account]
  IN  [read |-> TRUE, mount |-> mount,
       staked |-> s.amount, pending |-> PendingReward(s),
       lastRewardTime |-> IF mount THEN s.lastRewardTime ELSE 0]

(* Mutant of Written: a stake that is shown once is not refreshed.         *)
WrittenOnce(s, stopped) ==
  [tab EXCEPT
    !.loaded   = TRUE,
    !.staked   = IF tab.loaded THEN @ ELSE s.staked,
    !.stakeRef = s.staked]

(* ... and what it makes of the page.  An estimate stands if the closure   *)
(* saw the countdown stopped; only a load at mount sets the countdown.     *)
Written(s, stopped) ==
  LET preserving == stopped /\ tab.base > 0
      firstStake == s.staked > 0 /\ s.pending = 0
      restart == s.mount /\ s.staked > 0
      expired == now - s.lastRewardTime >= REWARD_INTERVAL
  IN  [tab EXCEPT
        !.loaded   = TRUE,
        !.staked   = s.staked,
        !.stakeRef = IF preserving /\ firstStake THEN @ ELSE s.staked,
        !.base     = IF s.mount \/ tab.base = 0 THEN s.pending ELSE @,
        !.pending  = IF preserving THEN @ ELSE s.pending,
        !.timerStopped   = IF restart THEN expired ELSE @,
        !.lastRewardTime = IF restart /\ ~expired THEN s.lastRewardTime
                                                  ELSE @]

(* The page loads when it is mounted and every 30 seconds, one load at a   *)
(* time; its closure is that of the first render, whose countdown runs.    *)
StartLoad ==
  /\ ~snapshot.read
  /\ snapshot' = Read(~tab.mounted)
  /\ tab' = [tab EXCEPT !.mounted = TRUE]
  /\ UNCHANGED <<vars, handler, closure>>

FinishLoad ==
  /\ snapshot.read
  /\ tab' = Written(snapshot, FALSE)
  /\ snapshot' = Nothing
  /\ UNCHANGED <<vars, handler, closure>>

(* A read throws; the catch clause of the load keeps the page as it is.    *)
FailLoad ==
  /\ snapshot.read
  /\ snapshot' = Nothing
  /\ UNCHANGED <<vars, tab, handler, closure>>

-----------------------------------------------------------------------------
Wait(b, await) ==
  /\ handler' = [handler EXCEPT ![b] = await]
  /\ closure' = [closure EXCEPT ![b] = IF await = "idle" THEN NoClosure ELSE @]
  /\ UNCHANGED snapshot

(* A button is pressed; the button to continue is never disabled, and the  *)
(* one to stake is there before anything is loaded.                        *)
Press(b) ==
  /\ handler[b] = "idle"
  /\ Quantify(Buttons, LAMBDA c : handler[c] # "idle") < MaxHandlers
  /\ tab.loaded \/ b = "stake"
  /\ CASE b = "continue" -> tab.timerStopped /\ tab.staked > 0
       [] b = "stake"    -> ~tab.loading
       [] b = "withdraw" -> /\ ~tab.loading
                            /\ \E amount \in Amounts : amount <= tab.staked
       [] b = "claim"    -> ~tab.loading /\ Shown > 0
  /\ handler' = [handler EXCEPT ![b] =
       CASE b = "continue" -> "storing"
         [] b = "stake"    -> "approving"
         [] b = "withdraw" -> "sending"
         [] b = "claim"    ->
              IF tab.timerStopped THEN "storing" ELSE "sending"]
  /\ closure' = [closure EXCEPT ![b] =
       IF b = "continue" THEN [NoClosure EXCEPT !.staked = tab.staked]
                         ELSE [NoClosure EXCEPT !.stopped = tab.timerStopped]]
  /\ tab' = [tab EXCEPT !.loading = TRUE]
  /\ UNCHANGED <<vars, snapshot>>

(* The wallet's approval of the stake                                      *)
Approve ==
  /\ handler["stake"] = "approving"
  /\ Wait("stake", "sending")
  /\ UNCHANGED <<vars, tab>>

(* Mutant of StoreRewards: the contract's other way to continue is called. *)
StoreRewardsDropped(b) ==
  /\ handler[b] = "storing"
  /\ ContinueStaking(Account)
  /\ Wait(b, IF b = "continue" THEN "reading" ELSE "verifying")
  /\ UNCHANGED tab

(* storeCurrentRewards is mined, for continue or before a claim.           *)
StoreRewards(b) ==
  /\ handler[b] = "storing"
  /\ StoreCurrentRewards(Account)
  /\ Wait(b, IF b = "continue" THEN "reading" ELSE "verifying")
  /\ UNCHANGED tab

(* continue: the stored reward becomes the base of the next countdown, and *)
(* the stake shown is that of the click again.  The first of two timeouts  *)
(* of 10 ms, which sets the time read here, is part of the step ...        *)
ReadReward ==
  LET reward == PendingReward(stakes[Account])
  IN  /\ handler["continue"] = "reading"
      /\ tab' = [tab EXCEPT !.base = reward, !.pending = reward,
                            !.staked = closure["continue"].staked,
                            !.lastRewardTime = now]
      /\ Wait("continue", "restarting")
      /\ UNCHANGED vars

(* Mutant of RestartTimer: the timeout forgets the buttons.                *)
RestartTimerOnly ==
  /\ handler["continue"] = "restarting"
  /\ tab' = [tab EXCEPT !.timerStopped = FALSE]
  /\ Wait("continue", "idle")
  /\ UNCHANGED vars

(* ... which the second timeout starts.                                    *)
RestartTimer ==
  /\ handler["continue"] = "restarting"
  /\ tab' = [tab EXCEPT !.timerStopped = FALSE, !.loading = FALSE]
  /\ Wait("continue", "idle")
  /\ UNCHANGED vars

SendStake(amount) ==
  /\ handler["stake"] = "sending"
  /\ Stake(Account, amount)
  /\ tab' = [tab EXCEPT !.timerStopped = FALSE, !.lastRewardTime = now]
  /\ Wait("stake", "loading")

SendWithdraw(amount) ==
  /\ handler["withdraw"] = "sending"
  /\ Withdraw(Account, amount)
  /\ Wait("withdraw", "loading")
  /\ UNCHANGED tab

(* Nothing on chain to claim is an error.                                  *)
VerifyStored ==
  /\ handler["claim"] = "verifying"
  /\ PendingReward(stakes[Account]) > 0
  /\ Wait("claim", "sending")
  /\ UNCHANGED <<vars, tab>>

SendClaim ==
  /\ handler["claim"] = "sending"
  /\ ClaimReward(Account)
  /\ tab' = [tab EXCEPT !.base = 0]
  /\ Wait("claim", "rereading")

StopAfterClaim ==
  /\ handler["claim"] = "rereading"
  /\ tab' = [tab EXCEPT !.timerStopped = @ \/ stakes[Account].amount > 0]
  /\ Wait("claim", "loading")
  /\ UNCHANGED vars

(* The load that ends stake, withdraw and claim, whether it succeeds or    *)
(* catches an error                                                        *)
LoadAndReturn(b) ==
  /\ handler[b] = "loading"
  /\ \E loaded \in {tab, Written(Read(FALSE), closure[b].stopped)} :
       tab' = [loaded EXCEPT !.loading = FALSE]
  /\ Wait(b, "idle")
  /\ UNCHANGED vars

(* An await throws: the message is shown and the buttons come back.        *)
Fail(b) ==
  /\ handler[b] \in Waits \cup {"reading", "verifying", "rereading"}
  /\ tab' = [tab EXCEPT !.loading = FALSE]
  /\ Wait(b, "idle")
  /\ UNCHANGED vars

-----------------------------------------------------------------------------
(* The page is opened anew; what was sent before is not followed up.       *)
Reload == tab.loaded /\ Mounted /\ UNCHANGED vars

Environment ==
  /\ \/ \E amount \in Grants : ReplenishRewards(amount)
     \/ Tick
  /\ UNCHANGED page

(* What goes on without wallet or user                                     *)
Continue(b) ==
  \/ b = "continue" /\ (ReadReward \/ RestartTimer)
  \/ b = "claim" /\ (VerifyStored \/ StopAfterClaim)
  \/ LoadAndReturn(b)
  \/ handler[b] \notin Waits /\ Fail(b)

TabNext ==
  \/ \E b \in Buttons : Press(b) \/ StoreRewards(b) \/ Continue(b)
  \/ \E b \in Buttons : handler[b] \in Waits /\ Fail(b)
  \/ Approve \/ SendClaim
  \/ \E amount \in Amounts : SendStake(amount) \/ SendWithdraw(amount)
  \/ StartLoad \/ FinishLoad \/ FailLoad
  \/ UpdateRewardsInRealtime
  \/ CountdownFinish
  \/ Reload
  \/ Environment

(* The interval goes on, and an RPC that fails does not fail for ever.     *)
Fairness == WF_tabVars(StartLoad) /\ SF_tabVars(FinishLoad)

TabSpec == TabInit /\ [][TabNext]_tabVars /\ Fairness

-----------------------------------------------------------------------------
(* However the countdown, the buttons and reloads interleave, the tab      *)
(* never makes the user give up a pending reward, as the contract's own    *)
(* continueStaking would: it falls only by being paid in full.             *)
PendingOnlyPaid ==
  LET pending == PendingReward(stakes[Account])
  IN  pending' < pending =>
        /\ pending' = 0
        /\ history'[Account].received = history[Account].received + pending

TabKeepsReward == [][PendingOnlyPaid]_tabVars

(* The buttons stay disabled only on behalf of a handler that is still     *)
(* running: none ends, fails or overtakes another and leaves them so.      *)
DisabledByHandler ==
  tab.loading => \E b \in Buttons : handler[b] # "idle"

(* The stake shown becomes the stake of the contract, whichever loads were *)
(* overtaken by a transaction on their way.                                *)
ShownStakeSettles == []<>(tab.loaded /\ tab.staked = stakes[Account].amount)
=============================================================================
