-------------------------- MODULE DelegateManager --------------------------
(***************************************************************************)
(* contracts/core/DelegateManager.sol: owners let delegates borrow in the  *)
(* lending pool in their name, against a stake.  A transaction is one      *)
(* action.  The pool is external here: borrowBehalf either moves the       *)
(* amount to the manager or reverts the whole transaction, and so does a   *)
(* transfer from a delegate who has not approved it; in both cases the     *)
(* step does not happen.                                                   *)
(***************************************************************************)
EXTENDS Integers, FiniteSetsExt

CONSTANTS
  Owners,
  Delegates,
  Contracts,      (* the delegates that are contracts                      *)
  Tokens,
  StakingToken,   (* WETH                                                  *)
  Amounts,        (* amounts to borrow, and to add to a stake              *)
  Types,          (* the delegation types that owners use                  *)
  Caps,           (* values of maxBorrowAmount                             *)
  Thresholds,
  Expiries,
  REQUIRED_STAKE_PERCENTAGE,
  BASIS_POINTS,
  MAX_DELEGATES_PER_OWNER,
  MaxTime,        (* bound: block time stops here                          *)
  MaxBalance      (* bound: the manager's balance of a token stops here    *)

DelegationType == {"INDIVIDUAL", "CONTRACT", "MULTISIG"}

ASSUME DelegationConstants ==
  /\ IsFiniteSet(Owners) /\ IsFiniteSet(Delegates)
  /\ Types \subseteq DelegationType
  /\ Contracts \subseteq Delegates
  /\ StakingToken \in Tokens
  /\ Amounts \subseteq Nat
  /\ Caps \subseteq Nat
  /\ Thresholds \subseteq Nat
  /\ Expiries \subseteq Nat
  /\ REQUIRED_STAKE_PERCENTAGE \in Nat
  /\ BASIS_POINTS \in Nat \ {0}
  /\ MAX_DELEGATES_PER_OWNER \in Nat
  /\ MaxTime \in Nat
  /\ MaxBalance \in Nat

VARIABLES
  delegations,     (* per owner and delegate                               *)
  ownerDelegates,  (* per owner, the set of delegates                      *)
  approvals,       (* multisigApprovals: per owner and operation, a set    *)
  approvalCount,   (* multisigApprovalCount: the same as a counter         *)
  executed,        (* executedOperations: per owner, a set                 *)
  balance,         (* what the manager holds, per token                    *)
  now,             (* block.timestamp                                      *)
  history          (* history variable, read by no action                  *)

vars == <<delegations, ownerDelegates, approvals, approvalCount, executed,
          balance, now, history>>

Delegation ==
  [delegationType : DelegationType, maxBorrowAmount : Nat,
   stakedAmount : Nat, threshold : Nat, active : BOOLEAN]

(* An operation stands for its hash; the owner is the index it is used at. *)
Operations == [token : Tokens, amount : Amounts, expiry : Expiries]

(* history: per owner and delegate what the delegate has paid in and not   *)
(* got back; per owner and operation how often it was executed.            *)
HistoryType ==
  [pledged : [Owners -> [Delegates -> Int]],
   runs    : [Owners -> [Operations -> Nat]]]

TypeOK ==
  /\ delegations \in [Owners -> [Delegates -> Delegation]]
  /\ ownerDelegates \in [Owners -> SUBSET Delegates]
  /\ approvals \in [Owners -> [Operations -> SUBSET Delegates]]
  /\ approvalCount \in [Owners -> [Operations -> Nat]]
  /\ executed \in [Owners -> SUBSET Operations]
  /\ balance \in [Tokens -> Nat]
  /\ now \in Nat
  /\ history \in HistoryType

NoDelegation ==
  [delegationType |-> "INDIVIDUAL", maxBorrowAmount |-> 0,
   stakedAmount |-> 0, threshold |-> 0, active |-> FALSE]

Init ==
  /\ delegations = [o \in Owners |-> [d \in Delegates |-> NoDelegation]]
  /\ ownerDelegates = [o \in Owners |-> {}]
  /\ approvals = [o \in Owners |-> [op \in Operations |-> {}]]
  /\ approvalCount = [o \in Owners |-> [op \in Operations |-> 0]]
  /\ executed = [o \in Owners |-> {}]
  /\ balance = [t \in Tokens |-> 0]
  /\ now = 0
  /\ history =
       [pledged |-> [o \in Owners |-> [d \in Delegates |-> 0]],
        runs    |-> [o \in Owners |-> [op \in Operations |-> 0]]]

-----------------------------------------------------------------------------
RequiredStake(cap) == (cap * REQUIRED_STAKE_PERCENTAGE) \div BASIS_POINTS

multisigVars == <<approvals, approvalCount, executed>>

(* The manager receives amount of token.                                   *)
Receive(token, amount) ==
  /\ balance[token] + amount <= MaxBalance
  /\ balance' = [balance EXCEPT ![token] = @ + amount]

(* Mutant of Enlist: the owner is entered instead of the delegate.         *)
EnlistOwner(o, d) ==
  ownerDelegates' = [ownerDelegates EXCEPT ![o] = @ \cup {o}]

(* Mutant of Enlist: a delegate is not entered in the owner's set.         *)
EnlistNobody(o, d) == ownerDelegates' = ownerDelegates

Enlist(o, d) ==
  ownerDelegates' = [ownerDelegates EXCEPT ![o] = @ \cup {d}]

(* An earlier delegation of d is overwritten, its stake forgotten.         *)
CreateDelegation(o, d, type, cap, threshold) ==
  LET stake == RequiredStake(cap)
  IN  /\ cap > 0
      /\ Cardinality(ownerDelegates[o]) < MAX_DELEGATES_PER_OWNER
      /\ type = "MULTISIG" => threshold > 0
      /\ Receive(StakingToken, stake)
      /\ delegations' = [delegations EXCEPT ![o][d] =
           [delegationType |-> type, maxBorrowAmount |-> cap,
            stakedAmount |-> stake,
            threshold |-> IF type = "MULTISIG" THEN threshold ELSE 1,
            active |-> TRUE]]
      /\ Enlist(o, d)
      /\ history' = [history EXCEPT !.pledged[o][d] = @ + stake]
      /\ UNCHANGED <<multisigVars, now>>

(* Approvals that d has given stay.                                        *)
RevokeDelegation(o, d) ==
  LET stake == delegations[o][d].stakedAmount
  IN  /\ d \in ownerDelegates[o]
      /\ delegations[o][d].active
      /\ stake <= balance[StakingToken]
      /\ balance' = [balance EXCEPT ![StakingToken] = @ - stake]
      /\ delegations' = [delegations EXCEPT ![o][d].active = FALSE]
      /\ ownerDelegates' = [ownerDelegates EXCEPT ![o] = @ \ {d}]
      /\ history' = [history EXCEPT !.pledged[o][d] = @ - stake]
      /\ UNCHANGED <<multisigVars, now>>

(* Mutant of StakeAdded: the new stake counts twice.                       *)
StakeAddedTwice(stake, amount) == stake + amount + amount

StakeAdded(stake, amount) == stake + amount

IncreaseStake(o, d, amount) ==
  /\ amount > 0
  /\ d \in ownerDelegates[o]
  /\ delegations[o][d].active
  /\ Receive(StakingToken, amount)
  /\ delegations' = [delegations EXCEPT
       ![o][d].stakedAmount = StakeAdded(@, amount)]
  /\ history' = [history EXCEPT !.pledged[o][d] = @ + amount]
  /\ UNCHANGED <<ownerDelegates, multisigVars, now>>

(* What all three ways to borrow require of d's delegation.                *)
MayBorrow(o, d, type, amount) ==
  /\ amount > 0
  /\ delegations[o][d].active
  /\ delegations[o][d].delegationType = type
  /\ amount <= delegations[o][d].maxBorrowAmount

(* executeBorrow: the pool pays the manager, not the delegate.             *)
BorrowOnBehalf(o, d, token, amount) ==
  /\ MayBorrow(o, d, "INDIVIDUAL", amount)
  /\ Receive(token, amount)
  /\ UNCHANGED <<delegations, ownerDelegates, multisigVars, now, history>>

ContractBorrowOnBehalf(o, d, token, amount) ==
  /\ MayBorrow(o, d, "CONTRACT", amount)
  /\ d \in Contracts
  /\ Receive(token, amount)
  /\ UNCHANGED <<delegations, ownerDelegates, multisigVars, now, history>>

(* Mutant of CountAfter: approving again counts again.                     *)
CountEveryApproval(o, d, op) == approvalCount[o][op] + 1

(* multisigApprovalCount after an approval by d.                           *)
CountAfter(o, d, op) ==
  approvalCount[o][op] + (IF d \in approvals[o][op] THEN 0 ELSE 1)

(* Mutant of IsFresh: an executed operation may be approved again.         *)
IsUnexpired(o, op) == op.expiry > now

(* An operation that may still be approved.                                *)
IsFresh(o, op) == op.expiry > now /\ op \notin executed[o]

ApproveMultisigBorrow(o, d, op) ==
  LET count == CountAfter(o, d, op)
  IN  /\ MayBorrow(o, d, "MULTISIG", op.amount)
      /\ IsFresh(o, op)
      /\ approvals' = [approvals EXCEPT ![o][op] = @ \cup {d}]
      /\ approvalCount' = [approvalCount EXCEPT ![o][op] = count]
      /\ \/ /\ count < delegations[o][d].threshold
            /\ UNCHANGED <<executed, balance, history>>
         \/ /\ count >= delegations[o][d].threshold
            /\ executed' = [executed EXCEPT ![o] = @ \cup {op}]
            /\ Receive(op.token, op.amount)
            /\ history' = [history EXCEPT !.runs[o][op] = @ + 1]
      /\ UNCHANGED <<delegations, ownerDelegates, now>>

Tick ==
  /\ now < MaxTime
  /\ now' = now + 1
  /\ UNCHANGED <<delegations, ownerDelegates, multisigVars, balance, history>>

OwnerStep(o, d) ==
  \/ \E type \in Types, cap \in Caps, threshold \in Thresholds :
       CreateDelegation(o, d, type, cap, threshold)
  \/ RevokeDelegation(o, d)

DelegateStep(o, d) ==
  \/ \E amount \in Amounts : IncreaseStake(o, d, amount)
  \/ \E token \in Tokens, amount \in Amounts :
       BorrowOnBehalf(o, d, token, amount)
  \/ \E token \in Tokens, amount \in Amounts :
       ContractBorrowOnBehalf(o, d, token, amount)
  \/ \E op \in Operations : ApproveMultisigBorrow(o, d, op)

Next ==
  \/ \E o \in Owners, d \in Delegates : OwnerStep(o, d) \/ DelegateStep(o, d)
  \/ Tick

Spec == Init /\ [][Next]_vars

-----------------------------------------------------------------------------
(* The set of delegates and the active flags are kept separately and agree *)
(* through every renewal and revocation; the set respects its limit.       *)
DelegatesListed ==
  \A o \in Owners :
    /\ \A d \in Delegates :
         d \in ownerDelegates[o] <=> delegations[o][d].active
    /\ Cardinality(ownerDelegates[o]) <= MAX_DELEGATES_PER_OWNER

(* The approval counter counts distinct delegates.                         *)
ApprovalsCounted ==
  \A o \in Owners, op \in Operations :
    approvalCount[o][op] = Cardinality(approvals[o][op])

(* An operation, that is an owner, a token, an amount and an expiry, draws *)
(* its amount at most once, whoever approves it in whatever order.         *)
ExecutedOnce ==
  \A o \in Owners, op \in Operations :
    history.runs[o][op] = IF op \in executed[o] THEN 1 ELSE 0

(* An operation is executed only before its expiry, by an active multisig  *)
(* delegate whose threshold is met by as many different approvers.         *)
QuorumIsMet ==
  \A o \in Owners : \A op \in executed'[o] \ executed[o] :
    /\ now < op.expiry
    /\ \E d \in approvals'[o][op] :
         /\ delegations[o][d].active
         /\ delegations[o][d].delegationType = "MULTISIG"
         /\ delegations[o][d].threshold <= Cardinality(approvals'[o][op])

QuorumBeforeExecution == [][QuorumIsMet]_vars

ActiveStake(o, d) ==
  IF delegations[o][d].active THEN delegations[o][d].stakedAmount ELSE 0

(* Every recorded stake can be paid back at any time, whatever was renewed,*)
(* revoked or borrowed before: nobody has more recorded than was paid in,  *)
(* and all that was paid in and not returned is there.                     *)
StakesCovered ==
  /\ \A o \in Owners, d \in Delegates :
       ActiveStake(o, d) <= history.pledged[o][d]
  /\ balance[StakingToken] >=
       SumFunction([p \in Owners \X Delegates |-> history.pledged[p[1]][p[2]]])
=============================================================================
