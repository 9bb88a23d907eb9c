----------------------- MODULE DelegateManager_proofs -----------------------
(***************************************************************************)
(* Theorems about DelegateManager for any owners, delegates and tokens:    *)
(* the two ways to say that somebody is a delegate agree, approvals are    *)
(* counted once each, an operation is executed at most once and with its   *)
(* quorum, and every stake can be paid back.                               *)
(***************************************************************************)
EXTENDS DelegateManager, FiniteSums

(* The sets behind the counters are finite.                                *)
SetsFinite ==
  /\ \A o \in Owners : IsFiniteSet(ownerDelegates[o])
  /\ \A o \in Owners, op \in Operations : IsFiniteSet(approvals[o][op])

IInv ==
  TypeOK /\ SetsFinite /\ DelegatesListed /\ ApprovalsCounted /\ ExecutedOnce

(* The part of the invariant about who is a delegate, and the part about   *)
(* multisig operations.                                                    *)
delegateVars == <<delegations, ownerDelegates>>
quorumVars == <<approvals, approvalCount, executed, history.runs>>

DelegatesOK ==
  /\ delegations \in [Owners -> [Delegates -> Delegation]]
  /\ ownerDelegates \in [Owners -> SUBSET Delegates]
  /\ \A o \in Owners : IsFiniteSet(ownerDelegates[o])
  /\ DelegatesListed

MultisigOK ==
  /\ approvals \in [Owners -> [Operations -> SUBSET Delegates]]
  /\ approvalCount \in [Owners -> [Operations -> Nat]]
  /\ executed \in [Owners -> SUBSET Operations]
  /\ history \in HistoryType
  /\ \A o \in Owners, op \in Operations : IsFiniteSet(approvals[o][op])
  /\ ApprovalsCounted
  /\ ExecutedOnce

PurseOK == balance \in [Tokens -> Nat] /\ now \in Nat

LEMMA Parts == IInv <=> DelegatesOK /\ MultisigOK /\ PurseOK
BY DEF IInv, DelegatesOK, MultisigOK, PurseOK, TypeOK, SetsFinite

LEMMA PartsAfter == IInv' <=> DelegatesOK' /\ MultisigOK' /\ PurseOK'
BY DEF IInv, DelegatesOK, MultisigOK, PurseOK, TypeOK, SetsFinite

LEMMA StakeType ==
  ASSUME NEW cap \in Nat
  PROVE  RequiredStake(cap) \in Nat
<1>1. cap * REQUIRED_STAKE_PERCENTAGE \in Nat
  BY DelegationConstants
<1>2. ASSUME NEW x \in Nat PROVE x \div BASIS_POINTS \in Nat
  BY DelegationConstants
<1> QED BY <1>1, <1>2 DEF RequiredStake

-----------------------------------------------------------------------------
(***************************************************************************)
(* What a change of one entry does to each part.                           *)
(***************************************************************************)
LEMMA ReceiveKeepsPurse ==
  ASSUME PurseOK, NEW t \in Tokens, NEW amount \in Nat,
         Receive(t, amount), now' = now
  PROVE  PurseOK'
BY DEF PurseOK, Receive

(* One entry changes: everybody else is listed as before.                  *)
LEMMA EntryListed ==
  ASSUME DelegatesListed, NEW o \in Owners, NEW d \in Delegates,
         \A p \in Owners, e \in Delegates :
           p # o \/ e # d => delegations'[p][e] = delegations[p][e],
         \A p \in Owners : p # o => ownerDelegates'[p] = ownerDelegates[p],
         \/ /\ ownerDelegates'[o] = ownerDelegates[o] \cup {d}
            /\ delegations'[o][d].active = TRUE
         \/ /\ ownerDelegates'[o] = ownerDelegates[o] \ {d}
            /\ delegations'[o][d].active = FALSE,
         Cardinality(ownerDelegates'[o]) <= MAX_DELEGATES_PER_OWNER
  PROVE  DelegatesListed'
<1>1. ASSUME NEW p \in Owners, NEW e \in Delegates
      PROVE  e \in ownerDelegates'[p] <=> delegations'[p][e].active
  <2>1. CASE p # o
    BY <2>1 DEF DelegatesListed
  <2>2. CASE p = o /\ e # d
    BY <2>2 DEF DelegatesListed
  <2>3. CASE p = o /\ e = d
    BY <2>3
  <2> QED BY <2>1, <2>2, <2>3
<1>2. ASSUME NEW p \in Owners
      PROVE  Cardinality(ownerDelegates'[p]) <= MAX_DELEGATES_PER_OWNER
  BY DEF DelegatesListed
<1> QED BY <1>1, <1>2 DEF DelegatesListed

(* A delegation is created: the delegate becomes listed.                   *)
LEMMA EnlistKeepsDelegates ==
  ASSUME DelegatesOK, NEW o \in Owners, NEW d \in Delegates,
         NEW new \in Delegation, new.active = TRUE,
         Cardinality(ownerDelegates[o]) < MAX_DELEGATES_PER_OWNER,
         delegations' = [delegations EXCEPT ![o][d] = new],
         Enlist(o, d)
  PROVE  DelegatesOK'
<1>1. /\ delegations' \in [Owners -> [Delegates -> Delegation]]
      /\ delegations'[o][d] = new
      /\ \A p \in Owners, e \in Delegates :
           p # o \/ e # d => delegations'[p][e] = delegations[p][e]
  BY DEF DelegatesOK
<1>2. /\ ownerDelegates' \in [Owners -> SUBSET Delegates]
      /\ ownerDelegates'[o] = ownerDelegates[o] \cup {d}
      /\ \A p \in Owners : p # o => ownerDelegates'[p] = ownerDelegates[p]
  BY DEF DelegatesOK, Enlist
<1>3. /\ IsFiniteSet(ownerDelegates'[o])
      /\ Cardinality(ownerDelegates'[o]) <= MAX_DELEGATES_PER_OWNER
  <2>1. IsFiniteSet(ownerDelegates[o])
    BY DEF DelegatesOK
  <2>2. Cardinality(ownerDelegates[o]) \in Nat
    BY <2>1, FS_CardinalityType
  <2>3. /\ IsFiniteSet(ownerDelegates[o] \cup {d})
        /\ \/ Cardinality(ownerDelegates[o] \cup {d})
                = Cardinality(ownerDelegates[o])
           \/ Cardinality(ownerDelegates[o] \cup {d})
                = Cardinality(ownerDelegates[o]) + 1
    BY <2>1, FS_AddElement
  <2> QED BY <1>2, <2>2, <2>3, DelegationConstants
<1>4. DelegatesListed'
  <2>1. DelegatesListed
    BY DEF DelegatesOK
  <2>2. /\ ownerDelegates'[o] = ownerDelegates[o] \cup {d}
        /\ delegations'[o][d].active = TRUE
    BY <1>1, <1>2
  <2>3. /\ \A p \in Owners, e \in Delegates :
             p # o \/ e # d => delegations'[p][e] = delegations[p][e]
        /\ \A p \in Owners : p # o => ownerDelegates'[p] = ownerDelegates[p]
    BY <1>1, <1>2
  <2>4. Cardinality(ownerDelegates'[o]) <= MAX_DELEGATES_PER_OWNER
    BY <1>3
  <2> QED BY <2>1, <2>2, <2>3, <2>4, EntryListed
<1>5. \A p \in Owners : IsFiniteSet(ownerDelegates'[p])
  BY <1>2, <1>3 DEF DelegatesOK
<1> QED BY <1>1, <1>2, <1>4, <1>5 DEF DelegatesOK

(* A delegation is revoked: the delegate is no longer listed.              *)
LEMMA RevokeKeepsDelegates ==
  ASSUME DelegatesOK, NEW o \in Owners, NEW d \in Delegates,
         RevokeDelegation(o, d)
  PROVE  DelegatesOK'
<1> DEFINE new == [delegations[o][d] EXCEPT !.active = FALSE]
<1>1. delegations[o][d] \in Delegation
  BY DEF DelegatesOK
<1>2. new \in Delegation /\ new.active = FALSE
  BY <1>1 DEF Delegation
<1>3. delegations' = [delegations EXCEPT ![o][d] = new]
      /\ ownerDelegates' = [ownerDelegates EXCEPT
                             ![o] = ownerDelegates[o] \ {d}]
  BY DEF RevokeDelegation, DelegatesOK
<1> HIDE DEF new
<1>4. /\ delegations' \in [Owners -> [Delegates -> Delegation]]
      /\ delegations'[o][d] = new
      /\ \A p \in Owners, e \in Delegates :
           p # o \/ e # d => delegations'[p][e] = delegations[p][e]
  BY <1>2, <1>3 DEF DelegatesOK
<1>5. /\ ownerDelegates' \in [Owners -> SUBSET Delegates]
      /\ ownerDelegates'[o] = ownerDelegates[o] \ {d}
      /\ \A p \in Owners : p # o => ownerDelegates'[p] = ownerDelegates[p]
  BY <1>3 DEF DelegatesOK
<1>6. /\ IsFiniteSet(ownerDelegates'[o])
      /\ Cardinality(ownerDelegates'[o]) <= MAX_DELEGATES_PER_OWNER
  <2>1. IsFiniteSet(ownerDelegates[o])
        /\ Cardinality(ownerDelegates[o]) <= MAX_DELEGATES_PER_OWNER
    BY DEF DelegatesOK, DelegatesListed
  <2>2. /\ IsFiniteSet(ownerDelegates[o] \ {d})
        /\ Cardinality(ownerDelegates[o] \ {d})
             <= Cardinality(ownerDelegates[o])
    BY <2>1, FS_Subset
  <2>3. Cardinality(ownerDelegates[o]) \in Nat
        /\ Cardinality(ownerDelegates[o] \ {d}) \in Nat
    BY <2>1, <2>2, FS_CardinalityType
  <2> QED BY <1>5, <2>1, <2>2, <2>3, DelegationConstants
<1>7. DelegatesListed'
  BY <1>2, <1>4, <1>5, <1>6, EntryListed DEF DelegatesOK
<1>8. \A p \in Owners : IsFiniteSet(ownerDelegates'[p])
  BY <1>5, <1>6 DEF DelegatesOK
<1> QED BY <1>4, <1>5, <1>7, <1>8 DEF DelegatesOK

(* More stake changes no set and no flag.                                  *)
LEMMA IncreaseKeepsDelegates ==
  ASSUME DelegatesOK, NEW o \in Owners, NEW d \in Delegates,
         NEW amount \in Nat, IncreaseStake(o, d, amount)
  PROVE  DelegatesOK'
<1> DEFINE new == [delegations[o][d] EXCEPT
                    !.stakedAmount = delegations[o][d].stakedAmount + amount]
<1>1. delegations[o][d] \in Delegation
  BY DEF DelegatesOK
<1>2. new \in Delegation /\ new.active = delegations[o][d].active
  BY <1>1 DEF Delegation
<1>3. delegations' = [delegations EXCEPT ![o][d] = new]
      /\ ownerDelegates' = ownerDelegates
  BY DEF IncreaseStake, StakeAdded, DelegatesOK
<1> HIDE DEF new
<1>4. /\ delegations' \in [Owners -> [Delegates -> Delegation]]
      /\ delegations'[o][d] = new
      /\ \A p \in Owners, e \in Delegates :
           p # o \/ e # d => delegations'[p][e] = delegations[p][e]
  BY <1>2, <1>3 DEF DelegatesOK
<1>5. DelegatesListed'
  BY <1>2, <1>3, <1>4 DEF DelegatesOK, DelegatesListed
<1> QED BY <1>3, <1>4, <1>5 DEF DelegatesOK

LEMMA DelegatesUntouched ==
  ASSUME DelegatesOK, UNCHANGED delegateVars
  PROVE  DelegatesOK'
BY DEF DelegatesOK, DelegatesListed, delegateVars

(* The history of pledges and draws says nothing about operations.         *)
LEMMA MultisigUntouched ==
  ASSUME MultisigOK, UNCHANGED quorumVars, history' \in HistoryType
  PROVE  MultisigOK'
BY DEF MultisigOK, ApprovalsCounted, ExecutedOnce, quorumVars
-----------------------------------------------------------------------------
(***************************************************************************)
(* Approval and execution.                                                 *)
(***************************************************************************)
RunsAfter(o, op) ==
  [history.runs EXCEPT ![o][op] = history.runs[o][op] + 1]

(* The shape of an approval step, with or without execution.               *)
Approval(o, d, op) ==
  /\ approvals' = [approvals EXCEPT ![o][op] = approvals[o][op] \cup {d}]
  /\ approvalCount' = [approvalCount EXCEPT ![o][op] = CountAfter(o, d, op)]
  /\ op \notin executed[o]
  /\ \/ executed' = executed /\ history'.runs = history.runs
     \/ /\ executed' = [executed EXCEPT ![o] = executed[o] \cup {op}]
        /\ history'.runs = RunsAfter(o, op)

LEMMA ApprovalKeepsMultisig ==
  ASSUME MultisigOK, NEW o \in Owners, NEW d \in Delegates,
         NEW op \in Operations, Approval(o, d, op), history' \in HistoryType
  PROVE  /\ MultisigOK'
         /\ CountAfter(o, d, op) = Cardinality(approvals'[o][op])
<1>1. /\ approvals' \in [Owners -> [Operations -> SUBSET Delegates]]
      /\ approvals'[o][op] = approvals[o][op] \cup {d}
      /\ \A p \in Owners, q \in Operations :
           p # o \/ q # op => approvals'[p][q] = approvals[p][q]
  BY DEF MultisigOK, Approval
<1>2. CountAfter(o, d, op) \in Nat
  BY DEF MultisigOK, CountAfter
<1>3. /\ approvalCount' \in [Owners -> [Operations -> Nat]]
      /\ approvalCount'[o][op] = CountAfter(o, d, op)
      /\ \A p \in Owners, q \in Operations :
           p # o \/ q # op => approvalCount'[p][q] = approvalCount[p][q]
  BY <1>2 DEF MultisigOK, Approval
<1>4. /\ IsFiniteSet(approvals'[o][op])
      /\ CountAfter(o, d, op) = Cardinality(approvals'[o][op])
  <2>1. IsFiniteSet(approvals[o][op])
        /\ approvalCount[o][op] = Cardinality(approvals[o][op])
    BY DEF MultisigOK, ApprovalsCounted
  <2>2. /\ IsFiniteSet(approvals[o][op] \cup {d})
        /\ Cardinality(approvals[o][op] \cup {d})
             = IF d \in approvals[o][op] THEN Cardinality(approvals[o][op])
               ELSE Cardinality(approvals[o][op]) + 1
    BY <2>1, FS_AddElement
  <2>3. approvalCount[o][op] \in Nat
    BY DEF MultisigOK
  <2> QED BY <1>1, <2>1, <2>2, <2>3 DEF CountAfter
<1>5. ASSUME NEW p \in Owners, NEW q \in Operations
      PROVE  /\ IsFiniteSet(approvals'[p][q])
             /\ approvalCount'[p][q] = Cardinality(approvals'[p][q])
  <2>1. CASE p # o \/ q # op
    BY <2>1, <1>1, <1>3 DEF MultisigOK, ApprovalsCounted
  <2>2. CASE p = o /\ q = op
    BY <2>2, <1>3, <1>4
  <2> QED BY <2>1, <2>2
<1>6. executed' \in [Owners -> SUBSET Operations]
  BY DEF MultisigOK, Approval
<1>7. ASSUME NEW p \in Owners, NEW q \in Operations
      PROVE  history'.runs[p][q] = IF q \in executed'[p] THEN 1 ELSE 0
  <2>a. history.runs \in [Owners -> [Operations -> Nat]]
    BY DEF MultisigOK, HistoryType
  <2>b. history.runs[p][q] = IF q \in executed[p] THEN 1 ELSE 0
    BY DEF MultisigOK, ExecutedOnce
  <2>c. history.runs[o][op] = 0
    BY DEF MultisigOK, ExecutedOnce, Approval
  <2>1. CASE executed' = executed /\ history'.runs = history.runs
    BY <2>1, <2>b
  <2>2. CASE /\ executed' = [executed EXCEPT ![o] = executed[o] \cup {op}]
             /\ history'.runs = RunsAfter(o, op)
    <3>1. /\ executed'[o] = executed[o] \cup {op}
          /\ \A r \in Owners : r # o => executed'[r] = executed[r]
      BY <2>2 DEF MultisigOK
    <3>2. /\ history'.runs[o][op] = 1
          /\ p # o \/ q # op => history'.runs[p][q] = history.runs[p][q]
      BY <2>2, <2>a, <2>c DEF RunsAfter
    <3>3. CASE p = o /\ q = op
      BY <3>1, <3>2, <3>3
    <3>4. CASE p # o \/ q # op
      BY <3>1, <3>2, <3>4, <2>b
    <3> QED BY <3>3, <3>4
  <2> QED BY <2>1, <2>2 DEF Approval
<1> QED BY <1>1, <1>3, <1>4, <1>5, <1>6, <1>7
        DEF MultisigOK, ApprovalsCounted, ExecutedOnce

(* The history record after a pledge.                                      *)
LEMMA PledgeType ==
  ASSUME MultisigOK, NEW o \in Owners, NEW d \in Delegates, NEW amount \in Int
  PROVE  /\ [history EXCEPT !.pledged[o][d] = history.pledged[o][d] + amount]
              \in HistoryType
         /\ [history EXCEPT !.pledged[o][d] = history.pledged[o][d] + amount].runs
              = history.runs
         /\ [history EXCEPT !.pledged[o][d]
                              = history.pledged[o][d] + amount].pledged
              = [history.pledged EXCEPT
                  ![o][d] = history.pledged[o][d] + amount]
<1> DEFINE f == [history.pledged EXCEPT
                  ![o][d] = history.pledged[o][d] + amount]
           h == [history EXCEPT
                  !.pledged[o][d] = history.pledged[o][d] + amount]
<1>1. /\ history \in HistoryType
      /\ history.pledged \in [Owners -> [Delegates -> Int]]
  BY DEF MultisigOK, HistoryType
<1>2. history.pledged[o][d] + amount \in Int
  BY <1>1
<1>3. f \in [Owners -> [Delegates -> Int]]
  BY <1>1, <1>2
<1>4. h = [history EXCEPT !.pledged = f]
  BY <1>1 DEF HistoryType
<1> HIDE DEF f
<1>5. [history EXCEPT !.pledged = f] \in HistoryType
      /\ [history EXCEPT !.pledged = f].runs = history.runs
      /\ [history EXCEPT !.pledged = f].pledged = f
  BY <1>1, <1>3 DEF HistoryType
<1> QED BY <1>4, <1>5 DEF f

-----------------------------------------------------------------------------
(***************************************************************************)
(* One lemma per operation.                                                *)
(***************************************************************************)
LEMMA CreateInvariant ==
  ASSUME IInv, NEW o \in Owners, NEW d \in Delegates, NEW type \in Types,
         NEW cap \in Caps, NEW threshold \in Thresholds,
         CreateDelegation(o, d, type, cap, threshold)
  PROVE  IInv'
<1> DEFINE stake == RequiredStake(cap)
           new == [delegationType |-> type, maxBorrowAmount |-> cap,
                   stakedAmount |-> stake,
                   threshold |-> IF type = "MULTISIG" THEN threshold ELSE 1,
                   active |-> TRUE]
           h == [history EXCEPT
                  !.pledged[o][d] = history.pledged[o][d] + stake]
<1>1. DelegatesOK /\ MultisigOK /\ PurseOK
  BY Parts
<1>2. stake \in Nat /\ cap \in Nat /\ threshold \in Nat
      /\ type \in DelegationType
  BY StakeType, DelegationConstants
<1>3. new \in Delegation /\ new.active = TRUE
  <2> HIDE DEF stake
  <2> QED BY <1>2 DEF Delegation
<1>4. /\ Receive(StakingToken, stake) /\ now' = now
      /\ Cardinality(ownerDelegates[o]) < MAX_DELEGATES_PER_OWNER
      /\ delegations' = [delegations EXCEPT ![o][d] = new]
      /\ Enlist(o, d)
      /\ history' = h
      /\ UNCHANGED multisigVars
  BY DEF CreateDelegation
<1> HIDE DEF stake, new
<1>5. DelegatesOK'
  BY <1>1, <1>3, <1>4, EnlistKeepsDelegates
<1>6. h \in HistoryType /\ h.runs = history.runs
  BY <1>1, <1>2, PledgeType
<1> HIDE DEF h
<1>7. MultisigOK'
  BY <1>1, <1>4, <1>6, MultisigUntouched DEF quorumVars, multisigVars
<1>8. PurseOK'
  BY <1>1, <1>2, <1>4, ReceiveKeepsPurse, DelegationConstants
<1> QED BY <1>5, <1>7, <1>8, PartsAfter

LEMMA RevokeInvariant ==
  ASSUME IInv, NEW o \in Owners, NEW d \in Delegates, RevokeDelegation(o, d)
  PROVE  IInv'
<1> DEFINE stake == delegations[o][d].stakedAmount
           back == 0 - stake
           h == [history EXCEPT
                  !.pledged[o][d] = history.pledged[o][d] + back]
<1>1. DelegatesOK /\ MultisigOK /\ PurseOK
  BY Parts
<1>2. stake \in Nat /\ back \in Int
  <2>1. delegations[o][d] \in Delegation
    BY <1>1 DEF DelegatesOK
  <2> QED BY <2>1 DEF Delegation
<1>3. history.pledged[o][d] - stake = history.pledged[o][d] + back
  <2>1. history.pledged[o][d] \in Int
    BY <1>1 DEF MultisigOK, HistoryType
  <2> HIDE DEF stake
  <2> QED BY <1>2, <2>1
<1>4. /\ stake <= balance[StakingToken] /\ now' = now
      /\ balance' = [balance EXCEPT ![StakingToken]
                      = balance[StakingToken] - stake]
      /\ history' = [history EXCEPT
                      !.pledged[o][d] = history.pledged[o][d] - stake]
      /\ UNCHANGED multisigVars
  BY DEF RevokeDelegation
<1>5. history' = h
  BY <1>3, <1>4
<1>6. DelegatesOK'
  BY <1>1, RevokeKeepsDelegates
<1> HIDE DEF stake, back
<1>7. h \in HistoryType /\ h.runs = history.runs
  BY <1>1, <1>2, PledgeType
<1> HIDE DEF h
<1>8. MultisigOK'
  BY <1>1, <1>4, <1>5, <1>7, MultisigUntouched DEF quorumVars, multisigVars
<1>9. PurseOK'
  BY <1>1, <1>2, <1>4, DelegationConstants DEF PurseOK
<1> QED BY <1>6, <1>8, <1>9, PartsAfter

LEMMA IncreaseInvariant ==
  ASSUME IInv, NEW o \in Owners, NEW d \in Delegates, NEW amount \in Amounts,
         IncreaseStake(o, d, amount)
  PROVE  IInv'
<1> DEFINE h == [history EXCEPT
                  !.pledged[o][d] = history.pledged[o][d] + amount]
<1>1. DelegatesOK /\ MultisigOK /\ PurseOK /\ amount \in Nat
  BY Parts, DelegationConstants
<1>2. /\ Receive(StakingToken, amount) /\ now' = now
      /\ history' = h /\ UNCHANGED multisigVars
  BY DEF IncreaseStake
<1>3. DelegatesOK'
  BY <1>1, IncreaseKeepsDelegates
<1>4. h \in HistoryType /\ h.runs = history.runs
  BY <1>1, PledgeType
<1> HIDE DEF h
<1>5. MultisigOK'
  BY <1>1, <1>2, <1>4, MultisigUntouched DEF quorumVars, multisigVars
<1>6. PurseOK'
  BY <1>1, <1>2, ReceiveKeepsPurse, DelegationConstants
<1> QED BY <1>3, <1>5, <1>6, PartsAfter

(* A loan outside multisig: only the purse changes.                        *)
LEMMA DrawInvariant ==
  ASSUME IInv, NEW o \in Owners, NEW d \in Delegates, NEW token \in Tokens,
         NEW amount \in Amounts,
         BorrowOnBehalf(o, d, token, amount)
           \/ ContractBorrowOnBehalf(o, d, token, amount)
  PROVE  IInv'
<1>1. DelegatesOK /\ MultisigOK /\ PurseOK /\ amount \in Nat
  BY Parts, DelegationConstants
<1>2. /\ Receive(token, amount) /\ now' = now
      /\ history' = history /\ UNCHANGED multisigVars
      /\ UNCHANGED delegateVars
  BY DEF BorrowOnBehalf, ContractBorrowOnBehalf, delegateVars
<1>3. DelegatesOK'
  BY <1>1, <1>2, DelegatesUntouched
<1>4. MultisigOK'
  <2>1. history' \in HistoryType /\ history'.runs = history.runs
    BY <1>1, <1>2 DEF MultisigOK
  <2> QED BY <1>1, <1>2, <2>1, MultisigUntouched DEF quorumVars, multisigVars
<1>5. PurseOK'
  BY <1>1, <1>2, ReceiveKeepsPurse
<1> QED BY <1>3, <1>4, <1>5, PartsAfter

(* What an approval does to the history.                                   *)
LEMMA ExecutionType ==
  ASSUME MultisigOK, NEW o \in Owners, NEW op \in Operations,
         history' = [history EXCEPT !.runs[o][op] = @ + 1]
  PROVE  history' \in HistoryType /\ history'.runs = RunsAfter(o, op)
<1> DEFINE g == RunsAfter(o, op)
<1>1. /\ history \in HistoryType
      /\ history.runs \in [Owners -> [Operations -> Nat]]
  BY DEF MultisigOK, HistoryType
<1>2. history.runs[o][op] + 1 \in Nat
  BY <1>1
<1>3. g \in [Owners -> [Operations -> Nat]]
  BY <1>1, <1>2 DEF RunsAfter
<1>4. history' = [history EXCEPT !.runs = g]
  BY <1>1 DEF HistoryType, RunsAfter
<1> HIDE DEF g
<1>5. [history EXCEPT !.runs = g] \in HistoryType
      /\ [history EXCEPT !.runs = g].runs = g
  BY <1>1, <1>3 DEF HistoryType
<1> QED BY <1>4, <1>5 DEF g

LEMMA ApproveShape ==
  ASSUME IInv, NEW o \in Owners, NEW d \in Delegates, NEW op \in Operations,
         ApproveMultisigBorrow(o, d, op)
  PROVE  Approval(o, d, op) /\ history' \in HistoryType /\ PurseOK'
<1>1. DelegatesOK /\ MultisigOK /\ PurseOK
  BY Parts
<1>2. op.amount \in Nat /\ op.token \in Tokens
  BY DelegationConstants DEF Operations
<1>3. /\ approvals' = [approvals EXCEPT ![o][op] = approvals[o][op] \cup {d}]
      /\ approvalCount' = [approvalCount EXCEPT ![o][op] = CountAfter(o, d, op)]
      /\ op \notin executed[o] /\ now' = now
  BY DEF ApproveMultisigBorrow, IsFresh
<1>4. CASE UNCHANGED <<executed, balance, history>>
  BY <1>1, <1>3, <1>4 DEF Approval, MultisigOK, PurseOK
<1>5. CASE /\ executed' = [executed EXCEPT ![o] = @ \cup {op}]
           /\ Receive(op.token, op.amount)
           /\ history' = [history EXCEPT !.runs[o][op] = @ + 1]
  <2>1. history' \in HistoryType /\ history'.runs = RunsAfter(o, op)
    BY <1>1, <1>2, <1>5, ExecutionType
  <2>2. PurseOK'
    BY <1>1, <1>2, <1>3, <1>5, ReceiveKeepsPurse
  <2>3. executed' = [executed EXCEPT ![o] = executed[o] \cup {op}]
    BY <1>5
  <2> QED BY <1>3, <2>1, <2>2, <2>3 DEF Approval
<1> QED BY <1>4, <1>5 DEF ApproveMultisigBorrow

LEMMA ApproveInvariant ==
  ASSUME IInv, NEW o \in Owners, NEW d \in Delegates, NEW op \in Operations,
         ApproveMultisigBorrow(o, d, op)
  PROVE  IInv'
<1>1. DelegatesOK /\ MultisigOK
  BY Parts
<1>2. Approval(o, d, op) /\ history' \in HistoryType /\ PurseOK'
  BY ApproveShape
<1>3. MultisigOK'
  BY <1>1, <1>2, ApprovalKeepsMultisig
<1>4. DelegatesOK'
  <2>1. UNCHANGED delegateVars
    BY DEF ApproveMultisigBorrow, delegateVars
  <2> QED BY <1>1, <2>1, DelegatesUntouched
<1> QED BY <1>2, <1>3, <1>4, PartsAfter

LEMMA InitInvariant == Init => IInv
<1> SUFFICES ASSUME Init PROVE IInv
  OBVIOUS
<1>1. NoDelegation \in Delegation /\ NoDelegation.active = FALSE
  BY DEF NoDelegation, Delegation, DelegationType
<1>2. IsFiniteSet({}) /\ Cardinality({}) = 0
  BY FS_EmptySet
<1>3. /\ delegations \in [Owners -> [Delegates -> Delegation]]
      /\ \A o \in Owners, d \in Delegates :
           delegations[o][d].active = FALSE
  <2> HIDE DEF NoDelegation
  <2> QED BY <1>1 DEF Init
<1>4. DelegatesOK
  BY <1>2, <1>3, DelegationConstants DEF Init, DelegatesOK, DelegatesListed
<1>5. /\ history \in HistoryType
      /\ \A o \in Owners, op \in Operations : history.runs[o][op] = 0
  BY DEF Init, HistoryType
<1>6. MultisigOK
  BY <1>2, <1>5 DEF Init, MultisigOK, ApprovalsCounted, ExecutedOnce
<1>7. PurseOK
  BY DEF Init, PurseOK
<1> QED BY <1>4, <1>6, <1>7, Parts

LEMMA StepInvariant == IInv /\ [Next]_vars => IInv'
<1> SUFFICES ASSUME IInv, [Next]_vars PROVE IInv'
  OBVIOUS
<1>1. ASSUME NEW o \in Owners, NEW d \in Delegates, OwnerStep(o, d)
      PROVE  IInv'
  BY <1>1, CreateInvariant, RevokeInvariant DEF OwnerStep
<1>2. ASSUME NEW o \in Owners, NEW d \in Delegates, DelegateStep(o, d)
      PROVE  IInv'
  BY <1>2, IncreaseInvariant, DrawInvariant, ApproveInvariant
     DEF DelegateStep
<1>3. CASE Tick \/ UNCHANGED vars
  <2>1. DelegatesOK /\ MultisigOK /\ PurseOK
    BY Parts
  <2>2. /\ UNCHANGED delegateVars /\ UNCHANGED quorumVars
        /\ history' = history /\ balance' = balance
        /\ now' = now \/ now' = now + 1
    BY <1>3 DEF Tick, vars, multisigVars, delegateVars, quorumVars
  <2>3. DelegatesOK' /\ MultisigOK'
    BY <2>1, <2>2, DelegatesUntouched, MultisigUntouched DEF MultisigOK
  <2>4. PurseOK'
    BY <2>1, <2>2 DEF PurseOK
  <2> QED BY <2>3, <2>4, PartsAfter
<1> QED BY <1>1, <1>2, <1>3 DEF Next

-----------------------------------------------------------------------------
(* The invariant of the delegate manager.                                  *)
THEOREM Invariance == Spec => []IInv
  BY InitInvariant, StepInvariant, PTL DEF Spec

(* No stake, counter or balance of the manager leaves the naturals, and    *)
(* only delegates are listed or approve.                                   *)
THEOREM TypeCorrect == Spec => []TypeOK
<1>1. IInv => TypeOK
  BY DEF IInv
<1> QED BY <1>1, Invariance, PTL

(* Who is listed as a delegate has an active delegation, and conversely,   *)
(* and no owner has more delegates than the limit.                         *)
THEOREM ListsAgree == Spec => []DelegatesListed
<1>1. IInv => DelegatesListed
  BY DEF IInv
<1> QED BY <1>1, Invariance, PTL

(* multisigApprovalCount is the number of distinct approvers.              *)
THEOREM CountsAreExact == Spec => []ApprovalsCounted
<1>1. IInv => ApprovalsCounted
  BY DEF IInv
<1> QED BY <1>1, Invariance, PTL

(* No operation is executed twice.                                         *)
THEOREM NoReplay == Spec => []ExecutedOnce
<1>1. IInv => ExecutedOnce
  BY DEF IInv
<1> QED BY <1>1, Invariance, PTL

(* An operation is executed with as many different approvers as the last   *)
(* approver's threshold, and before it expires.                            *)
THEOREM QuorumIsReached == Spec => QuorumBeforeExecution
<1>1. IInv /\ [Next]_vars => [QuorumIsMet]_vars
  <2> SUFFICES ASSUME IInv, [Next]_vars, NEW p \in Owners,
                      NEW q \in executed'[p] \ executed[p]
               PROVE  /\ now < q.expiry
                      /\ \E d \in approvals'[p][q] :
                           /\ delegations[p][d].active
                           /\ delegations[p][d].delegationType = "MULTISIG"
                           /\ delegations[p][d].threshold
                                <= Cardinality(approvals'[p][q])
    BY DEF QuorumIsMet
  <2>1. PICK o \in Owners, d \in Delegates, op \in Operations :
          ApproveMultisigBorrow(o, d, op)
    <3>1. executed' # executed
      OBVIOUS
    <3> QED BY <3>1 DEF Next, OwnerStep, DelegateStep, CreateDelegation,
               RevokeDelegation, IncreaseStake, BorrowOnBehalf,
               ContractBorrowOnBehalf, Tick, vars, multisigVars
  <2>2. MultisigOK
    BY Parts
  <2>3. Approval(o, d, op) /\ history' \in HistoryType
    BY <2>1, ApproveShape
  <2>4. executed' = [executed EXCEPT ![o] = executed[o] \cup {op}]
        /\ CountAfter(o, d, op) >= delegations[o][d].threshold
    BY <2>1 DEF ApproveMultisigBorrow
  <2>5. p = o /\ q = op
    BY <2>2, <2>4 DEF MultisigOK
  <2>6. CountAfter(o, d, op) = Cardinality(approvals'[o][op])
    BY <2>2, <2>3, ApprovalKeepsMultisig
  <2>7. d \in approvals'[o][op]
    BY <2>2, <2>3 DEF Approval, MultisigOK
  <2>8. /\ now < op.expiry
        /\ delegations[o][d].active
        /\ delegations[o][d].delegationType = "MULTISIG"
    <3>1. now \in Int /\ op.expiry \in Int
      <4>1. now \in Nat
        BY Parts DEF PurseOK
      <4>2. op.expiry \in Nat
        BY DelegationConstants DEF Operations
      <4> QED BY <4>1, <4>2
    <3> QED BY <2>1, <3>1 DEF ApproveMultisigBorrow, MayBorrow, IsFresh
  <2>9. delegations[o][d].threshold <= Cardinality(approvals'[o][op])
    <3>1. /\ delegations[o][d].threshold \in Int
          /\ CountAfter(o, d, op) \in Int
      <4>1. delegations[o][d] \in Delegation
        BY Parts DEF DelegatesOK
      <4> QED BY <4>1, <2>2 DEF Delegation, MultisigOK, CountAfter
    <3> QED BY <3>1, <2>4, <2>6
  <2> QED BY <2>5, <2>7, <2>8, <2>9
<1>2. Spec => [][QuorumIsMet]_vars
  BY <1>1, Invariance, PTL DEF Spec
<1> QED BY <1>2 DEF QuorumBeforeExecution

-----------------------------------------------------------------------------
(***************************************************************************)
(* The stakes.  IInv does not mention money; with it, StakesCovered is     *)
(* inductive by itself.                                                    *)
(***************************************************************************)
Pledges == [p \in Owners \X Delegates |-> history.pledged[p[1]][p[2]]]

LEMMA PairsFinite == IsFiniteSet(Owners \X Delegates)
  BY DelegationConstants, FS_Product

(* What is pledged for one delegate is a natural number and covers the     *)
(* stake that the delegate has on record.                                  *)
LEMMA PledgeFacts ==
  ASSUME IInv, StakesCovered
  PROVE  /\ \A o \in Owners, d \in Delegates :
              /\ delegations[o][d] \in Delegation
              /\ ActiveStake(o, d) <= history.pledged[o][d]
              /\ history.pledged[o][d] \in Nat
         /\ Pledges \in [Owners \X Delegates -> Nat]
         /\ balance[StakingToken] \in Nat
         /\ balance[StakingToken] >= SumFunction(Pledges)
<1>1. ASSUME NEW o \in Owners, NEW d \in Delegates
      PROVE  /\ delegations[o][d] \in Delegation
             /\ ActiveStake(o, d) <= history.pledged[o][d]
             /\ history.pledged[o][d] \in Nat
  <2>1. delegations[o][d] \in Delegation /\ history.pledged[o][d] \in Int
    BY DEF IInv, TypeOK, HistoryType
  <2>2. ActiveStake(o, d) \in Nat
    BY <2>1 DEF ActiveStake, Delegation
  <2>3. ActiveStake(o, d) <= history.pledged[o][d]
    BY DEF StakesCovered
  <2> QED BY <2>1, <2>2, <2>3
<1>2. Pledges \in [Owners \X Delegates -> Nat]
  BY <1>1 DEF Pledges
<1>3. balance[StakingToken] \in Nat
  BY DelegationConstants DEF IInv, TypeOK
<1>4. balance[StakingToken] >= SumFunction(Pledges)
  BY DEF StakesCovered, Pledges
<1> QED BY <1>1, <1>2, <1>3, <1>4

(* One pledge changes, and the balance of the staking token with it.       *)
LEMMA PledgeStep ==
  ASSUME IInv, StakesCovered, NEW o \in Owners, NEW d \in Delegates,
         NEW amount \in Int, history.pledged[o][d] + amount \in Nat,
         history'.pledged = [history.pledged EXCEPT
                              ![o][d] = history.pledged[o][d] + amount],
         balance'[StakingToken] = balance[StakingToken] + amount,
         \A p \in Owners, e \in Delegates :
           p # o \/ e # d => delegations'[p][e] = delegations[p][e],
         ActiveStake(o, d)' <= history.pledged[o][d] + amount
  PROVE  StakesCovered'
<1>a. history.pledged \in [Owners -> [Delegates -> Int]]
  BY DEF IInv, TypeOK, HistoryType
<1>1. /\ history'.pledged[o][d] = history.pledged[o][d] + amount
      /\ \A p \in Owners, e \in Delegates :
           p # o \/ e # d => history'.pledged[p][e] = history.pledged[p][e]
  BY <1>a
<1>2. ASSUME NEW p \in Owners, NEW e \in Delegates
      PROVE  ActiveStake(p, e)' <= history'.pledged[p][e]
  <2>1. CASE p = o /\ e = d
    BY <1>1, <2>1
  <2>2. CASE p # o \/ e # d
    <3>1. ActiveStake(p, e)' = ActiveStake(p, e)
      BY <2>2 DEF ActiveStake
    <3> QED BY <1>1, <2>2, <3>1, PledgeFacts
  <2> QED BY <2>1, <2>2
<1>3. balance'[StakingToken] >= SumFunction(Pledges')
  <2> DEFINE S == Owners \X Delegates
             f == Pledges
             h == Pledges'
             u == <<o, d>>
  <2>1. u \in S /\ f \in [S -> Nat] /\ IsFiniteSet(S)
    BY PledgeFacts, PairsFinite
  <2>2. h \in [S -> Nat]
    BY <1>1, PledgeFacts DEF Pledges
  <2>3. \A x \in S \ {u} : h[x] = f[x]
    BY <1>1 DEF Pledges
  <2>4. f[u] = history.pledged[o][d] /\ h[u] = history.pledged[o][d] + amount
    BY <1>1 DEF Pledges
  <2> HIDE DEF S, f, h, u
  <2>5. SumFunction(h) + f[u] = SumFunction(f) + h[u]
        /\ SumFunction(h) \in Nat /\ SumFunction(f) \in Nat
    BY <2>1, <2>2, <2>3, SumReplaced, SumIsNatural
  <2>6. SumFunction(h) = SumFunction(f) + amount
    <3>1. history.pledged[o][d] \in Nat
      BY PledgeFacts
    <3> QED BY <2>4, <2>5, <3>1
  <2>7. balance[StakingToken] >= SumFunction(f) /\ balance[StakingToken] \in Nat
    BY PledgeFacts DEF f
  <2>8. balance'[StakingToken] >= SumFunction(h)
    BY <2>5, <2>6, <2>7
  <2> QED BY <2>8 DEF h
<1> QED BY <1>2, <1>3 DEF StakesCovered, Pledges

(* Nothing is pledged or given back, and the manager loses nothing.        *)
LEMMA PledgesStay ==
  ASSUME IInv, StakesCovered,
         delegations' = delegations, history'.pledged = history.pledged,
         balance'[StakingToken] \in Nat,
         balance'[StakingToken] >= balance[StakingToken]
  PROVE  StakesCovered'
<1>1. ASSUME NEW o \in Owners, NEW d \in Delegates
      PROVE  ActiveStake(o, d)' <= history'.pledged[o][d]
  BY PledgeFacts DEF ActiveStake
<1>2. Pledges' = Pledges
  BY DEF Pledges
<1>3. SumFunction(Pledges) \in Nat
  BY PledgeFacts, PairsFinite, SumIsNatural
<1>4. balance'[StakingToken] >= SumFunction(Pledges')
  BY <1>2, <1>3, PledgeFacts
<1> QED BY <1>1, <1>4 DEF StakesCovered, Pledges

(* Tokens that arrive do not lower any balance.                            *)
LEMMA ReceiveAdds ==
  ASSUME IInv, NEW t \in Tokens, NEW amount \in Nat, Receive(t, amount)
  PROVE  /\ balance'[StakingToken] \in Nat
         /\ balance'[StakingToken] >= balance[StakingToken]
         /\ t = StakingToken
              => balance'[StakingToken] = balance[StakingToken] + amount
BY DelegationConstants DEF Receive, IInv, TypeOK

LEMMA InitCovered == Init => StakesCovered
<1> SUFFICES ASSUME Init PROVE StakesCovered
  OBVIOUS
<1>1. ASSUME NEW o \in Owners, NEW d \in Delegates
      PROVE  ActiveStake(o, d) = 0 /\ history.pledged[o][d] = 0
  BY DEF Init, ActiveStake, NoDelegation
<1>2. Pledges \in [Owners \X Delegates -> Nat]
      /\ \A p \in Owners \X Delegates : Pledges[p] = 0
  BY <1>1 DEF Pledges
<1>3. SumFunction(Pledges) = 0
  BY <1>2, PairsFinite, SumOfZeros
<1>4. balance[StakingToken] = 0
  BY DelegationConstants DEF Init
<1> QED BY <1>1, <1>3, <1>4 DEF StakesCovered, Pledges

LEMMA CreateCovered ==
  ASSUME IInv, StakesCovered, NEW o \in Owners, NEW d \in Delegates,
         NEW type \in Types, NEW cap \in Caps, NEW threshold \in Thresholds,
         CreateDelegation(o, d, type, cap, threshold)
  PROVE  StakesCovered'
<1> DEFINE stake == RequiredStake(cap)
           new == [delegationType |-> type, maxBorrowAmount |-> cap,
                   stakedAmount |-> stake,
                   threshold |-> IF type = "MULTISIG" THEN threshold ELSE 1,
                   active |-> TRUE]
           h == [history EXCEPT
                  !.pledged[o][d] = history.pledged[o][d] + stake]
<1>1. stake \in Nat /\ MultisigOK
  BY StakeType, Parts, DelegationConstants
<1>2. /\ Receive(StakingToken, stake)
      /\ delegations' = [delegations EXCEPT ![o][d] = new]
      /\ history' = h
  BY DEF CreateDelegation
<1>3. new.active = TRUE /\ new.stakedAmount = stake
  OBVIOUS
<1> HIDE DEF stake, new
<1>4. h.pledged = [history.pledged EXCEPT
                    ![o][d] = history.pledged[o][d] + stake]
  BY <1>1, PledgeType
<1> HIDE DEF h
<1>5. /\ delegations'[o][d] = new
      /\ \A p \in Owners, e \in Delegates :
           p # o \/ e # d => delegations'[p][e] = delegations[p][e]
  BY <1>2 DEF IInv, TypeOK
<1>6. ActiveStake(o, d)' = stake
  BY <1>3, <1>5 DEF ActiveStake
<1>7. stake <= history.pledged[o][d] + stake
      /\ history.pledged[o][d] + stake \in Nat
  BY <1>1, PledgeFacts
<1>8. balance'[StakingToken] = balance[StakingToken] + stake
  BY <1>1, <1>2, ReceiveAdds, DelegationConstants
<1> QED BY <1>1, <1>2, <1>4, <1>5, <1>6, <1>7, <1>8, PledgeStep

LEMMA RevokeCovered ==
  ASSUME IInv, StakesCovered, NEW o \in Owners, NEW d \in Delegates,
         RevokeDelegation(o, d)
  PROVE  StakesCovered'
<1> DEFINE stake == delegations[o][d].stakedAmount
           back == 0 - stake
           h == [history EXCEPT
                  !.pledged[o][d] = history.pledged[o][d] + back]
<1>1. /\ stake \in Nat /\ back \in Int /\ history.pledged[o][d] \in Nat
      /\ balance[StakingToken] \in Nat /\ MultisigOK
  BY PledgeFacts, Parts DEF Delegation
<1>2. stake <= history.pledged[o][d]
  <2>1. ActiveStake(o, d) = stake
    BY DEF RevokeDelegation, ActiveStake
  <2> QED BY <2>1, PledgeFacts
<1>3. /\ delegations' = [delegations EXCEPT ![o][d] =
                          [delegations[o][d] EXCEPT !.active = FALSE]]
      /\ balance' = [balance EXCEPT ![StakingToken]
                      = balance[StakingToken] - stake]
      /\ history' = [history EXCEPT
                      !.pledged[o][d] = history.pledged[o][d] - stake]
  BY DEF RevokeDelegation, IInv, TypeOK
<1>4. history.pledged[o][d] - stake = history.pledged[o][d] + back
      /\ history.pledged[o][d] + back \in Nat
      /\ balance[StakingToken] - stake = balance[StakingToken] + back
  <2> HIDE DEF stake
  <2> QED BY <1>1, <1>2
<1>5. history' = h
  BY <1>3, <1>4
<1>6. balance'[StakingToken] = balance[StakingToken] + back
  BY <1>3, <1>4, DelegationConstants DEF IInv, TypeOK
<1>7. /\ delegations'[o][d].active = FALSE
      /\ \A p \in Owners, e \in Delegates :
           p # o \/ e # d => delegations'[p][e] = delegations[p][e]
  <2>1. delegations[o][d] \in Delegation
    BY PledgeFacts
  <2>2. [delegations[o][d] EXCEPT !.active = FALSE].active = FALSE
    BY <2>1 DEF Delegation
  <2> QED BY <1>3, <2>2 DEF IInv, TypeOK
<1>8. ActiveStake(o, d)' <= history.pledged[o][d] + back
  <2>1. ActiveStake(o, d)' = 0
    BY <1>7 DEF ActiveStake
  <2> QED BY <1>4, <2>1
<1> HIDE DEF stake, back
<1>9. h.pledged = [history.pledged EXCEPT
                    ![o][d] = history.pledged[o][d] + back]
  BY <1>1, PledgeType
<1> HIDE DEF h
<1> QED BY <1>1, <1>4, <1>5, <1>6, <1>7, <1>8, <1>9, PledgeStep

LEMMA IncreaseCovered ==
  ASSUME IInv, StakesCovered, NEW o \in Owners, NEW d \in Delegates,
         NEW amount \in Amounts, IncreaseStake(o, d, amount)
  PROVE  StakesCovered'
<1> DEFINE stake == delegations[o][d].stakedAmount
           h == [history EXCEPT
                  !.pledged[o][d] = history.pledged[o][d] + amount]
<1>1. /\ stake \in Nat /\ amount \in Nat /\ history.pledged[o][d] \in Nat
      /\ delegations[o][d] \in Delegation /\ MultisigOK
  BY PledgeFacts, Parts, DelegationConstants DEF Delegation
<1>2. stake <= history.pledged[o][d]
  <2>1. ActiveStake(o, d) = stake
    BY DEF IncreaseStake, ActiveStake
  <2> QED BY <2>1, PledgeFacts
<1>3. /\ Receive(StakingToken, amount)
      /\ delegations' = [delegations EXCEPT ![o][d] =
           [delegations[o][d] EXCEPT !.stakedAmount = stake + amount]]
      /\ history' = h
  BY DEF IncreaseStake, StakeAdded, IInv, TypeOK
<1>4. /\ delegations'[o][d]
           = [delegations[o][d] EXCEPT !.stakedAmount = stake + amount]
      /\ \A p \in Owners, e \in Delegates :
           p # o \/ e # d => delegations'[p][e] = delegations[p][e]
  BY <1>3 DEF IInv, TypeOK
<1>5. delegations'[o][d].stakedAmount = stake + amount
  BY <1>1, <1>4 DEF Delegation
<1> HIDE DEF stake
<1>6. ActiveStake(o, d)' <= history.pledged[o][d] + amount
      /\ history.pledged[o][d] + amount \in Nat
  BY <1>1, <1>2, <1>5 DEF ActiveStake
<1>7. h.pledged = [history.pledged EXCEPT
                    ![o][d] = history.pledged[o][d] + amount]
  BY <1>1, PledgeType
<1> HIDE DEF h
<1>8. balance'[StakingToken] = balance[StakingToken] + amount
  BY <1>1, <1>3, ReceiveAdds, DelegationConstants
<1> QED BY <1>1, <1>3, <1>4, <1>6, <1>7, <1>8, PledgeStep

(* Loans arrive at the manager, who may hold the staking token twice over: *)
(* as stake and as loan.                                                   *)
LEMMA DrawCovered ==
  ASSUME IInv, StakesCovered, NEW o \in Owners, NEW d \in Delegates,
         \/ \E token \in Tokens, amount \in Amounts :
              BorrowOnBehalf(o, d, token, amount)
                \/ ContractBorrowOnBehalf(o, d, token, amount)
         \/ \E op \in Operations : ApproveMultisigBorrow(o, d, op)
  PROVE  StakesCovered'
<1>1. CASE \E token \in Tokens, amount \in Amounts :
             BorrowOnBehalf(o, d, token, amount)
               \/ ContractBorrowOnBehalf(o, d, token, amount)
  <2>1. PICK token \in Tokens, amount \in Amounts :
          /\ Receive(token, amount)
          /\ UNCHANGED <<delegations, history>>
    BY <1>1 DEF BorrowOnBehalf, ContractBorrowOnBehalf
  <2>2. amount \in Nat
    BY DelegationConstants
  <2> QED BY <2>1, <2>2, ReceiveAdds, PledgesStay
<1>2. ASSUME NEW op \in Operations, ApproveMultisigBorrow(o, d, op)
      PROVE  StakesCovered'
  <2>1. delegations' = delegations
    BY <1>2 DEF ApproveMultisigBorrow
  <2>2. /\ op.token \in Tokens /\ op.amount \in Nat
        /\ balance[StakingToken] \in Nat
    BY PledgeFacts, DelegationConstants DEF Operations
  <2>3. CASE UNCHANGED <<executed, balance, history>>
    BY <2>1, <2>2, <2>3, PledgesStay
  <2>4. CASE /\ Receive(op.token, op.amount)
             /\ history' = [history EXCEPT !.runs[o][op] = @ + 1]
    <3>1. history'.pledged = history.pledged
      BY <2>4 DEF IInv, TypeOK, HistoryType
    <3> QED BY <2>1, <2>2, <2>4, <3>1, ReceiveAdds, PledgesStay
  <2> QED BY <1>2, <2>3, <2>4 DEF ApproveMultisigBorrow
<1> QED BY <1>1, <1>2

(* Whatever was created twice, increased, revoked or borrowed before: the  *)
(* manager holds all that was pledged, and nobody's recorded stake exceeds *)
(* what was pledged for it, so that a revocation can always pay it back.   *)
THEOREM StakesAreCovered == Spec => []StakesCovered
<1>1. IInv /\ StakesCovered /\ [Next]_vars => StakesCovered'
  <2> SUFFICES ASSUME IInv, StakesCovered, [Next]_vars
               PROVE  StakesCovered'
    OBVIOUS
  <2>1. ASSUME NEW o \in Owners, NEW d \in Delegates, OwnerStep(o, d)
        PROVE  StakesCovered'
    BY <2>1, CreateCovered, RevokeCovered DEF OwnerStep
  <2>2. ASSUME NEW o \in Owners, NEW d \in Delegates, DelegateStep(o, d)
        PROVE  StakesCovered'
    BY <2>2, IncreaseCovered, DrawCovered DEF DelegateStep
  <2>3. CASE Tick \/ UNCHANGED vars
    <3>1. UNCHANGED <<delegations, balance, history>>
      BY <2>3 DEF Tick, vars
    <3>2. balance[StakingToken] \in Nat
      BY PledgeFacts
    <3> QED BY <3>1, <3>2, PledgesStay
  <2> QED BY <2>1, <2>2, <2>3 DEF Next
<1> QED BY <1>1, Invariance, InitCovered, PTL DEF Spec

(* So the guard of RevokeDelegation on the balance never bites: whichever  *)
(* delegation is revoked first, its stake is there.                        *)
THEOREM EveryStakeIsThere ==
  Spec => [](\A o \in Owners, d \in Delegates :
               ActiveStake(o, d) <= balance[StakingToken])
<1>1. IInv /\ StakesCovered => \A o \in Owners, d \in Delegates :
                                 ActiveStake(o, d) <= balance[StakingToken]
  <2> SUFFICES ASSUME IInv, StakesCovered, NEW o \in Owners, NEW d \in Delegates
               PROVE  ActiveStake(o, d) <= balance[StakingToken]
    OBVIOUS
  <2>1. /\ ActiveStake(o, d) <= history.pledged[o][d]
        /\ ActiveStake(o, d) \in Nat /\ history.pledged[o][d] \in Nat
    BY PledgeFacts DEF ActiveStake, Delegation
  <2>2. Pledges[<<o, d>>] <= SumFunction(Pledges)
        /\ SumFunction(Pledges) \in Nat
    BY PledgeFacts, PairsFinite, TermInSum, SumIsNatural
  <2>3. Pledges[<<o, d>>] = history.pledged[o][d]
    BY DEF Pledges
  <2>4. balance[StakingToken] \in Nat
        /\ balance[StakingToken] >= SumFunction(Pledges)
    BY PledgeFacts
  <2> QED BY <2>1, <2>2, <2>3, <2>4
<1> QED BY <1>1, Invariance, StakesAreCovered, PTL
=============================================================================
